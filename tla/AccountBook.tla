------------------------------ MODULE AccountBook ------------------------------
(***************************************************************************)
(* What an economy promises, without requests, permissions, limits,        *)
(* invoices or audit entries: accounts hold balances that are never        *)
(* negative, and a balance moves only when a posting is entered under a    *)
(* key that no other posting has.                                          *)
(***************************************************************************)
EXTENDS Integers

CONSTANTS
    BookAccounts,   \* accounts of the book
    Keys,           \* keys postings are entered under
    BookAmounts,    \* amounts of a posting
    Opening,        \* [BookAccounts -> Nat]
    None            \* no account: the outside of the book

VARIABLES
    balance,   \* per account
    posted     \* postings entered, by their key

bookVars == <<balance, posted>>

Posting == [debit: BookAccounts \cup {None}, credit: BookAccounts \cup {None},
            amount: BookAmounts]

NetOn(p, a) == (IF p.credit = a THEN p.amount ELSE 0) - (IF p.debit = a THEN p.amount ELSE 0)

Init ==
    /\ balance = Opening
    /\ posted = [k \in {} |-> None]

(* One posting is entered, and every account it names can pay its part.     *)
Post(k, p) ==
    /\ k \notin DOMAIN posted
    /\ \A a \in BookAccounts : balance[a] + NetOn(p, a) >= 0
    /\ balance' = [a \in BookAccounts |-> balance[a] + NetOn(p, a)]
    /\ posted' = [q \in DOMAIN posted \cup {k} |-> IF q = k THEN p ELSE posted[q]]

Next == \E k \in Keys, p \in Posting : Post(k, p)

Spec == Init /\ [][Next]_bookVars
=============================================================================
