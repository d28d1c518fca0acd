-------------------------- MODULE EconomyLedgerProofs --------------------------
(***************************************************************************)
(* The economy service of the TypeScript core, for every value of the      *)
(* constants: what a plugin moves stays within its capability, the ledger  *)
(* implements AccountBook, and statements, audit trail, balances, invoices *)
(* and reports tell one history.  Every posting method ends in Record, so  *)
(* what Record does to the ledger is shown once, and each method only has  *)
(* to meet its terms.                                                      *)
(***************************************************************************)
EXTENDS EconomyLedger, SequenceTheorems, DataTheorems, TLAPS

Ids == DOMAIN OpeningAccounts
BookPosting == [debit : Ids \cup {None}, credit : Ids \cup {None}, amount : Amounts]
Transaction == [type : TransactionTypes, actorId : Actors, idempotencyKey : IdempotencyKeys,
                posting : BookPosting, creditFirst : BOOLEAN, createdAt : Nat, about : Nat \cup {None}]
Invoice == [issuer : Ids, payer : Ids, amount : Amounts, currency : Currencies,
            status : {"issued", "paid"}, issuedBy : Actors]

IsSeq(s) == \E S : s \in Seq(S)

(* The value v an account's entries S of the trail end with: the opening     *)
(* balance, or what the last entry of S leaves.                             *)
EndsIn(log, S, a, v) ==
    \/ S = {} /\ v = OpeningAccounts[a].balance
    \/ \E m \in S : (\A k \in S : k <= m) /\ v = log[m].after[a]

Before(a, i) == {j \in AuditsOf(a) : j < i}

(* The balance of a that an entry goes on from: the one it shows as before,  *)
(* or after it, where the former was overwritten.                           *)
Overwritten(i) == Overwrites(transactions[i].type, transactions[i].posting)
GoesOnFrom(i, a) == IF Overwritten(i) THEN auditLogs[i].after[a] ELSE auditLogs[i].before[a]

ChainInv ==
    \A a \in Ids :
        /\ \A i \in AuditsOf(a) :
             /\ EndsIn(auditLogs, Before(a, i), a, GoesOnFrom(i, a))
             /\ Overwritten(i) => auditLogs[i].before[a] # auditLogs[i].after[a]
        /\ EndsIn(auditLogs, AuditsOf(a), a, accountsById[a].balance)

LedgerInv ==
    /\ accountsById \in [Ids -> Account]
    /\ transactions \in Seq(Transaction)
    /\ \A id \in DOMAIN transactions : transactions[id].posting.amount > 0
    /\ \A k \in DOMAIN transactionsByIdempotencyKey :
            transactionsByIdempotencyKey[k].result \in DOMAIN transactions
    /\ IsSeq(auditLogs) /\ Len(auditLogs) = Len(transactions)
    /\ ChainInv

Payments(i) == {id \in DOMAIN transactions :
                    transactions[id].type = "economy.pay_invoice" /\ transactions[id].about = i}

InvoiceInv ==
    /\ invoices \in Seq(Invoice)
    /\ \A i \in DOMAIN invoices : invoices[i].amount > 0

PaymentInv ==
    /\ \A id \in DOMAIN transactions :
            transactions[id].type = "economy.pay_invoice" => transactions[id].about \in DOMAIN invoices
    /\ \A i \in DOMAIN invoices :
            /\ invoices[i].status = "issued" => Payments(i) = {}
            /\ invoices[i].status # "issued" =>
                \E id \in DOMAIN transactions :
                    /\ Payments(i) = {id}
                    /\ transactions[id].posting =
                            Posting(invoices[i].payer, invoices[i].issuer, invoices[i].amount)

IInv ==
    /\ LedgerInv
    /\ InvoiceInv
    /\ PaymentInv
    /\ voidedTransactionIds \subseteq DOMAIN transactions
    /\ now \in Nat

-----------------------------------------------------------------------------
(* Recording one transaction.                                               *)

LEMMA Appending ==
    ASSUME NEW S, NEW s \in Seq(S), NEW e \in S
    PROVE  /\ Append(s, e) \in Seq(S)
           /\ Len(Append(s, e)) = Len(s) + 1
           /\ DOMAIN s = 1 .. Len(s) /\ DOMAIN Append(s, e) = 1 .. (Len(s) + 1)
           /\ Append(s, e)[Len(s) + 1] = e
           /\ \A i \in DOMAIN s : Append(s, e)[i] = s[i]
OBVIOUS

LEMMA AppendingAnything ==
    ASSUME NEW s, IsSeq(s), NEW e
    PROVE  IsSeq(Append(s, e)) /\ Len(Append(s, e)) = Len(s) + 1
<1>1. PICK S : s \in Seq(S)
  BY DEF IsSeq
<1>2. s \in Seq(S \cup {e})
  BY <1>1
<1> QED BY <1>2 DEF IsSeq

(* What a posting brings to an account of it.                               *)
LEMMA NetIs ==
    ASSUME NEW p \in BookPosting, NEW a
    PROVE  ledgerEntryNet(p, a) =
             IF p.credit = a THEN (IF p.debit = a THEN 0 ELSE p.amount)
             ELSE (IF p.debit = a THEN -p.amount ELSE 0)
BY LedgerAssumption DEF ledgerEntryNet, BookPosting

(* The accounts an accepted posting leaves.                                 *)
LEMMA MovedAccounts ==
    ASSUME accountsById \in [Ids -> Account], NEW p \in BookPosting, p.amount > 0,
           p.debit # None => accountsById[p.debit].balance >= p.amount
    PROVE  LET moved == [a \in DOMAIN accountsById |->
                            [accountsById[a] EXCEPT !.balance = @ + ledgerEntryNet(p, a)]] IN
           /\ moved \in [Ids -> Account]
           /\ \A a \in Ids : /\ moved[a].balance = accountsById[a].balance + ledgerEntryNet(p, a)
                             /\ accountsById[a].balance + ledgerEntryNet(p, a) >= 0
<1> DEFINE moved == [a \in DOMAIN accountsById |->
                        [accountsById[a] EXCEPT !.balance = @ + ledgerEntryNet(p, a)]]
<1>1. ASSUME NEW a \in Ids
      PROVE  /\ accountsById[a] \in Account /\ accountsById[a].balance \in Nat
             /\ accountsById[a].balance + ledgerEntryNet(p, a) \in Nat
             /\ ledgerEntryNet(p, a) \in Int
  <2>1. accountsById[a] \in Account /\ accountsById[a].balance \in Nat
    BY DEF Account
  <2>2. p.amount \in Nat
    BY LedgerAssumption DEF BookPosting
  <2>3. a # None
    BY LedgerAssumption DEF Ids
  <2>4. p.debit = a => accountsById[a].balance >= p.amount
    BY <2>3
  <2> QED BY <2>1, <2>2, <2>4, NetIs
<1>2. ASSUME NEW a \in Ids
      PROVE  moved[a] \in Account /\ moved[a].balance = accountsById[a].balance + ledgerEntryNet(p, a)
  <2>1. moved[a] = [accountsById[a] EXCEPT !.balance = @ + ledgerEntryNet(p, a)]
    OBVIOUS
  <2> HIDE DEF moved
  <2> QED BY <1>1, <2>1 DEF Account
<1>3. DOMAIN moved = Ids /\ moved = [a \in Ids |-> moved[a]]
  OBVIOUS
<1> HIDE DEF moved
<1>4. moved \in [Ids -> Account]
  BY <1>2, <1>3
<1> QED BY <1>1, <1>2, <1>4 DEF moved

(* The terms a method has to meet when it records.                          *)
Terms(type, input, p, extra) ==
    /\ type \in TransactionTypes
    /\ input.actor \in Actors /\ input.key \in IdempotencyKeys
    /\ p \in BookPosting /\ p.amount > 0
    /\ extra \in Nat \cup {None}
    /\ input.key \notin DOMAIN transactionsByIdempotencyKey
    /\ p.debit # None => accountsById[p.debit].balance >= p.amount

(* What a void reverses stands as not voided until then; no other method     *)
(* voids anything.                                                          *)
Voiding(type, p, extra) ==
    IF type = "economy.void_transaction"
    THEN /\ extra \in DOMAIN transactions \ voidedTransactionIds
         /\ p = Reversed(transactions[extra].posting)
         /\ voidedTransactionIds' = voidedTransactionIds \cup {extra}
    ELSE UNCHANGED voidedTransactionIds

(* The two kinds of steps: one transaction is recorded, or the ledger stays  *)
(* as it is.                                                                *)
Recorded ==
    /\ UNCHANGED <<now, balancesAt>>
    /\ \E type, input, p, extra : \E creditFirst \in BOOLEAN :
            /\ Terms(type, input, p, extra)
            /\ Record(type, input, p, extra, creditFirst)
            /\ Voiding(type, p, extra)
Quiet == UNCHANGED ledgerVars /\ (Tick \/ UNCHANGED <<now, balancesAt>>)

(* One transaction is appended, and nothing of the others changes.          *)
LEMMA RecordAppends ==
    ASSUME LedgerInv, now \in Nat, NEW type, NEW input, NEW p, NEW extra, NEW creditFirst \in BOOLEAN,
           Terms(type, input, p, extra), Record(type, input, p, extra, creditFirst)
    PROVE  LET id == Len(transactions) + 1 IN
           /\ transactions' \in Seq(Transaction) /\ transactions'[id].createdAt = now
           /\ DOMAIN transactions = 1 .. Len(transactions)
           /\ DOMAIN transactions' = 1 .. id
           /\ id \notin DOMAIN transactions /\ DOMAIN transactions' = DOMAIN transactions \cup {id}
           /\ transactions'[id].type = type /\ transactions'[id].actorId = input.actor
           /\ transactions'[id].posting = p /\ transactions'[id].about = extra
           /\ Len(transactions') = id
           /\ \A i \in DOMAIN transactions : transactions'[i] = transactions[i]
<1> DEFINE t == [type |-> type, actorId |-> input.actor, idempotencyKey |-> input.key,
                 posting |-> p, creditFirst |-> creditFirst, createdAt |-> now, about |-> extra]
<1>1. t \in Transaction
  BY DEF Terms, Transaction
<1>2. transactions' = Append(transactions, t)
  BY DEF Record
<1>3. transactions \in Seq(Transaction) /\ Len(transactions) \in Nat
  BY DEF LedgerInv
<1> HIDE DEF t
<1>4. /\ transactions' \in Seq(Transaction)
      /\ DOMAIN transactions = 1 .. Len(transactions)
      /\ DOMAIN transactions' = 1 .. (Len(transactions) + 1)
      /\ transactions'[Len(transactions) + 1] = t
      /\ Len(transactions') = Len(transactions) + 1
      /\ \A i \in DOMAIN transactions : transactions'[i] = transactions[i]
  BY <1>1, <1>2, <1>3, Appending
<1>5. t.type = type /\ t.actorId = input.actor /\ t.posting = p /\ t.about = extra /\ t.createdAt = now
  BY DEF t
<1> QED BY <1>3, <1>4, <1>5

(* The trail of each account goes on where it ended: the new entry is the    *)
(* last one of the accounts it touches, and the others stay as they are.    *)
LEMMA AuditAppended ==
    ASSUME NEW s, IsSeq(s), NEW e
    PROVE  /\ DOMAIN s = 1 .. Len(s) /\ Len(s) \in Nat
           /\ DOMAIN Append(s, e) = DOMAIN s \cup {Len(s) + 1}
           /\ Append(s, e)[Len(s) + 1] = e
           /\ \A i \in DOMAIN s : Append(s, e)[i] = s[i]
<1>1. PICK S : s \in Seq(S)
  BY DEF IsSeq
<1>2. s \in Seq(S \cup {e})
  BY <1>1
<1> QED BY <1>2

LEMMA RecordChains ==
    ASSUME LedgerInv, now \in Nat, NEW type, NEW input, NEW p, NEW extra, NEW creditFirst \in BOOLEAN,
           Terms(type, input, p, extra), Record(type, input, p, extra, creditFirst)
    PROVE  ChainInv'
<1>0. PICK n : n = Len(auditLogs) + 1
  OBVIOUS
<1>1. \A a \in Ids : accountsById'[a].balance = accountsById[a].balance + ledgerEntryNet(p, a)
  BY MovedAccounts DEF LedgerInv, Terms, Record
<1>2. DOMAIN accountsById = Ids /\ \A a \in Ids : accountsById[a].balance \in Nat
  BY DEF LedgerInv, Account
<1>3. PICK e : /\ auditLogs' = Append(auditLogs, e)
               /\ DOMAIN e.before = Touched(p)
               /\ \A a \in Touched(p) : e.before[a] = BalancesBefore(type, p, creditFirst)[a]
               /\ \A a \in Touched(p) : e.after[a] = accountsById'[a].balance
  <2> DEFINE row == [actionType |-> type, actorId |-> input.actor,
                     before |-> BalancesBefore(type, p, creditFirst),
                     after |-> [a \in Touched(p) |-> accountsById'[a].balance]]
  <2>1. auditLogs' = Append(auditLogs, row)
    BY DEF Record
  <2>2. /\ DOMAIN row.before = Touched(p)
        /\ \A a \in Touched(p) : row.before[a] = BalancesBefore(type, p, creditFirst)[a]
        /\ \A a \in Touched(p) : row.after[a] = accountsById'[a].balance
    BY DEF BalancesBefore
  <2> HIDE DEF row
  <2> QED BY <2>1, <2>2
<1>4. /\ DOMAIN auditLogs = 1 .. Len(auditLogs) /\ Len(auditLogs) \in Nat
      /\ DOMAIN auditLogs' = DOMAIN auditLogs \cup {n}
      /\ auditLogs'[n] = e
      /\ \A i \in DOMAIN auditLogs : auditLogs'[i] = auditLogs[i]
  BY <1>0, <1>3, AuditAppended DEF LedgerInv
<1>5. n \in Nat /\ n \notin DOMAIN auditLogs /\ \A i \in DOMAIN auditLogs : i \in Nat /\ i < n
  BY <1>0, <1>4
<1>12. /\ transactions'[n].type = type /\ transactions'[n].posting = p
       /\ \A i \in DOMAIN auditLogs : transactions'[i] = transactions[i]
  <2>1. DOMAIN auditLogs = DOMAIN transactions /\ n = Len(transactions) + 1
    BY <1>0, <1>4, RecordAppends DEF LedgerInv
  <2> QED BY <2>1, RecordAppends
<1>13. ASSUME NEW a \in Touched(p), a \in Ids
       PROVE  IF Overwrites(type, p)
              THEN e.after[a] = accountsById[a].balance /\ e.before[a] # e.after[a]
              ELSE e.before[a] = accountsById[a].balance
  <2>1. p.amount \in Nat /\ p.amount > 0
    BY LedgerAssumption DEF Terms, BookPosting
  <2>2. CASE Overwrites(type, p)
    <3>1. p.debit = a /\ p.credit = a
      BY <1>13, <2>2 DEF Overwrites, Touched
    <3>2. ledgerEntryNet(p, a) = 0
      BY <2>1, <3>1 DEF ledgerEntryNet
    <3>3. e.after[a] = accountsById[a].balance
      BY <1>1, <1>2, <1>3, <1>13, <3>2
    <3>4. e.before[a] \in {accountsById[a].balance + p.amount, accountsById[a].balance - p.amount}
      BY <1>3, <2>2 DEF BalancesBefore
    <3>5. accountsById[a].balance \in Nat
      BY <1>2, <1>13
    <3>6. e.before[a] # e.after[a]
      BY <2>1, <3>3, <3>4, <3>5
    <3> QED BY <2>2, <3>3, <3>6
  <2>3. CASE ~Overwrites(type, p)
    BY <1>3, <2>3 DEF BalancesBefore
  <2> QED BY <2>2, <2>3
<1>6. ASSUME NEW a \in Ids
      PROVE  /\ AuditsOf(a)' = IF a \in Touched(p) THEN AuditsOf(a) \cup {n} ELSE AuditsOf(a)
             /\ AuditsOf(a) \subseteq DOMAIN auditLogs
  BY <1>3, <1>4 DEF AuditsOf
<1>7. ASSUME NEW a \in Ids, NEW i \in AuditsOf(a)
      PROVE  Before(a, i)' = Before(a, i)
  <2>1. i \in Nat /\ ~(n < i)
    BY <1>5, <1>6
  <2> QED BY <1>6, <2>1 DEF Before
<1>8. ASSUME NEW a \in Ids
      PROVE  Before(a, n)' = AuditsOf(a)
  <2>1. ~(n < n) /\ \A i \in AuditsOf(a) : i < n
    BY <1>5, <1>6
  <2> QED BY <1>6, <2>1 DEF Before
<1>9. ASSUME NEW a \in Ids, NEW S \in SUBSET AuditsOf(a), NEW v, EndsIn(auditLogs, S, a, v)
      PROVE  EndsIn(auditLogs', S, a, v)
  <2>1. \A m \in S : auditLogs'[m] = auditLogs[m]
    BY <1>4, <1>6
  <2> QED BY <1>9, <2>1 DEF EndsIn
<1>10. ASSUME NEW a \in Ids
       PROVE  /\ \A i \in AuditsOf(a)' :
                    /\ EndsIn(auditLogs', Before(a, i)', a, GoesOnFrom(i, a)')
                    /\ Overwritten(i)' => auditLogs'[i].before[a] # auditLogs'[i].after[a]
              /\ EndsIn(auditLogs', AuditsOf(a)', a, accountsById'[a].balance)
  <2>1. ASSUME NEW i \in AuditsOf(a)
        PROVE  /\ EndsIn(auditLogs', Before(a, i)', a, GoesOnFrom(i, a)')
               /\ Overwritten(i)' => auditLogs'[i].before[a] # auditLogs'[i].after[a]
    <3>1. /\ EndsIn(auditLogs, Before(a, i), a, GoesOnFrom(i, a)) /\ Before(a, i) \subseteq AuditsOf(a)
          /\ Overwritten(i) => auditLogs[i].before[a] # auditLogs[i].after[a]
      BY DEF LedgerInv, ChainInv, Before
    <3>2. Before(a, i)' = Before(a, i) /\ auditLogs'[i] = auditLogs[i] /\ transactions'[i] = transactions[i]
      BY <1>4, <1>6, <1>7, <1>12
    <3>3. GoesOnFrom(i, a)' = GoesOnFrom(i, a) /\ (Overwritten(i)' <=> Overwritten(i))
      BY <3>2 DEF GoesOnFrom, Overwritten
    <3>4. EndsIn(auditLogs', Before(a, i), a, GoesOnFrom(i, a))
      BY <1>9, <3>1
    <3> QED BY <3>1, <3>2, <3>3, <3>4
  <2>2. EndsIn(auditLogs, AuditsOf(a), a, accountsById[a].balance)
    BY DEF LedgerInv, ChainInv
  <2>3. CASE a \in Touched(p)
    <3>1. /\ GoesOnFrom(n, a)' = accountsById[a].balance /\ auditLogs'[n].after[a] = accountsById'[a].balance
          /\ Overwritten(n)' => auditLogs'[n].before[a] # auditLogs'[n].after[a]
      <4>1. (Overwritten(n)' <=> Overwrites(type, p)) /\ auditLogs'[n] = e
        BY <1>4, <1>12 DEF Overwritten, Overwrites
      <4> QED BY <1>3, <1>13, <2>3, <4>1 DEF GoesOnFrom
    <3>2. EndsIn(auditLogs', Before(a, n)', a, GoesOnFrom(n, a)')
      <4>1. EndsIn(auditLogs', AuditsOf(a), a, accountsById[a].balance)
        BY <1>9, <2>2
      <4> QED BY <1>8, <3>1, <4>1
    <3>3. EndsIn(auditLogs', AuditsOf(a)', a, accountsById'[a].balance)
      <4>1. n \in AuditsOf(a)' /\ \A k \in AuditsOf(a)' : k <= n
        BY <1>5, <1>6, <2>3
      <4> QED BY <3>1, <4>1 DEF EndsIn
    <3>4. AuditsOf(a)' = AuditsOf(a) \cup {n}
      BY <1>6, <2>3
    <3> QED BY <2>1, <3>1, <3>2, <3>3, <3>4
  <2>4. CASE a \notin Touched(p)
    <3>1. AuditsOf(a)' = AuditsOf(a)
      BY <1>6, <2>4
    <3>2. accountsById'[a].balance = accountsById[a].balance
      <4>1. ledgerEntryNet(p, a) = 0
        <5>1. a # None
          BY LedgerAssumption DEF Ids
        <5> QED BY <2>4, <5>1 DEF Touched, ledgerEntryNet
      <4> QED BY <1>1, <1>2, <4>1
    <3>3. EndsIn(auditLogs', AuditsOf(a)', a, accountsById'[a].balance)
      <4>1. EndsIn(auditLogs', AuditsOf(a), a, accountsById[a].balance)
        BY <1>9, <2>2
      <4> QED BY <3>1, <3>2, <4>1
    <3> QED BY <2>1, <3>1, <3>3
  <2> QED BY <2>3, <2>4
<1> QED BY <1>10 DEF ChainInv

(* The ledger stays well formed.                                            *)
LEMMA RecordKeepsLedger ==
    ASSUME LedgerInv, now \in Nat, NEW type, NEW input, NEW p, NEW extra, NEW creditFirst \in BOOLEAN,
           Terms(type, input, p, extra), Record(type, input, p, extra, creditFirst)
    PROVE  LedgerInv'
<1> DEFINE id == Len(transactions) + 1
<1>1. accountsById' \in [Ids -> Account]
  BY MovedAccounts DEF LedgerInv, Terms, Record
<1>2. \A i \in DOMAIN transactions' : transactions'[i].posting.amount > 0
  <2>1. transactions'[id].posting.amount > 0
    BY RecordAppends DEF Terms
  <2> QED BY <2>1, RecordAppends DEF LedgerInv
<1>3. \A k \in DOMAIN transactionsByIdempotencyKey' : transactionsByIdempotencyKey'[k].result \in DOMAIN transactions'
  <2>1. transactionsByIdempotencyKey' =
            [k \in DOMAIN transactionsByIdempotencyKey \cup {input.key} |->
                IF k = input.key THEN [fingerprint |-> fingerprint(type, input), result |-> id]
                ELSE transactionsByIdempotencyKey[k]]
    BY DEF Record
  <2>2. id \in DOMAIN transactions' /\ DOMAIN transactions \subseteq DOMAIN transactions'
    BY RecordAppends
  <2> HIDE DEF id
  <2> QED BY <2>1, <2>2 DEF LedgerInv
<1>4. IsSeq(auditLogs') /\ Len(auditLogs') = Len(transactions')
  <2>1. IsSeq(auditLogs') /\ Len(auditLogs') = Len(auditLogs) + 1
    BY AppendingAnything DEF Record, LedgerInv
  <2>2. Len(transactions') = Len(transactions) + 1
    BY RecordAppends DEF LedgerInv
  <2> QED BY <2>1, <2>2 DEF LedgerInv
<1> QED BY <1>1, <1>2, <1>3, <1>4, RecordAppends, RecordChains DEF LedgerInv

(* Recording is entering the posting in the book.                           *)
LEMMA RecordPosts ==
    ASSUME LedgerInv, now \in Nat, NEW type, NEW input, NEW p, NEW extra, NEW creditFirst \in BOOLEAN,
           Terms(type, input, p, extra), Record(type, input, p, extra, creditFirst)
    PROVE  Book!Next
<1> DEFINE id == Len(transactions) + 1
           k == input.key
<1>1. DOMAIN accountsById = Ids /\ DOMAIN accountsById' = Ids
  BY RecordKeepsLedger DEF LedgerInv
<1>2. \A a \in Ids : /\ accountsById'[a].balance = accountsById[a].balance + ledgerEntryNet(p, a)
                     /\ accountsById[a].balance + ledgerEntryNet(p, a) >= 0
  BY MovedAccounts DEF LedgerInv, Terms, Record
<1>3. \A a : Book!NetOn(p, a) = ledgerEntryNet(p, a)
  BY DEF Book!NetOn, ledgerEntryNet
<1>4. k \notin DOMAIN PostedByKey
  BY DEF PostedByKey, Terms
<1>5. \A a \in Ids : Balances[a] + Book!NetOn(p, a) >= 0
  BY <1>1, <1>2, <1>3 DEF Balances
<1>6. Balances' = [a \in Ids |-> Balances[a] + Book!NetOn(p, a)]
  BY <1>1, <1>2, <1>3 DEF Balances
<1>7. PostedByKey' = [q \in DOMAIN PostedByKey \cup {k} |-> IF q = k THEN p ELSE PostedByKey[q]]
  <2>1. transactionsByIdempotencyKey' =
            [q \in DOMAIN transactionsByIdempotencyKey \cup {k} |->
                IF q = k THEN [fingerprint |-> fingerprint(type, input), result |-> id]
                ELSE transactionsByIdempotencyKey[q]]
    BY DEF Record
  <2>2. transactions'[id].posting = p
    BY RecordAppends
  <2>3. \A q \in DOMAIN transactionsByIdempotencyKey :
            transactions'[transactionsByIdempotencyKey[q].result].posting
                = transactions[transactionsByIdempotencyKey[q].result].posting
    BY RecordAppends DEF LedgerInv
  <2> HIDE DEF id, k
  <2>4. DOMAIN transactionsByIdempotencyKey' = DOMAIN transactionsByIdempotencyKey \cup {k}
    BY <2>1
  <2>5. \A q \in DOMAIN transactionsByIdempotencyKey' :
            transactions'[transactionsByIdempotencyKey'[q].result].posting
                = IF q = k THEN p ELSE transactions[transactionsByIdempotencyKey[q].result].posting
    BY <2>1, <2>2, <2>3
  <2> QED BY <2>4, <2>5 DEF PostedByKey
<1>8. k \in IdempotencyKeys /\ p \in Book!Posting
  BY DEF Terms, BookPosting, Book!Posting, Ids
<1>9. Book!Post(k, p)
  BY <1>4, <1>5, <1>6, <1>7 DEF Book!Post, Ids
<1> QED BY <1>8, <1>9 DEF Book!Next

(* A transaction that pays nothing leaves the payments as they were.        *)
LEMMA OtherPayments ==
    ASSUME LedgerInv, PaymentInv, now \in Nat, NEW type, NEW input, NEW p, NEW extra, NEW creditFirst \in BOOLEAN,
           type # "economy.pay_invoice", UNCHANGED invoices,
           Terms(type, input, p, extra), Record(type, input, p, extra, creditFirst)
    PROVE  PaymentInv'
<1>1. \A i : Payments(i)' = Payments(i)
  BY RecordAppends DEF Payments
<1>2. \A id \in DOMAIN transactions' :
            transactions'[id].type = "economy.pay_invoice" => transactions'[id].about \in DOMAIN invoices'
  BY RecordAppends DEF PaymentInv
<1>3. DOMAIN transactions \subseteq DOMAIN transactions'
      /\ \A id \in DOMAIN transactions : transactions'[id] = transactions[id]
  BY RecordAppends
<1> QED BY <1>1, <1>2, <1>3 DEF PaymentInv

-----------------------------------------------------------------------------
(* The methods meet the terms.                                              *)

LEMMA PerformTransferMeets ==
    ASSUME LedgerInv, NEW type \in TransactionTypes, NEW input, NEW from, NEW to, NEW extra \in Nat \cup {None},
           input.actor \in Actors, input.key \in IdempotencyKeys, input.amount \in Amounts,
           ~getIdempotentResult(input.key), performTransfer(type, input, from, to, extra)
    PROVE  /\ Terms(type, input, Posting(from, to, input.amount), extra)
           /\ Record(type, input, Posting(from, to, input.amount), extra, FALSE)
<1>1. {from, to} \subseteq Ids
  BY DEF performTransfer, AreAccounts, LedgerInv
<1>2. Posting(from, to, input.amount) \in BookPosting
  BY <1>1 DEF Posting, BookPosting
<1>3. /\ Posting(from, to, input.amount).debit = from
      /\ Posting(from, to, input.amount).amount = input.amount
  BY DEF Posting
<1> QED BY <1>2, <1>3 DEF performTransfer, Terms, getIdempotentResult

(* What one of the steps that record leaves of the invariant, and that it   *)
(* is a step of the book.                                                   *)
LEMMA RecordStep ==
    ASSUME IInv, NEW type, NEW input, NEW p, NEW extra, NEW creditFirst \in BOOLEAN, type # "economy.pay_invoice",
           Terms(type, input, p, extra), Record(type, input, p, extra, creditFirst),
           UNCHANGED <<invoiceVars, now>>,
           voidedTransactionIds' \subseteq DOMAIN transactions
    PROVE  IInv' /\ Book!Next
<1>1. LedgerInv' /\ Book!Next
  BY RecordKeepsLedger, RecordPosts DEF IInv
<1>2. InvoiceInv'
  BY DEF IInv, InvoiceInv, invoiceVars
<1>3. PaymentInv'
  BY OtherPayments DEF IInv, invoiceVars
<1>4. DOMAIN transactions \subseteq DOMAIN transactions'
  BY RecordAppends DEF IInv
<1> QED BY <1>1, <1>2, <1>3, <1>4 DEF IInv

LEMMA TransferRecords ==
    ASSUME IInv, NEW type \in TransferTypes, NEW input \in TransferInput, NEW from, NEW to,
           Transfer(type, input, from, to)
    PROVE  IInv' /\ Book!Next /\ Recorded
<1>1. type \in TransactionTypes /\ type # "economy.pay_invoice"
  BY DEF TransactionTypes, TransferTypes
<1>2. input.actor \in Actors /\ input.key \in IdempotencyKeys /\ input.amount \in Amounts
  BY DEF TransferInput
<1>3. /\ Terms(type, input, Posting(from, to, input.amount), None)
      /\ Record(type, input, Posting(from, to, input.amount), None, FALSE)
  BY <1>1, <1>2, PerformTransferMeets DEF Transfer, IInv
<1>4. UNCHANGED <<invoiceVars, now>> /\ voidedTransactionIds' \subseteq DOMAIN transactions
  BY DEF Transfer, worldVars, IInv
<1>5. UNCHANGED <<voidedTransactionIds, now, balancesAt>> /\ type # "economy.void_transaction"
  BY DEF Transfer, worldVars, TransferTypes
<1>6. Recorded
  BY <1>3, <1>5 DEF Recorded, Voiding
<1> QED BY <1>1, <1>3, <1>4, <1>6, RecordStep

LEMMA AdjustRecords ==
    ASSUME IInv, NEW input \in AdjustInput, adminAdjustBalance(input)
    PROVE  IInv' /\ Book!Next /\ Recorded
<1> DEFINE a == input.account
           type == "economy.admin.adjust_balance"
           p == IF input.direction = "debit" THEN Posting(a, None, input.amount)
                ELSE Posting(None, a, input.amount)
<1>1. /\ input.actor \in Actors /\ input.key \in IdempotencyKeys /\ input.amount \in Amounts
      /\ input.direction \in {"debit", "credit"}
  BY DEF AdjustInput
<1>2. a \in Ids
  BY DEF adminAdjustBalance, AreAccounts, IInv, LedgerInv
<1>3. p \in BookPosting /\ p.amount = input.amount
  BY <1>1, <1>2 DEF Posting, BookPosting
<1>4. p.debit # None => p.debit = a /\ input.direction = "debit"
  BY DEF Posting
<1>5. type \in TransactionTypes /\ type # "economy.pay_invoice"
  BY DEF TransactionTypes, OtherTypes
<1>6. Record(type, input, p, None, FALSE)
  BY DEF adminAdjustBalance
<1>7. Terms(type, input, p, None)
  <2>1. input.amount > 0 /\ (input.direction = "debit" => accountsById[a].balance >= input.amount)
    BY DEF adminAdjustBalance
  <2>2. input.key \notin DOMAIN transactionsByIdempotencyKey
    BY DEF adminAdjustBalance, getIdempotentResult
  <2> HIDE DEF p, type
  <2> QED BY <1>1, <1>3, <1>4, <1>5, <2>1, <2>2 DEF Terms
<1>8. UNCHANGED <<invoiceVars, now>> /\ voidedTransactionIds' \subseteq DOMAIN transactions
  BY DEF adminAdjustBalance, worldVars, IInv
<1>9. UNCHANGED <<voidedTransactionIds, now, balancesAt>> /\ type # "economy.void_transaction"
  BY DEF adminAdjustBalance, worldVars
<1> HIDE DEF p, type
<1>10. Recorded
  BY <1>6, <1>7, <1>9 DEF Recorded, Voiding
<1> QED BY <1>5, <1>6, <1>7, <1>8, <1>10, RecordStep

LEMMA VoidRecords ==
    ASSUME IInv, NEW input \in VoidInput, voidTransaction(input)
    PROVE  IInv' /\ Book!Next /\ Recorded
<1> DEFINE q == transactions[input.transaction].posting
           p == Reversed(q)
           type == "economy.void_transaction"
<1>1. /\ input.actor \in Actors /\ input.key \in IdempotencyKeys
      /\ input.transaction \in DOMAIN transactions
  BY DEF VoidInput
<1>2. transactions \in Seq(Transaction)
  BY DEF IInv, LedgerInv
<1>3. input.transaction \in Nat /\ transactions[input.transaction] \in Transaction
  BY <1>1, <1>2
<1>4. q \in BookPosting /\ q.amount > 0
  BY <1>1, <1>3 DEF Transaction, IInv, LedgerInv
<1>5. p \in BookPosting /\ p.amount > 0
  <2> HIDE DEF q
  <2> QED BY <1>4 DEF Reversed, Posting, BookPosting
<1>6. /\ p.debit # None => accountsById[p.debit].balance >= p.amount
      /\ Record(type, input, p, input.transaction, ~transactions[input.transaction].creditFirst)
      /\ input.key \notin DOMAIN transactionsByIdempotencyKey
  BY DEF voidTransaction, getIdempotentResult
<1>7. type \in TransactionTypes /\ type # "economy.pay_invoice"
  BY DEF TransactionTypes, OtherTypes
<1>8. UNCHANGED <<invoiceVars, now>> /\ voidedTransactionIds' \subseteq DOMAIN transactions
  BY <1>1 DEF voidTransaction, worldVars, IInv
<1>10. UNCHANGED <<now, balancesAt>> /\ Voiding(type, p, input.transaction)
  BY DEF voidTransaction, worldVars, Voiding
<1> HIDE DEF p, type
<1>9. Terms(type, input, p, input.transaction)
  BY <1>1, <1>3, <1>5, <1>6, <1>7 DEF Terms
<1>11. Recorded
  BY <1>6, <1>9, <1>10 DEF Recorded
<1> QED BY <1>6, <1>7, <1>8, <1>9, <1>11, RecordStep

LEMMA ChainUnchanged ==
    ASSUME ChainInv, UNCHANGED <<accountsById, auditLogs, transactions>>
    PROVE  ChainInv'
BY DEF ChainInv, AuditsOf, Before, EndsIn, GoesOnFrom, Overwritten

(* An issued invoice has no payment yet.                                    *)
LEMMA IssueKeeps ==
    ASSUME IInv, NEW input \in InvoiceInput, issueInvoice(input)
    PROVE  IInv' /\ UNCHANGED <<Balances, PostedByKey>> /\ Quiet
<1> DEFINE invoice == [issuer |-> input.issuer, payer |-> input.payer, amount |-> input.amount,
                       currency |-> input.currency, status |-> "issued", issuedBy |-> input.actor]
<1>0. PICK n : n = Len(invoices) + 1
  OBVIOUS
<1>1. UNCHANGED <<ledgerVars, worldVars>> /\ invoices' = Append(invoices, invoice)
  BY DEF issueInvoice
<1>2. invoice \in Invoice /\ invoice.amount > 0 /\ invoice.status = "issued"
  BY DEF issueInvoice, InvoiceInput, AreAccounts, Invoice, IInv, LedgerInv
<1>3. invoices \in Seq(Invoice) /\ Len(invoices) \in Nat
  BY DEF IInv, InvoiceInv
<1> HIDE DEF invoice
<1>4. /\ invoices' \in Seq(Invoice)
      /\ DOMAIN invoices = 1 .. Len(invoices) /\ DOMAIN invoices' = 1 .. n
      /\ invoices'[n] = invoice
      /\ \A i \in DOMAIN invoices : invoices'[i] = invoices[i]
  BY <1>0, <1>1, <1>2, <1>3, Appending
<1>5. n \notin DOMAIN invoices /\ DOMAIN invoices' = DOMAIN invoices \cup {n}
  BY <1>0, <1>3, <1>4
<1>6. \A i : Payments(i)' = Payments(i)
  BY <1>1 DEF Payments, ledgerVars
<1>7. Payments(n) = {}
  BY <1>5 DEF Payments, IInv, PaymentInv
<1>8. InvoiceInv'
  BY <1>2, <1>4, <1>5 DEF IInv, InvoiceInv
<1>9. PaymentInv'
  <2>1. transactions' = transactions
    BY <1>1 DEF ledgerVars
  <2>2. invoices'[n].status = "issued" /\ Payments(n)' = {}
    BY <1>2, <1>4, <1>6, <1>7
  <2>3. \A id \in DOMAIN transactions' :
            transactions'[id].type = "economy.pay_invoice" => transactions'[id].about \in DOMAIN invoices'
    BY <2>1, <1>5 DEF IInv, PaymentInv
  <2>4. ASSUME NEW i \in DOMAIN invoices'
        PROVE  /\ invoices'[i].status = "issued" => Payments(i)' = {}
               /\ invoices'[i].status # "issued" =>
                    \E id \in DOMAIN transactions' :
                        /\ Payments(i)' = {id}
                        /\ transactions'[id].posting =
                                Posting(invoices'[i].payer, invoices'[i].issuer, invoices'[i].amount)
    <3>1. CASE i = n
      BY <3>1, <2>2
    <3>2. CASE i \in DOMAIN invoices
      BY <3>2, <1>4, <1>6, <2>1 DEF IInv, PaymentInv
    <3> QED BY <3>1, <3>2, <1>5
  <2> QED BY <2>3, <2>4 DEF PaymentInv
<1>10. LedgerInv'
  BY <1>1, ChainUnchanged DEF IInv, LedgerInv, ledgerVars
<1> QED BY <1>1, <1>8, <1>9, <1>10 DEF IInv, ledgerVars, worldVars, Balances, PostedByKey, Quiet

(* A payment is the invoice's first, since it was issued until now.         *)
LEMMA PayRecords ==
    ASSUME IInv, NEW input \in PayInput, payInvoice(input)
    PROVE  IInv' /\ Book!Next /\ Recorded
<1> DEFINE n == input.invoice
           invoice == invoices[n]
           call == [actor |-> input.actor, key |-> input.key, invoice |-> input.invoice,
                    amount |-> invoice.amount, currency |-> invoice.currency]
           p == Posting(invoice.payer, invoice.issuer, invoice.amount)
           type == "economy.pay_invoice"
           id == Len(transactions) + 1
<1>1. input.actor \in Actors /\ input.key \in IdempotencyKeys /\ n \in DOMAIN invoices
  BY DEF PayInput
<1>2. invoices \in Seq(Invoice)
  BY DEF IInv, InvoiceInv
<1>3. invoice \in Invoice /\ n \in Nat
  BY <1>1, <1>2
<1>4. /\ call.actor = input.actor /\ call.key = input.key /\ call.amount = invoice.amount
  OBVIOUS
<1>5. /\ ~getIdempotentResult(call.key)
      /\ performTransfer(type, call, invoice.payer, invoice.issuer, n)
      /\ invoice.status = "issued"
      /\ invoices' = [invoices EXCEPT ![n].status = "paid"]
      /\ UNCHANGED <<voidedTransactionIds, worldVars>>
  BY DEF payInvoice
<1>6. type \in TransactionTypes
  BY DEF TransactionTypes, OtherTypes
<1>7. invoice.amount \in Amounts
  BY <1>3 DEF Invoice
<1> HIDE DEF call, invoice, type
<1>8. Terms(type, call, p, n) /\ Record(type, call, p, n, FALSE)
  <2>1. LedgerInv
    BY DEF IInv
  <2> QED BY <2>1, <1>1, <1>3, <1>4, <1>5, <1>6, <1>7, PerformTransferMeets
<1>9. LedgerInv' /\ Book!Next
  BY <1>8, RecordKeepsLedger, RecordPosts DEF IInv
<1>14. Recorded
  <2>1. UNCHANGED <<voidedTransactionIds, now, balancesAt>> /\ type # "economy.void_transaction"
    BY <1>5 DEF worldVars, type
  <2> QED BY <1>8, <2>1 DEF Recorded, Voiding
<1>10. /\ invoices' \in Seq(Invoice) /\ DOMAIN invoices' = DOMAIN invoices
       /\ invoices'[n].status = "paid"
       /\ \A i \in DOMAIN invoices : /\ invoices'[i].payer = invoices[i].payer
                                     /\ invoices'[i].issuer = invoices[i].issuer
                                     /\ invoices'[i].amount = invoices[i].amount
       /\ \A i \in DOMAIN invoices \ {n} : invoices'[i] = invoices[i]
  <2>1. [invoices[n] EXCEPT !.status = "paid"] \in Invoice
    BY <1>3 DEF invoice, Invoice
  <2>2. invoices' = [i \in DOMAIN invoices |->
                        IF i = n THEN [invoices[n] EXCEPT !.status = "paid"] ELSE invoices[i]]
    BY <1>5
  <2>3. /\ [invoices[n] EXCEPT !.status = "paid"].status = "paid"
        /\ [invoices[n] EXCEPT !.status = "paid"].payer = invoices[n].payer
        /\ [invoices[n] EXCEPT !.status = "paid"].issuer = invoices[n].issuer
        /\ [invoices[n] EXCEPT !.status = "paid"].amount = invoices[n].amount
    BY <1>3 DEF invoice, Invoice
  <2>4. invoices' \in Seq(Invoice)
    BY <1>1, <1>2, <2>1, <2>2
  <2> QED BY <1>1, <2>2, <2>3, <2>4
<1>11. /\ DOMAIN transactions' = DOMAIN transactions \cup {id} /\ id \notin DOMAIN transactions
       /\ transactions'[id].type = type /\ transactions'[id].posting = p /\ transactions'[id].about = n
       /\ \A i \in DOMAIN transactions : transactions'[i] = transactions[i]
  <2>1. LedgerInv /\ now \in Nat
    BY DEF IInv
  <2> HIDE DEF p
  <2> QED BY <2>1, <1>8, RecordAppends
<1> HIDE DEF id, n, p
<1>12. InvoiceInv'
  BY <1>10 DEF IInv, InvoiceInv
<1>13. PaymentInv'
  <2>1. \A i : Payments(i)' = IF i = n THEN Payments(i) \cup {id} ELSE Payments(i)
    BY <1>11 DEF Payments, type
  <2>2. Payments(n) = {}
    BY <1>1, <1>5 DEF IInv, PaymentInv, invoice
  <2>3. \A i \in DOMAIN transactions' :
            transactions'[i].type = "economy.pay_invoice" => transactions'[i].about \in DOMAIN invoices'
    BY <1>1, <1>10, <1>11 DEF IInv, PaymentInv
  <2>4. ASSUME NEW i \in DOMAIN invoices'
        PROVE  /\ invoices'[i].status = "issued" => Payments(i)' = {}
               /\ invoices'[i].status # "issued" =>
                    \E t \in DOMAIN transactions' :
                        /\ Payments(i)' = {t}
                        /\ transactions'[t].posting =
                                Posting(invoices'[i].payer, invoices'[i].issuer, invoices'[i].amount)
    <3>1. CASE i = n
      <4>1. Payments(i)' = {id} /\ invoices'[i].status # "issued"
        BY <3>1, <2>1, <2>2, <1>10
      <4>2. transactions'[id].posting = Posting(invoices'[i].payer, invoices'[i].issuer, invoices'[i].amount)
        BY <3>1, <1>1, <1>10, <1>11 DEF p, invoice
      <4> QED BY <4>1, <4>2, <1>11
    <3>2. CASE i # n
      BY <3>2, <2>1, <1>10, <1>11 DEF IInv, PaymentInv
    <3> QED BY <3>1, <3>2
  <2> QED BY <2>3, <2>4 DEF PaymentInv
<1> QED BY <1>5, <1>9, <1>11, <1>12, <1>13, <1>14 DEF IInv, worldVars

(* The surroundings move no money.                                          *)
LEMMA SurroundingsKeep ==
    ASSUME IInv, Tick \/ Deploy \/ ChangeDuty \/ UNCHANGED vars
    PROVE  IInv' /\ UNCHANGED <<Balances, PostedByKey>> /\ Quiet
<1>1. UNCHANGED <<ledgerVars, invoiceVars>> /\ now' \in Nat
  BY DEF Tick, Deploy, ChangeDuty, vars, worldVars, IInv
<1>2. \A i : Payments(i)' = Payments(i)
  BY <1>1 DEF Payments, ledgerVars
<1>3. PaymentInv'
  BY <1>1, <1>2 DEF IInv, PaymentInv, ledgerVars, invoiceVars
<1>4. LedgerInv'
  BY <1>1, ChainUnchanged DEF IInv, LedgerInv, ledgerVars
<1>5. Quiet
  BY <1>1 DEF Quiet, Deploy, ChangeDuty, vars, worldVars
<1> QED BY <1>1, <1>3, <1>4, <1>5 DEF IInv, InvoiceInv, ledgerVars, invoiceVars, Balances, PostedByKey

-----------------------------------------------------------------------------
LEMMA TransfersKeep ==
    ASSUME IInv, NEW input \in TransferInput,
           \/ transferMoney(input)  \/ depositCash(input) \/ withdrawCash(input)
           \/ paySalary(input)      \/ finePlayer(input)  \/ chargeTax(input)
           \/ businessPayout(input) \/ buyItem(input)     \/ sellItem(input)
    PROVE  IInv' /\ Book!Next /\ Recorded
BY TransferRecords
   DEF transferMoney, depositCash, withdrawCash, paySalary, finePlayer, chargeTax, businessPayout,
       buyItem, sellItem, TransferTypes

LEMMA StepKeeps ==
    ASSUME IInv, [Next]_vars
    PROVE  IInv' /\ ((Book!Next /\ Recorded) \/ (UNCHANGED <<Balances, PostedByKey>> /\ Quiet))
<1>1. CASE TransferStep
  BY <1>1, TransfersKeep DEF TransferStep
<1>2. CASE OtherStep
  BY <1>2, AdjustRecords, VoidRecords, IssueKeeps, PayRecords DEF OtherStep
<1>3. CASE PluginStep
  BY <1>3, TransfersKeep, IssueKeeps, PayRecords
     DEF PluginStep, AsPlugin, pluginBuyItem, pluginSellItem, pluginPaySalary, pluginFinePlayer,
         pluginChargeTax, pluginBusinessPayout, pluginIssueInvoice, pluginPayInvoice
<1>4. CASE Tick \/ Deploy \/ ChangeDuty \/ UNCHANGED vars
  BY <1>4, SurroundingsKeep
<1> QED BY <1>1, <1>2, <1>3, <1>4 DEF Next

(* The transaction a plugin makes under a capability that was checked for   *)
(* its type, actor, amount and accounts.                                    *)
LEMMA CheckedMove ==
    ASSUME LedgerInv, now \in Nat, NEW type, NEW input, NEW p, NEW extra, NEW creditFirst \in BOOLEAN,
           Terms(type, input, p, extra), Record(type, input, p, extra, creditFirst), FromPlugin,
           NEW amount, NEW accounts, assertCapability(input.actor, type, amount, accounts),
           type # "economy.pay_invoice" => amount = p.amount /\ Touched(p) \subseteq accounts
    PROVE  WithinCapability
<1> SUFFICES ASSUME NEW id \in madeByPlugin' \ madeByPlugin
             PROVE  LET t == transactions'[id] IN
                    /\ t.type \in DOMAIN capabilities
                    /\ capabilities[t.type].requiresOnDuty => t.actorId \in onDuty
                    /\ t.type # "economy.pay_invoice" =>
                        /\ AtMost(t.posting.amount, capabilities[t.type].maxAmount)
                        /\ capabilities[t.type].allowedAccountOwnerTypes # None =>
                            \A a \in Touched(t.posting) :
                                accountsById[a].ownerType \in capabilities[t.type].allowedAccountOwnerTypes
  BY DEF WithinCapability
<1>1. id = Len(transactions) + 1
  BY DEF FromPlugin
<1>2. transactions'[id].type = type /\ transactions'[id].actorId = input.actor /\ transactions'[id].posting = p
  BY <1>1, RecordAppends
<1>3. type \in DOMAIN capabilities /\ (capabilities[type].requiresOnDuty => input.actor \in onDuty)
  BY DEF assertCapability
<1>4. ASSUME type # "economy.pay_invoice"
      PROVE  /\ AtMost(p.amount, capabilities[type].maxAmount)
             /\ capabilities[type].allowedAccountOwnerTypes # None =>
                    \A a \in Touched(p) : accountsById[a].ownerType \in capabilities[type].allowedAccountOwnerTypes
  <2>1. amount # None
    BY <1>4, LedgerAssumption DEF Terms, BookPosting
  <2> QED BY <1>4, <2>1 DEF assertCapability
<1> QED BY <1>2, <1>3, <1>4

LEMMA PluginTransfer ==
    ASSUME IInv, NEW type \in TransferTypes, NEW input \in TransferInput, NEW from, NEW to,
           {from, to} = {input.from, input.to},
           AsPlugin(input, type, Transfer(type, input, from, to))
    PROVE  WithinCapability
<1> DEFINE p == Posting(from, to, input.amount)
<1>1. type \in TransactionTypes
  BY DEF TransactionTypes
<1>2. input.actor \in Actors /\ input.key \in IdempotencyKeys /\ input.amount \in Amounts
  BY DEF TransferInput
<1>3. Terms(type, input, p, None) /\ Record(type, input, p, None, FALSE)
  BY <1>1, <1>2, PerformTransferMeets DEF AsPlugin, Transfer, IInv
<1>4. input.amount = p.amount /\ Touched(p) \subseteq {input.from, input.to}
  BY DEF Posting, Touched
<1>5. FromPlugin /\ assertCapability(input.actor, type, input.amount, {input.from, input.to})
  BY DEF AsPlugin
<1> HIDE DEF p
<1> QED BY <1>3, <1>4, <1>5, CheckedMove DEF IInv

LEMMA PluginPayment ==
    ASSUME IInv, NEW input \in PayInput, pluginPayInvoice(input)
    PROVE  WithinCapability
<1> DEFINE invoice == invoices[input.invoice]
           call == [actor |-> input.actor, key |-> input.key, invoice |-> input.invoice,
                    amount |-> invoice.amount, currency |-> invoice.currency]
           p == Posting(invoice.payer, invoice.issuer, invoice.amount)
           type == "economy.pay_invoice"
<1>1. input.actor \in Actors /\ input.key \in IdempotencyKeys /\ input.invoice \in DOMAIN invoices
  BY DEF PayInput
<1>2. invoices \in Seq(Invoice)
  BY DEF IInv, InvoiceInv
<1>3. invoice.amount \in Amounts /\ input.invoice \in Nat
  <2>1. invoice \in Invoice /\ input.invoice \in Nat
    BY <1>1, <1>2
  <2> QED BY <2>1 DEF Invoice
<1>4. /\ call.actor = input.actor /\ call.key = input.key /\ call.amount = invoice.amount
  OBVIOUS
<1>5. /\ ~getIdempotentResult(call.key)
      /\ performTransfer(type, call, invoice.payer, invoice.issuer, input.invoice)
      /\ assertCapability(call.actor, type, None, {}) /\ FromPlugin
  BY DEF pluginPayInvoice, payInvoice
<1>6. type \in TransactionTypes
  BY DEF TransactionTypes, OtherTypes
<1> HIDE DEF call, invoice
<1>7. Terms(type, call, p, input.invoice) /\ Record(type, call, p, input.invoice, FALSE)
  <2>1. LedgerInv
    BY DEF IInv
  <2> HIDE DEF type
  <2> QED BY <2>1, <1>1, <1>3, <1>4, <1>5, <1>6, PerformTransferMeets
<1> HIDE DEF p
<1>8. LedgerInv /\ now \in Nat
  BY DEF IInv
<1> QED BY <1>5, <1>7, <1>8, CheckedMove

LEMMA InitHolds == Init => IInv /\ Book!Init
<1> SUFFICES ASSUME Init PROVE IInv /\ Book!Init
  OBVIOUS
<1>1. /\ transactions = <<>> /\ invoices = <<>> /\ auditLogs = <<>>
      /\ voidedTransactionIds = {} /\ now = 0
      /\ transactionsByIdempotencyKey = [k \in {} |-> None] /\ accountsById = OpeningAccounts
  BY DEF Init
<1>2. DOMAIN transactions = {} /\ DOMAIN invoices = {} /\ DOMAIN transactionsByIdempotencyKey = {}
  BY <1>1
<1>3. LedgerInv
  <2>1. accountsById \in [Ids -> Account]
    BY <1>1, LedgerAssumption DEF Ids
  <2>2. IsSeq(auditLogs) /\ Len(auditLogs) = Len(transactions) /\ transactions \in Seq(Transaction)
    BY <1>1 DEF IsSeq
  <2>3. ChainInv
    <3>1. \A a : AuditsOf(a) = {}
      BY <1>1 DEF AuditsOf
    <3> QED BY <1>1, <3>1 DEF ChainInv, EndsIn
  <2> QED BY <1>2, <2>1, <2>2, <2>3 DEF LedgerInv
<1>4. InvoiceInv /\ PaymentInv
  BY <1>1, <1>2 DEF InvoiceInv, PaymentInv
<1>5. Balances = [a \in DOMAIN OpeningAccounts |-> OpeningAccounts[a].balance]
  BY <1>1 DEF Balances
<1>6. PostedByKey = [k \in {} |-> None]
  BY <1>2 DEF PostedByKey
<1> QED BY <1>1, <1>3, <1>4, <1>5, <1>6 DEF IInv, Book!Init

LEMMA Invariance == Spec => []IInv
<1>1. IInv /\ [Next]_vars => IInv'
  BY StepKeeps
<1> QED BY InitHolds, <1>1, PTL DEF Spec

(* The tables of the service are well formed: every stored result is a      *)
(* transaction and every transaction has its audit entry (economy.ts).      *)
THEOREM LedgerTypeCorrect == Spec => []LedgerTypeOK
<1>1. IInv => LedgerTypeOK
  BY DEF IInv, LedgerInv, LedgerTypeOK, Ids
<1> QED BY <1>1, Invariance, PTL

(* The audit trail of an account is a chain from its opening balance to its *)
(* balance: no method moves money without an audit entry that ends with it.  *)
(* Only the void of a transaction between an account and itself shows       *)
(* another balance as that before (voidTransaction, economy.ts).            *)
THEOREM AuditsChain == Spec => []AuditChains
<1>1. ASSUME IInv PROVE AuditChains
  <2>1. DOMAIN accountsById = Ids
    BY <1>1 DEF IInv, LedgerInv
  <2>2. PICK len \in Nat : DOMAIN auditLogs = 1 .. len
    BY <1>1, AuditAppended DEF IInv, LedgerInv
  <2> SUFFICES ASSUME NEW a \in Ids
               PROVE  LET last(S) == CHOOSE j \in S : \A k \in S : k <= j
                          endOf(S) == IF S = {} THEN OpeningAccounts[a].balance
                                      ELSE auditLogs[last(S)].after[a] IN
                      /\ \A i \in AuditsOf(a) :
                            IF Overwritten(i)
                            THEN /\ auditLogs[i].after[a] = endOf(Before(a, i))
                                 /\ auditLogs[i].before[a] # auditLogs[i].after[a]
                            ELSE auditLogs[i].before[a] = endOf(Before(a, i))
                      /\ accountsById[a].balance = endOf(AuditsOf(a))
    BY <2>1 DEF AuditChains, Before, Overwritten
  <2> DEFINE last(S) == CHOOSE j \in S : \A k \in S : k <= j
             endOf(S) == IF S = {} THEN OpeningAccounts[a].balance ELSE auditLogs[last(S)].after[a]
  <2>3. ASSUME NEW S \in SUBSET AuditsOf(a), NEW v, EndsIn(auditLogs, S, a, v)
        PROVE  v = endOf(S)
    <3>1. S \subseteq Nat
      BY <2>2 DEF AuditsOf
    <3>2. CASE S = {}
      BY <2>3, <3>2 DEF EndsIn
    <3>3. CASE S # {}
      <4>1. PICK m \in S : (\A k \in S : k <= m) /\ v = auditLogs[m].after[a]
        BY <2>3, <3>3 DEF EndsIn
      <4>2. \A j \in S : (\A k \in S : k <= j) => j = m
        BY <3>1, <4>1
      <4>3. last(S) = m
        BY <4>1, <4>2
      <4> HIDE DEF last
      <4> QED BY <3>3, <4>1, <4>3
    <3> QED BY <3>2, <3>3
  <2>4. /\ \A i \in AuditsOf(a) :
             /\ EndsIn(auditLogs, Before(a, i), a, GoesOnFrom(i, a))
             /\ Overwritten(i) => auditLogs[i].before[a] # auditLogs[i].after[a]
        /\ EndsIn(auditLogs, AuditsOf(a), a, accountsById[a].balance)
    BY <1>1 DEF IInv, LedgerInv, ChainInv
  <2>5. \A i \in AuditsOf(a) : Before(a, i) \subseteq AuditsOf(a)
    BY DEF Before
  <2> HIDE DEF endOf
  <2>6. /\ \A i \in AuditsOf(a) : GoesOnFrom(i, a) = endOf(Before(a, i))
        /\ accountsById[a].balance = endOf(AuditsOf(a))
    BY <2>3, <2>4, <2>5
  <2> QED BY <2>4, <2>6 DEF endOf, GoesOnFrom
<1> QED BY <1>1, Invariance, PTL

(* An invoice is paid exactly when one transaction paid it, between its     *)
(* parties and for its amount, with any number of keys, payers and retries  *)
(* (payInvoice).                                                            *)
THEOREM InvoicesArePaidOnce == Spec => []InvoicesPaidOnce
<1>1. ASSUME IInv PROVE InvoicesPaidOnce
  <2> SUFFICES ASSUME NEW i \in DOMAIN invoices
               PROVE  IF invoices[i].status = "issued" THEN Payments(i) = {}
                      ELSE /\ Cardinality(Payments(i)) = 1
                           /\ \A id \in Payments(i) : transactions[id].posting =
                                Posting(invoices[i].payer, invoices[i].issuer, invoices[i].amount)
    BY DEF InvoicesPaidOnce, Payments
  <2>1. CASE invoices[i].status = "issued"
    BY <1>1, <2>1 DEF IInv, PaymentInv
  <2>2. CASE invoices[i].status # "issued"
    <3>1. PICK id \in DOMAIN transactions :
            /\ Payments(i) = {id}
            /\ transactions[id].posting = Posting(invoices[i].payer, invoices[i].issuer, invoices[i].amount)
      BY <1>1, <2>2 DEF IInv, PaymentInv
    <3>2. Cardinality(Payments(i)) = 1
      BY <3>1, FS_Singleton
    <3> QED BY <2>2, <3>1, <3>2
  <2> QED BY <2>1, <2>2
<1> QED BY <1>1, Invariance, PTL

(* The ledger implements AccountBook: whatever the methods, each key enters *)
(* one posting, and no balance moves otherwise or falls below zero          *)
(* (economy.ts, every posting method).                                      *)
THEOREM LedgerImplementsBook == Spec => BookSpec
<1>1. Init => Book!Init
  BY InitHolds
<1>2. IInv /\ [Next]_vars => [Book!Next]_Book!bookVars
  BY StepKeeps DEF Book!bookVars
<1> QED BY <1>1, <1>2, Invariance, PTL DEF Spec, BookSpec, Book!Spec

(* What a plugin moves itself is within the amount and between the owners   *)
(* its capability names at that moment, and by an actor on duty where it    *)
(* asks for one (PluginEconomyApi.assertCapability).                        *)
THEOREM PluginsKeepToCapability == Spec => PluginsStayWithinCapability
<1>1. ASSUME IInv, [Next]_vars PROVE [WithinCapability]_vars
  <2>1. CASE UNCHANGED madeByPlugin
    BY <2>1 DEF WithinCapability
  <2>2. CASE PluginStep
    <3>1. CASE \E input \in TransferInput :
                  \/ pluginBuyItem(input)    \/ pluginSellItem(input)  \/ pluginPaySalary(input)
                  \/ pluginFinePlayer(input) \/ pluginChargeTax(input) \/ pluginBusinessPayout(input)
      <4>1. PICK input \in TransferInput :
                  \/ pluginBuyItem(input)    \/ pluginSellItem(input)  \/ pluginPaySalary(input)
                  \/ pluginFinePlayer(input) \/ pluginChargeTax(input) \/ pluginBusinessPayout(input)
        BY <3>1
      <4>2. PICK type \in TransferTypes :
                  \E from, to : /\ {from, to} = {input.from, input.to}
                                /\ AsPlugin(input, type, Transfer(type, input, from, to))
        <5>1. {input.from, input.to} = {input.to, input.from}
          OBVIOUS
        <5> QED BY <1>1, <4>1, <5>1
                DEF pluginBuyItem, pluginSellItem, pluginPaySalary, pluginFinePlayer, pluginChargeTax,
                    pluginBusinessPayout, buyItem, sellItem, paySalary, finePlayer, chargeTax,
                    businessPayout, TransferTypes
      <4> QED BY <1>1, <4>2, PluginTransfer
    <3>2. CASE \E input \in InvoiceInput : pluginIssueInvoice(input)
      BY <3>2, <2>1 DEF pluginIssueInvoice
    <3>3. CASE \E input \in PayInput : pluginPayInvoice(input)
      BY <1>1, <3>3, PluginPayment
    <3> QED BY <2>2, <3>1, <3>2, <3>3 DEF PluginStep
  <2>3. CASE TransferStep \/ OtherStep \/ Tick \/ Deploy \/ ChangeDuty
    BY <2>1, <2>3 DEF TransferStep, OtherStep, Tick, Deploy, ChangeDuty
  <2> QED BY <1>1, <2>1, <2>2, <2>3 DEF Next, vars
<1> QED BY <1>1, Invariance, PTL DEF Spec, PluginsStayWithinCapability

-----------------------------------------------------------------------------
(***************************************************************************)
(* The history the records tell.  SumsInv says that every balance, now and *)
(* at the end of each past tick, is the opening one with the entries until *)
(* then; AuditInv that each audit entry shows what its transaction moved;  *)
(* VoidInv that a voided transaction has one void, which reverses it.      *)
(***************************************************************************)
Opening(a) == OpeningAccounts[a].balance
Upto(t) == {id \in DOMAIN transactions : transactions[id].createdAt < t}

SumsInv ==
    /\ \A id \in DOMAIN transactions : transactions[id].createdAt <= now
    /\ \A a \in Ids : accountsById[a].balance = Opening(a) + NetOver(DOMAIN transactions, a)
    /\ IsSeq(balancesAt) /\ Len(balancesAt) = now
    /\ \A t \in DOMAIN balancesAt : \A a \in Ids : balancesAt[t][a] = Opening(a) + NetOver(Upto(t), a)

AuditInv ==
    \A i \in DOMAIN transactions :
        LET p == transactions[i].posting IN
        /\ DOMAIN auditLogs[i].before = Touched(p)
        /\ \A a \in Touched(p) :
             /\ auditLogs[i].before[a] \in Int /\ auditLogs[i].after[a] \in Int
             /\ IF Overwritten(i)
                THEN auditLogs[i].after[a] - auditLogs[i].before[a] \in {p.amount, -p.amount}
                ELSE auditLogs[i].after[a] = auditLogs[i].before[a] + ledgerEntryNet(p, a)

Voids == {v \in DOMAIN transactions : transactions[v].type = "economy.void_transaction"}

VoidInv ==
    /\ \A v \in Voids :
         /\ transactions[v].about \in voidedTransactionIds
         /\ transactions[v].about \in DOMAIN transactions /\ transactions[v].about < v
         /\ transactions[v].posting = Reversed(transactions[transactions[v].about].posting)
    /\ \A v, w \in Voids : transactions[v].about = transactions[w].about => v = w
    /\ \A id \in voidedTransactionIds : \E v \in Voids : transactions[v].about = id

HistoryInv == SumsInv /\ AuditInv /\ VoidInv

(* The transactions are finitely many, and each moves a whole number.       *)
LEMMA Moves ==
    ASSUME LedgerInv
    PROVE  /\ IsFiniteSet(DOMAIN transactions) /\ DOMAIN transactions \subseteq Nat
           /\ \A id \in DOMAIN transactions : transactions[id] \in Transaction
           /\ \A a : \A id \in DOMAIN transactions : Net(a)[id] \in Int
           /\ \A a : \A S \in SUBSET DOMAIN transactions : IsFiniteSet(S) /\ NetOver(S, a) \in Int
<1>1. transactions \in Seq(Transaction)
  BY DEF LedgerInv
<1>2. DOMAIN transactions = 1..Len(transactions) /\ Len(transactions) \in Nat
      /\ \A id \in DOMAIN transactions : transactions[id] \in Transaction
  BY <1>1
<1>3. IsFiniteSet(DOMAIN transactions)
  BY <1>2, FS_Interval
<1>4. ASSUME NEW a, NEW id \in DOMAIN transactions PROVE Net(a)[id] \in Int
  <2>1. transactions[id].posting \in BookPosting
    BY <1>2 DEF Transaction
  <2>2. transactions[id].posting.amount \in Int
    BY <2>1, LedgerAssumption DEF BookPosting
  <2>3. Net(a)[id] = ledgerEntryNet(transactions[id].posting, a)
    BY DEF Net
  <2> QED BY <2>1, <2>2, <2>3, NetIs
<1>5. ASSUME NEW a, NEW S \in SUBSET DOMAIN transactions
      PROVE  IsFiniteSet(S) /\ NetOver(S, a) \in Int
  <2>1. IsFiniteSet(S)
    BY <1>3, FS_Subset
  <2>2. \A id \in S : Net(a)[id] \in Int
    BY <1>4
  <2> QED BY <2>1, <2>2, SumType DEF NetOver
<1>6. \A a : \A id \in DOMAIN transactions : Net(a)[id] \in Int
  BY <1>4
<1>7. \A a : \A S \in SUBSET DOMAIN transactions : IsFiniteSet(S) /\ NetOver(S, a) \in Int
  BY <1>5
<1>8. DOMAIN transactions \subseteq Nat
  BY <1>2
<1> QED BY <1>2, <1>3, <1>6, <1>7, <1>8

(* The sums over transactions that are there already do not change, and a   *)
(* new one adds what it moves.                                              *)
LEMMA RecordSums ==
    ASSUME LedgerInv, now \in Nat, NEW type, NEW input, NEW p, NEW extra, NEW creditFirst \in BOOLEAN,
           Terms(type, input, p, extra), Record(type, input, p, extra, creditFirst), NEW a
    PROVE  /\ \A S \in SUBSET DOMAIN transactions : NetOver(S, a)' = NetOver(S, a)
           /\ NetOver(DOMAIN transactions, a)' = NetOver(DOMAIN transactions, a) + ledgerEntryNet(p, a)
<1> DEFINE id == Len(transactions) + 1
           D == DOMAIN transactions
<1>1. /\ id \notin D /\ DOMAIN transactions' = D \cup {id}
      /\ transactions'[id].posting = p
      /\ \A i \in D : transactions'[i] = transactions[i]
  BY RecordAppends
<1>2. IsFiniteSet(D) /\ \A i \in D : Net(a)[i] \in Int
  BY Moves
<1> HIDE DEF id
<1>3. PICK f, g : f = Net(a) /\ g = Net(a)'
  OBVIOUS
<1>4. (\A i \in D : g[i] = f[i]) /\ g[id] = ledgerEntryNet(p, a)
  <2>1. \A i \in DOMAIN transactions' : g[i] = ledgerEntryNet(transactions'[i].posting, a)
    BY <1>3 DEF Net
  <2>2. \A i \in D : f[i] = ledgerEntryNet(transactions[i].posting, a)
    BY <1>3 DEF Net
  <2> QED BY <1>1, <2>1, <2>2
<1>5. ASSUME NEW S \in SUBSET D PROVE NetOver(S, a)' = NetOver(S, a)
  <2>1. NetOver(S, a)' = SumFunctionOnSet(g, S) /\ NetOver(S, a) = SumFunctionOnSet(f, S)
    BY <1>3 DEF NetOver
  <2>2. IsFiniteSet(S) /\ \A i \in S : g[i] = f[i]
    BY <1>2, <1>4, FS_Subset
  <2> QED BY <2>1, <2>2, SumCongruence
<1>6. g[id] \in Int
  <2>1. p \in BookPosting /\ p.amount \in Int
    BY LedgerAssumption DEF Terms, BookPosting
  <2> QED BY <2>1, <1>4, NetIs
<1>7. NetOver(D, a) = SumFunctionOnSet(f, D)
  BY <1>3 DEF NetOver
<1>8. NetOver(DOMAIN transactions, a)' = SumFunctionOnSet(g, D \cup {id})
  <2>1. NetOver(DOMAIN transactions, a)' = SumFunctionOnSet(Net(a)', DOMAIN transactions')
    BY DEF NetOver
  <2> QED BY <2>1, <1>1, <1>3
<1>9. SumFunctionOnSet(g, D) = SumFunctionOnSet(f, D)
  BY <1>2, <1>4, SumCongruence
<1>10. \A i \in D \cup {id} : g[i] \in Int
  BY <1>2, <1>3, <1>4, <1>6
<1> HIDE DEF D
<1>11. SumFunctionOnSet(g, D \cup {id}) = SumFunctionOnSet(g, D) + g[id]
  BY <1>1, <1>2, <1>10, SumAdds
<1> QED BY <1>4, <1>5, <1>7, <1>8, <1>9, <1>11 DEF D

LEMMA RecordKeepsSums ==
    ASSUME LedgerInv, now \in Nat, SumsInv, NEW type, NEW input, NEW p, NEW extra, NEW creditFirst \in BOOLEAN,
           Terms(type, input, p, extra), Record(type, input, p, extra, creditFirst), UNCHANGED <<now, balancesAt>>
    PROVE  SumsInv'
<1> DEFINE id == Len(transactions) + 1
<1>1. /\ DOMAIN transactions' = DOMAIN transactions \cup {id} /\ id \notin DOMAIN transactions
      /\ transactions'[id].createdAt = now
      /\ \A i \in DOMAIN transactions : transactions'[i] = transactions[i]
  BY RecordAppends
<1> HIDE DEF id
<1>2. \A i \in DOMAIN transactions' : transactions'[i].createdAt <= now'
  BY <1>1 DEF SumsInv
<1>3. ASSUME NEW a \in Ids
      PROVE  accountsById'[a].balance = Opening(a) + NetOver(DOMAIN transactions, a)'
  <2>1. accountsById'[a].balance = accountsById[a].balance + ledgerEntryNet(p, a)
    BY MovedAccounts DEF LedgerInv, Terms, Record
  <2>2. NetOver(DOMAIN transactions, a)' = NetOver(DOMAIN transactions, a) + ledgerEntryNet(p, a)
    BY RecordSums
  <2>3. accountsById[a].balance = Opening(a) + NetOver(DOMAIN transactions, a)
    BY DEF SumsInv
  <2>4. ledgerEntryNet(p, a) \in Int /\ NetOver(DOMAIN transactions, a) \in Int /\ Opening(a) \in Int
    <3>1. ledgerEntryNet(p, a) \in Int
      <4>1. p \in BookPosting /\ p.amount \in Int
        BY LedgerAssumption DEF Terms, BookPosting
      <4> QED BY <4>1, NetIs
    <3>2. Opening(a) \in Int
      BY LedgerAssumption DEF Opening, Ids, Account
    <3> QED BY <3>1, <3>2, Moves
  <2> QED BY <2>1, <2>2, <2>3, <2>4
<1>4. ASSUME NEW t \in DOMAIN balancesAt', NEW a \in Ids
      PROVE  balancesAt'[t][a] = Opening(a) + NetOver(Upto(t), a)'
  <2>1. t \in Nat /\ ~(now < t)
    <3>1. DOMAIN balancesAt = 1..now
      BY AuditAppended DEF SumsInv
    <3> QED BY <3>1
  <2>2. Upto(t)' = Upto(t) /\ Upto(t) \in SUBSET DOMAIN transactions
    <3>1. Upto(t)' = {i \in DOMAIN transactions' : transactions'[i].createdAt < t}
      BY DEF Upto
    <3>2. \A i : i \in Upto(t)' <=> i \in Upto(t)
      BY <1>1, <2>1, <3>1 DEF Upto
    <3> QED BY <3>2 DEF Upto
  <2>3. PICK U : U = Upto(t)
    OBVIOUS
  <2>4. NetOver(U, a)' = NetOver(U, a)
    BY <2>2, <2>3, RecordSums
  <2>5. NetOver(Upto(t), a)' = NetOver(U, a)' /\ NetOver(Upto(t), a) = NetOver(U, a)
    BY <2>2, <2>3 DEF NetOver
  <2> QED BY <2>4, <2>5 DEF SumsInv
<1> QED BY <1>2, <1>3, <1>4 DEF SumsInv

LEMMA RecordKeepsAudits ==
    ASSUME LedgerInv, now \in Nat, AuditInv, NEW type, NEW input, NEW p, NEW extra, NEW creditFirst \in BOOLEAN,
           Terms(type, input, p, extra), Record(type, input, p, extra, creditFirst)
    PROVE  AuditInv'
<1>0. PICK n : n = Len(auditLogs) + 1
  OBVIOUS
<1>1. \A a \in Ids : accountsById'[a].balance = accountsById[a].balance + ledgerEntryNet(p, a)
  BY MovedAccounts DEF LedgerInv, Terms, Record
<1>2. PICK e : /\ auditLogs' = Append(auditLogs, e)
               /\ e.before = BalancesBefore(type, p, creditFirst)
               /\ e.after = [a \in Touched(p) |-> accountsById'[a].balance]
  <2> DEFINE before == BalancesBefore(type, p, creditFirst)
             after == [a \in Touched(p) |-> accountsById'[a].balance]
             row == [actionType |-> type, actorId |-> input.actor, before |-> before, after |-> after]
  <2>1. auditLogs' = Append(auditLogs, row)
    BY DEF Record
  <2> HIDE DEF before, after
  <2>2. row.before = before /\ row.after = after
    OBVIOUS
  <2> HIDE DEF row
  <2> QED BY <2>1, <2>2 DEF before, after
<1>3. /\ auditLogs'[n] = e /\ \A i \in DOMAIN auditLogs : auditLogs'[i] = auditLogs[i]
      /\ DOMAIN auditLogs = 1..Len(auditLogs)
  BY <1>0, <1>2, AuditAppended DEF LedgerInv
<1>4. /\ DOMAIN transactions' = DOMAIN transactions \cup {n}
      /\ DOMAIN transactions = DOMAIN auditLogs /\ n \notin DOMAIN transactions
      /\ transactions'[n].posting = p /\ transactions'[n].type = type
      /\ \A i \in DOMAIN transactions : transactions'[i] = transactions[i]
  <2>1. n = Len(transactions) + 1 /\ DOMAIN auditLogs = 1..Len(transactions)
    BY <1>0, <1>3 DEF LedgerInv
  <2> QED BY <2>1, RecordAppends
<1>5. Touched(p) \subseteq Ids
  BY DEF Terms, BookPosting, Touched
<1>6. \A a \in Ids : accountsById[a].balance \in Int
  BY DEF LedgerInv, Account
<1>7. /\ DOMAIN auditLogs'[n].before = Touched(p)
      /\ \A a \in Touched(p) :
           /\ auditLogs'[n].before[a] \in Int /\ auditLogs'[n].after[a] \in Int
           /\ IF Overwritten(n)'
              THEN auditLogs'[n].after[a] - auditLogs'[n].before[a] \in {p.amount, -p.amount}
              ELSE auditLogs'[n].after[a] = auditLogs'[n].before[a] + ledgerEntryNet(p, a)
  <2>1. Overwritten(n)' <=> Overwrites(type, p)
    BY <1>4 DEF Overwritten, Overwrites
  <2>2. DOMAIN auditLogs'[n].before = Touched(p)
    BY <1>2, <1>3 DEF BalancesBefore
  <2>3. p.amount \in Int /\ p \in BookPosting
    BY LedgerAssumption DEF Terms, BookPosting
  <2>4. ASSUME NEW a \in Touched(p)
        PROVE  /\ auditLogs'[n].before[a] \in Int /\ auditLogs'[n].after[a] \in Int
               /\ IF Overwrites(type, p)
                  THEN auditLogs'[n].after[a] - auditLogs'[n].before[a] \in {p.amount, -p.amount}
                  ELSE auditLogs'[n].after[a] = auditLogs'[n].before[a] + ledgerEntryNet(p, a)
    <3>1. /\ accountsById[a].balance \in Int
          /\ ledgerEntryNet(p, a) \in Int
          /\ auditLogs'[n].after[a] = accountsById[a].balance + ledgerEntryNet(p, a)
      BY <1>1, <1>2, <1>3, <1>5, <1>6, <2>3, NetIs
    <3>2. CASE Overwrites(type, p)
      <4>1. p.debit = a /\ p.credit = a
        BY <3>2 DEF Overwrites, Touched
      <4>2. ledgerEntryNet(p, a) = 0
        BY <2>3, <4>1 DEF ledgerEntryNet
      <4>3. auditLogs'[n].before[a] \in {accountsById[a].balance + p.amount, accountsById[a].balance - p.amount}
        BY <1>2, <1>3, <3>2 DEF BalancesBefore
      <4> QED BY <2>3, <3>1, <3>2, <4>2, <4>3
    <3>3. CASE ~Overwrites(type, p)
      <4>1. auditLogs'[n].before[a] = accountsById[a].balance
        BY <1>2, <1>3, <3>3 DEF BalancesBefore
      <4> QED BY <3>1, <3>3, <4>1
    <3> QED BY <3>2, <3>3
  <2> QED BY <2>1, <2>2, <2>4
<1>8. ASSUME NEW i \in DOMAIN transactions'
      PROVE  LET q == transactions'[i].posting IN
             /\ DOMAIN auditLogs'[i].before = Touched(q)
             /\ \A a \in Touched(q) :
                  /\ auditLogs'[i].before[a] \in Int /\ auditLogs'[i].after[a] \in Int
                  /\ IF Overwritten(i)'
                     THEN auditLogs'[i].after[a] - auditLogs'[i].before[a] \in {q.amount, -q.amount}
                     ELSE auditLogs'[i].after[a] = auditLogs'[i].before[a] + ledgerEntryNet(q, a)
  <2>1. CASE i = n
    BY <2>1, <1>4, <1>7
  <2>2. CASE i \in DOMAIN transactions
    <3>1. transactions'[i] = transactions[i] /\ auditLogs'[i] = auditLogs[i]
      BY <2>2, <1>3, <1>4
    <3>2. Overwritten(i)' <=> Overwritten(i)
      BY <3>1 DEF Overwritten
    <3> QED BY <2>2, <3>1, <3>2 DEF AuditInv
  <2> QED BY <2>1, <2>2, <1>4
<1> QED BY <1>8 DEF AuditInv

LEMMA RecordKeepsVoids ==
    ASSUME LedgerInv, now \in Nat, VoidInv, voidedTransactionIds \subseteq DOMAIN transactions,
           NEW type, NEW input, NEW p, NEW extra, NEW creditFirst \in BOOLEAN,
           Terms(type, input, p, extra), Record(type, input, p, extra, creditFirst), Voiding(type, p, extra)
    PROVE  VoidInv'
<1> DEFINE id == Len(transactions) + 1
<1>1. /\ DOMAIN transactions' = DOMAIN transactions \cup {id} /\ id \notin DOMAIN transactions
      /\ \A i \in DOMAIN transactions : i < id
      /\ transactions'[id].type = type /\ transactions'[id].posting = p /\ transactions'[id].about = extra
      /\ \A i \in DOMAIN transactions : transactions'[i] = transactions[i]
  <2>1. DOMAIN transactions = 1..Len(transactions)
    BY RecordAppends
  <2>2. \A i \in DOMAIN transactions : i < id
    BY <2>1
  <2> QED BY <2>2, RecordAppends
<1> HIDE DEF id
<1>2. CASE type # "economy.void_transaction"
  <2>1. Voids' = Voids /\ voidedTransactionIds' = voidedTransactionIds
    BY <1>1, <1>2 DEF Voids, Voiding
  <2>2. Voids \subseteq DOMAIN transactions
    BY DEF Voids
  <2>3. \A v \in Voids : transactions'[v] = transactions[v]
    BY <1>1, <2>2
  <2>4. \A v \in Voids : transactions'[transactions[v].about] = transactions[transactions[v].about]
    BY <1>1 DEF VoidInv
  <2> QED BY <1>1, <2>1, <2>2, <2>3, <2>4 DEF VoidInv
<1>3. CASE type = "economy.void_transaction"
  <2>1. /\ Voids' = Voids \cup {id}
        /\ extra \in DOMAIN transactions \ voidedTransactionIds
        /\ p = Reversed(transactions[extra].posting)
        /\ voidedTransactionIds' = voidedTransactionIds \cup {extra}
    BY <1>1, <1>3 DEF Voids, Voiding
  <2>2. Voids \subseteq DOMAIN transactions
    BY DEF Voids
  <2>3. \A v \in Voids : transactions'[v] = transactions[v]
    BY <1>1, <2>2
  <2>4. ASSUME NEW v \in Voids'
        PROVE  /\ transactions'[v].about \in voidedTransactionIds'
               /\ transactions'[v].about \in DOMAIN transactions' /\ transactions'[v].about < v
               /\ transactions'[v].posting = Reversed(transactions'[transactions'[v].about].posting)
    <3>1. CASE v = id
      BY <3>1, <1>1, <2>1
    <3>2. CASE v \in Voids
      BY <3>2, <1>1, <2>1, <2>3 DEF VoidInv
    <3> QED BY <3>1, <3>2, <2>1
  <2>5. ASSUME NEW v \in Voids', NEW w \in Voids', transactions'[v].about = transactions'[w].about
        PROVE  v = w
    <3>1. \A u \in Voids : transactions'[u].about # extra
      BY <2>1, <2>3 DEF VoidInv
    <3>2. transactions'[id].about = extra
      BY <1>1
    <3>3. CASE v \in Voids /\ w \in Voids
      BY <3>3, <2>3, <2>5 DEF VoidInv
    <3> QED BY <3>1, <3>2, <3>3, <2>1, <2>5
  <2>6. ASSUME NEW x \in voidedTransactionIds'
        PROVE  \E v \in Voids' : transactions'[v].about = x
    <3>1. CASE x = extra
      BY <3>1, <1>1, <2>1
    <3>2. CASE x \in voidedTransactionIds
      BY <3>2, <2>1, <2>3 DEF VoidInv
    <3> QED BY <3>1, <3>2, <2>1
  <2> QED BY <2>4, <2>5, <2>6 DEF VoidInv
<1> QED BY <1>2, <1>3

(* A tick notes the balances as they are, of transactions made until then.  *)
LEMMA QuietKeeps ==
    ASSUME IInv, HistoryInv, Quiet
    PROVE  HistoryInv'
<1>1. UNCHANGED <<accountsById, transactions, voidedTransactionIds, auditLogs>>
  BY DEF Quiet, ledgerVars
<1>2. AuditInv' /\ VoidInv'
  BY <1>1 DEF HistoryInv, AuditInv, VoidInv, Voids, Overwritten
<1>4. CASE UNCHANGED <<now, balancesAt>>
  BY <1>1, <1>2, <1>4 DEF HistoryInv, SumsInv, NetOver, Net, Upto
<1>5. CASE Tick
  <2> DEFINE b == [a \in DOMAIN accountsById |-> accountsById[a].balance]
  <2>0. now \in Nat /\ DOMAIN accountsById = Ids
    BY DEF IInv, LedgerInv
  <2>1. now' = now + 1 /\ balancesAt' = Append(balancesAt, b)
    BY <1>5 DEF Tick
  <2>2. \A a \in Ids : b[a] = accountsById[a].balance
    BY <2>0
  <2> HIDE DEF b
  <2>3. /\ IsSeq(balancesAt') /\ Len(balancesAt') = now'
        /\ DOMAIN balancesAt' = DOMAIN balancesAt \cup {now'}
        /\ balancesAt'[now'] = b
        /\ \A t \in DOMAIN balancesAt : balancesAt'[t] = balancesAt[t]
    BY <2>0, <2>1, AppendingAnything, AuditAppended DEF HistoryInv, SumsInv
  <2>4. \A id \in DOMAIN transactions : transactions[id].createdAt < now' /\ transactions[id].createdAt <= now'
    <3>1. \A id \in DOMAIN transactions : transactions[id].createdAt \in Nat
      BY Moves DEF IInv, Transaction
    <3> QED BY <2>0, <2>1, <3>1 DEF HistoryInv, SumsInv
  <2>5. Upto(now') = DOMAIN transactions
    BY <2>4 DEF Upto
  <2>6. ASSUME NEW t \in DOMAIN balancesAt', NEW a \in Ids
        PROVE  balancesAt'[t][a] = Opening(a) + NetOver(Upto(t), a)
    <3>1. CASE t = now'
      BY <3>1, <2>2, <2>3, <2>5 DEF HistoryInv, SumsInv
    <3>2. CASE t \in DOMAIN balancesAt
      BY <3>2, <2>3 DEF HistoryInv, SumsInv
    <3> QED BY <3>1, <3>2, <2>3
  <2>7. SumsInv'
    <3>1. \A t, a : NetOver(Upto(t), a)' = NetOver(Upto(t), a)
      BY <1>1 DEF NetOver, Net, Upto
    <3>2. \A a : NetOver(DOMAIN transactions, a)' = NetOver(DOMAIN transactions, a)
      BY <1>1 DEF NetOver, Net
    <3> QED BY <1>1, <2>3, <2>4, <2>6, <3>1, <3>2 DEF HistoryInv, SumsInv
  <2> QED BY <1>2, <2>7 DEF HistoryInv
<1> QED BY <1>4, <1>5 DEF Quiet

LEMMA HistoryInvariant == Spec => [](IInv /\ HistoryInv)
<1>1. Init => IInv /\ HistoryInv
  <2> SUFFICES ASSUME Init PROVE IInv /\ HistoryInv
    OBVIOUS
  <2>1. /\ transactions = <<>> /\ voidedTransactionIds = {} /\ now = 0 /\ balancesAt = <<>>
        /\ accountsById = OpeningAccounts
    BY DEF Init
  <2>2. DOMAIN transactions = {} /\ DOMAIN balancesAt = {} /\ IsSeq(balancesAt) /\ Len(balancesAt) = now
    BY <2>1 DEF IsSeq
  <2>3. \A a \in Ids : accountsById[a].balance = Opening(a) + NetOver(DOMAIN transactions, a)
    <3>1. \A a : NetOver({}, a) = 0
      BY SumOfNone DEF NetOver
    <3>2. \A a \in Ids : Opening(a) \in Int /\ accountsById[a].balance = Opening(a)
      BY <2>1, LedgerAssumption DEF Opening, Ids, Account
    <3> QED BY <2>2, <3>1, <3>2
  <2>4. SumsInv
    BY <2>2, <2>3 DEF SumsInv
  <2>5. AuditInv /\ VoidInv
    BY <2>1, <2>2 DEF AuditInv, VoidInv, Voids
  <2> QED BY <2>4, <2>5, InitHolds DEF HistoryInv
<1>2. ASSUME IInv, HistoryInv, [Next]_vars
      PROVE  IInv' /\ HistoryInv'
  <2>1. IInv' /\ (Recorded \/ Quiet)
    BY <1>2, StepKeeps
  <2>2. CASE Recorded
    <3>0. PICK type, input, p, extra :
            \E creditFirst \in BOOLEAN : /\ Terms(type, input, p, extra)
                                         /\ Record(type, input, p, extra, creditFirst)
                                         /\ Voiding(type, p, extra)
      BY <2>2 DEF Recorded
    <3>1. PICK creditFirst \in BOOLEAN : /\ Terms(type, input, p, extra)
                                         /\ Record(type, input, p, extra, creditFirst)
                                         /\ Voiding(type, p, extra)
      BY <3>0
    <3>2. LedgerInv /\ now \in Nat /\ voidedTransactionIds \subseteq DOMAIN transactions
      BY <1>2 DEF IInv
    <3>3. SumsInv' /\ AuditInv' /\ VoidInv'
      BY <1>2, <2>2, <3>1, <3>2, RecordKeepsSums, RecordKeepsAudits, RecordKeepsVoids DEF HistoryInv, Recorded
    <3> QED BY <2>1, <3>3 DEF HistoryInv
  <2>3. CASE Quiet
    BY <1>2, <2>1, <2>3, QuietKeeps
  <2> QED BY <2>1, <2>2, <2>3
<1> QED BY <1>1, <1>2, PTL DEF Spec

-----------------------------------------------------------------------------
(* What the reports of a state say, by its invariant.                       *)

LEMMA NetOfEntries ==
    ASSUME LedgerInv, NEW a \in Ids, NEW S \in SUBSET DOMAIN transactions
    PROVE  NetOver(S, a) = NetOver({id \in S : id \in EntriesOf(a)}, a)
<1> DEFINE T == {id \in S : id \in EntriesOf(a)}
<1>1. IsFiniteSet(S) /\ T \subseteq S /\ \A id \in T : Net(a)[id] \in Int
  BY Moves
<1>2. ASSUME NEW id \in S \ T PROVE Net(a)[id] = 0
  <2>1. a \notin Touched(transactions[id].posting)
    BY <1>2 DEF EntriesOf
  <2>2. a # None
    BY LedgerAssumption DEF Ids
  <2>3. transactions[id].posting \in BookPosting
    BY Moves DEF Transaction
  <2>4. ledgerEntryNet(transactions[id].posting, a) = 0
    BY <2>1, <2>2, <2>3, NetIs DEF Touched
  <2> QED BY <2>4 DEF Net
<1> HIDE DEF T
<1>3. SumFunctionOnSet(Net(a), S) = SumFunctionOnSet(Net(a), T)
  BY <1>1, <1>2, SumOverPart
<1> QED BY <1>3 DEF NetOver, T

LEMMA NetSplits ==
    ASSUME LedgerInv, NEW a, NEW S \in SUBSET DOMAIN transactions, NEW T \in SUBSET DOMAIN transactions,
           S \cap T = {}
    PROVE  NetOver(S \cup T, a) = NetOver(S, a) + NetOver(T, a)
<1>1. IsFiniteSet(S) /\ IsFiniteSet(T) /\ \A id \in S \cup T : Net(a)[id] \in Int
  BY Moves
<1> QED BY <1>1, SumOverUnion DEF NetOver

LEMMA Sides ==
    ASSUME LedgerInv, NEW a, NEW S \in SUBSET DOMAIN transactions
    PROVE  /\ NetOver(S, a) = Side(S, a, "credit") - Side(S, a, "debit")
           /\ Side(S, a, "credit") \in Int /\ Side(S, a, "debit") \in Int
<1> DEFINE f == Net(a)
           g == OnSide(a, "credit")
           h == OnSide(a, "debit")
<1>1. ASSUME NEW id \in S
      PROVE  g[id] \in Int /\ h[id] \in Int /\ f[id] = g[id] - h[id]
  <2>1. transactions[id].posting \in BookPosting /\ transactions[id].posting.amount \in Int
    <3>1. transactions[id].posting \in BookPosting
      BY Moves DEF Transaction
    <3> QED BY <3>1, LedgerAssumption DEF BookPosting
  <2>2. /\ g[id] = IF transactions[id].posting.credit = a THEN transactions[id].posting.amount ELSE 0
        /\ h[id] = IF transactions[id].posting.debit = a THEN transactions[id].posting.amount ELSE 0
    BY DEF OnSide
  <2>3. f[id] = ledgerEntryNet(transactions[id].posting, a)
    BY DEF Net
  <2> QED BY <2>1, <2>2, <2>3 DEF ledgerEntryNet
<1>2. IsFiniteSet(S)
  BY Moves
<1> HIDE DEF f, g, h
<1>3. SumFunctionOnSet(f, S) = SumFunctionOnSet(g, S) - SumFunctionOnSet(h, S)
  BY <1>1, <1>2, SumOfDifferences
<1>4. SumFunctionOnSet(g, S) \in Int /\ SumFunctionOnSet(h, S) \in Int
  BY <1>1, <1>2, SumType
<1> QED BY <1>3, <1>4 DEF f, g, h, NetOver, Side

(* Statements add up backwards from the balance to what was then.           *)
LEMMA StatementsFollow ==
    ASSUME IInv, HistoryInv
    PROVE  StatementsAreHistory
<1>0. LedgerInv /\ now \in Nat /\ SumsInv /\ DOMAIN accountsById = Ids
  BY DEF IInv, LedgerInv, HistoryInv
<1> SUFFICES ASSUME NEW a \in Ids
             PROVE  /\ buildAccountStatement(a, None, None).openingBalance = OpeningAccounts[a].balance
                    /\ \A t \in DOMAIN balancesAt :
                        /\ buildAccountStatement(a, None, t - 1).closingBalance = balancesAt[t][a]
                        /\ LET since == buildAccountStatement(a, t, None) IN
                            /\ since.openingBalance = balancesAt[t][a]
                            /\ since.openingBalance + since.totalCredits - since.totalDebits
                                    = accountsById[a].balance
  BY <1>0 DEF StatementsAreHistory
<1> DEFINE D == DOMAIN transactions
           E == EntriesOf(a)
           at(id) == transactions[id].createdAt
           balance == accountsById[a].balance
<1>1. /\ Opening(a) \in Int /\ balance = Opening(a) + NetOver(D, a)
      /\ \A S \in SUBSET D : NetOver(S, a) \in Int
  BY <1>0, Moves, LedgerAssumption DEF SumsInv, Opening, Ids, Account
<1>2. E \in SUBSET D /\ NetOver(E, a) = NetOver(D, a)
  <2>1. E \subseteq D /\ {id \in D : id \in E} = E
    BY DEF EntriesOf
  <2>2. NetOver(D, a) = NetOver({id \in D : id \in E}, a)
    BY <1>0, NetOfEntries
  <2> QED BY <2>1, <2>2
<1>3. NetOver({}, a) = 0
  BY SumOfNone DEF NetOver
<1>4. \A id \in D : at(id) \in Nat
  BY <1>0, Moves DEF Transaction
<1>5. None \notin Nat
  BY LedgerAssumption
<1>6. buildAccountStatement(a, None, None).openingBalance = OpeningAccounts[a].balance
  <2> DEFINE inRange == {id \in E : (None = None \/ at(id) >= None) /\ (None = None \/ at(id) <= None)}
             after == {id \in E : None # None /\ at(id) > None}
  <2>1. inRange = E /\ after = {}
    OBVIOUS
  <2>2. buildAccountStatement(a, None, None).openingBalance
            = (balance - NetOver(after, a)) - NetOver(inRange, a)
    BY DEF buildAccountStatement
  <2> HIDE DEF inRange, after
  <2>3. buildAccountStatement(a, None, None).openingBalance = (balance - 0) - NetOver(E, a)
    BY <2>1, <2>2, <1>3
  <2> QED BY <2>3, <1>1, <1>2 DEF Opening
<1>7. ASSUME NEW t \in DOMAIN balancesAt
      PROVE  /\ buildAccountStatement(a, None, t - 1).closingBalance = balancesAt[t][a]
             /\ LET since == buildAccountStatement(a, t, None) IN
                 /\ since.openingBalance = balancesAt[t][a]
                 /\ since.openingBalance + since.totalCredits - since.totalDebits = balance
  <2> DEFINE early == {id \in E : at(id) < t}
             late == {id \in E : ~(at(id) < t)}
  <2>1. t \in Nat /\ t - 1 \in Nat
    <3>1. DOMAIN balancesAt = 1..now
      BY <1>0, AuditAppended DEF SumsInv
    <3> QED BY <3>1, <1>0
  <2>2. balancesAt[t][a] = Opening(a) + NetOver(early, a)
    <3>1. Upto(t) \in SUBSET D /\ {id \in Upto(t) : id \in E} = early
      BY <1>2 DEF Upto
    <3>2. NetOver(Upto(t), a) = NetOver({id \in Upto(t) : id \in E}, a)
      BY <1>0, <3>1, NetOfEntries
    <3>3. NetOver(Upto(t), a) = NetOver(early, a)
      BY <3>1, <3>2
    <3>4. balancesAt[t][a] = Opening(a) + NetOver(Upto(t), a)
      BY <1>0 DEF SumsInv
    <3> QED BY <3>3, <3>4
  <2>3. /\ early \in SUBSET D /\ late \in SUBSET D /\ early \cap late = {} /\ early \cup late = E
    BY <1>2
  <2>4. NetOver(E, a) = NetOver(early, a) + NetOver(late, a)
    <3> HIDE DEF early, late
    <3>1. NetOver(early \cup late, a) = NetOver(early, a) + NetOver(late, a)
      BY <1>0, <2>3, NetSplits
    <3> QED BY <2>3, <3>1
  <2>5. balancesAt[t][a] = balance - NetOver(late, a)
    <3>1. NetOver(early, a) \in Int /\ NetOver(late, a) \in Int
      BY <1>1, <2>3
    <3> HIDE DEF early, late, E, D, balance
    <3> QED BY <1>1, <1>2, <2>2, <2>4, <3>1
  <2>6. buildAccountStatement(a, None, t - 1).closingBalance = balancesAt[t][a]
    <3> DEFINE after == {id \in E : t - 1 # None /\ at(id) > t - 1}
    <3>1. buildAccountStatement(a, None, t - 1).closingBalance = balance - NetOver(after, a)
      BY DEF buildAccountStatement
    <3>2. after = late
      <4>1. \A id \in E : at(id) \in Nat
        BY <1>2, <1>4
      <4> QED BY <1>5, <2>1, <4>1
    <3> QED BY <3>1, <3>2, <2>5
  <2>7. LET since == buildAccountStatement(a, t, None) IN
           /\ since.openingBalance = balancesAt[t][a]
           /\ since.openingBalance + since.totalCredits - since.totalDebits = balance
    <3> DEFINE inRange == {id \in E : (t = None \/ at(id) >= t) /\ (None = None \/ at(id) <= None)}
               after == {id \in E : None # None /\ at(id) > None}
               since == buildAccountStatement(a, t, None)
    <3>1. /\ since.openingBalance = (balance - NetOver(after, a)) - NetOver(inRange, a)
          /\ since.totalCredits = Side(inRange, a, "credit")
          /\ since.totalDebits = Side(inRange, a, "debit")
      BY DEF buildAccountStatement
    <3>2. after = {} /\ inRange = late
      <4>1. \A id \in E : at(id) \in Nat
        BY <1>2, <1>4
      <4> QED BY <1>5, <2>1, <4>1
    <3> HIDE DEF after, inRange, since, late
    <3>3. /\ since.openingBalance = (balance - 0) - NetOver(late, a)
          /\ since.totalCredits = Side(late, a, "credit")
          /\ since.totalDebits = Side(late, a, "debit")
      BY <3>1, <3>2, <1>3
    <3>4. /\ NetOver(late, a) = Side(late, a, "credit") - Side(late, a, "debit")
          /\ Side(late, a, "credit") \in Int /\ Side(late, a, "debit") \in Int
      BY <1>0, <2>3, Sides
    <3>5. balance \in Int
      BY <1>0 DEF LedgerInv, Account
    <3>6. /\ since.openingBalance = balancesAt[t][a]
          /\ since.openingBalance + since.totalCredits - since.totalDebits = balance
      <4> HIDE DEF balance
      <4> QED BY <2>5, <3>3, <3>4, <3>5
    <3> QED BY <3>6 DEF since
  <2> QED BY <2>6, <2>7
<1> QED BY <1>6, <1>7

(* The recursive function is what it says: later transactions decide about  *)
(* earlier ones.                                                            *)
LEMMA StandingIs ==
    ASSUME LedgerInv
    PROVE  \A id \in DOMAIN transactions :
             Standing[id] = ~\E v \in DOMAIN transactions :
                                /\ v > id
                                /\ transactions[v].type = "economy.void_transaction"
                                /\ transactions[v].about = id
                                /\ Standing[v]
<1> DEFINE D == DOMAIN transactions
           Struck(v, id) == transactions[v].type = "economy.void_transaction" /\ transactions[v].about = id
           R == {pair \in D \X D : Struck(pair[1], pair[2])}
           Is(f) == f = [id \in D |-> ~\E v \in D : /\ v > id
                                                    /\ transactions[v].type = "economy.void_transaction"
                                                    /\ transactions[v].about = id
                                                    /\ f[v]]
<1>1. PICK n \in Nat : D = 1..n
  <2>1. transactions \in Seq(Transaction)
    BY DEF LedgerInv
  <2>2. D = 1..Len(transactions) /\ Len(transactions) \in Nat
    BY <2>1
  <2> HIDE DEF D
  <2> QED BY <2>2
<1>2. PICK f : Unstruck(R, n, f)
  <2> HIDE DEF R
  <2> QED BY UnstruckExists
<1>3. Is(f)
  <2>1. \A x, y \in D : <<y, x>> \in R <=> Struck(y, x)
    OBVIOUS
  <2>2. f = [x \in D |-> ~\E y \in D : y > x /\ <<y, x>> \in R /\ f[y]]
    BY <1>1, <1>2 DEF Unstruck
  <2> HIDE DEF R, D
  <2>3. \A x \in D : (\E y \in D : y > x /\ <<y, x>> \in R /\ f[y])
                        <=> (\E y \in D : /\ y > x
                                          /\ transactions[y].type = "economy.void_transaction"
                                          /\ transactions[y].about = x
                                          /\ f[y])
    BY <2>1
  <2>4. \A x \in D : f[x] = ~\E y \in D : /\ y > x
                                          /\ transactions[y].type = "economy.void_transaction"
                                          /\ transactions[y].about = x
                                          /\ f[y]
    BY <2>2, <2>3
  <2>5. f = [x \in D |-> f[x]]
    BY <2>2
  <2> QED BY <2>4, <2>5, Zenon
<1>4. Standing = CHOOSE g : Is(g)
  BY DEF Standing
<1>5. Is(Standing)
  <2> HIDE DEF Is
  <2> QED BY <1>3, <1>4
<1> QED BY <1>5

(* Each transaction that does not stand cancels with the standing void of   *)
(* it, and all that is left are the standing ones that are not voids.       *)
LEMMA StandingCount ==
    ASSUME LedgerInv, HistoryInv
    PROVE  OnlyStandingCounts
<1> DEFINE D == DOMAIN transactions
           About == [v \in D |-> transactions[v].about]
           Undone == {id \in D : ~Standing[id]}
           Undoing == {v \in Voids : Standing[v]}
           Left == {id \in D : Standing[id] /\ transactions[id].type # "economy.void_transaction"}
<1>1. DOMAIN accountsById = Ids
  BY DEF LedgerInv
<1>2. /\ Undone \in SUBSET D /\ Undoing \in SUBSET D /\ Left \in SUBSET D
      /\ Left \cap (Undoing \cup Undone) = {} /\ Left \cup (Undoing \cup Undone) = D
      /\ Undoing \cap Undone = {}
  BY DEF Voids
<1>3. \A v \in Undoing : About[v] \in D /\ About[v] = transactions[v].about /\ v \in D
  BY <1>2 DEF HistoryInv, VoidInv
<1>4. Undone = {About[v] : v \in Undoing}
  <2>1. ASSUME NEW id \in Undone PROVE \E v \in Undoing : About[v] = id
    BY <2>1, StandingIs DEF Voids
  <2>2. ASSUME NEW v \in Undoing PROVE About[v] \in Undone
    <3>1. v \in D /\ v \in Nat /\ About[v] \in D /\ About[v] \in Nat /\ v > About[v]
      BY <1>3, Moves DEF HistoryInv, VoidInv
    <3> QED BY <3>1, StandingIs DEF Voids
  <2> HIDE DEF Undone, Undoing, About
  <2> QED BY <2>1, <2>2
<1>5. \A v, w \in Undoing : About[v] = About[w] => v = w
  BY <1>3 DEF HistoryInv, VoidInv
<1>6. ASSUME NEW a \in Ids
      PROVE  accountsById[a].balance = OpeningAccounts[a].balance
                + NetOver({id \in EntriesOf(a) : /\ Standing[id]
                                                 /\ transactions[id].type # "economy.void_transaction"}, a)
  <2>1. \A v \in Undoing : Net(a)[About[v]] \in Int /\ Net(a)[v] = -Net(a)[About[v]]
    <3> TAKE v \in Undoing
    <3>1. transactions[v].posting = Reversed(transactions[About[v]].posting)
      BY <1>3 DEF HistoryInv, VoidInv
    <3> DEFINE q == transactions[About[v]].posting
    <3>2. q \in BookPosting /\ q.amount \in Int
      <4>1. q \in BookPosting
        BY <1>3, Moves DEF Transaction
      <4> QED BY <4>1, LedgerAssumption DEF BookPosting
    <3>3. Net(a)[About[v]] = ledgerEntryNet(q, a) /\ Net(a)[v] = ledgerEntryNet(Reversed(q), a)
      BY <1>3, <3>1 DEF Net
    <3> HIDE DEF q
    <3>4. ledgerEntryNet(Reversed(q), a) = -ledgerEntryNet(q, a) /\ ledgerEntryNet(q, a) \in Int
      BY <3>2 DEF ledgerEntryNet, Reversed, Posting
    <3> QED BY <3>3, <3>4
  <2>2. IsFiniteSet(Undoing)
    BY <1>2, Moves
  <2> HIDE DEF D, About, Undone, Undoing, Left
  <2>3. SumFunctionOnSet(Net(a), Undoing) + SumFunctionOnSet(Net(a), {About[v] : v \in Undoing}) = 0
    BY <2>1, <2>2, <1>5, SumsCancel
  <2>4. NetOver(Undoing, a) + NetOver(Undone, a) = 0
    BY <2>3, <1>4 DEF NetOver
  <2>5. NetOver(Undoing \cup Undone, a) = NetOver(Undoing, a) + NetOver(Undone, a)
    BY <1>2, NetSplits DEF D
  <2>6. NetOver(Left \cup (Undoing \cup Undone), a) = NetOver(Left, a) + NetOver(Undoing \cup Undone, a)
    <3>1. Undoing \cup Undone \in SUBSET D
      BY <1>2
    <3> QED BY <3>1, <1>2, NetSplits DEF D
  <2>7. NetOver(Left, a) \in Int
    BY <1>2, Moves DEF D
  <2>8. NetOver(D, a) = NetOver(Left, a)
    <3>1. NetOver(D, a) = NetOver(Left \cup (Undoing \cup Undone), a)
      BY <1>2
    <3> QED BY <3>1, <2>4, <2>5, <2>6, <2>7
  <2>9. NetOver(Left, a) = NetOver({id \in Left : id \in EntriesOf(a)}, a)
    BY <1>2, NetOfEntries DEF D
  <2>10. {id \in Left : id \in EntriesOf(a)}
            = {id \in EntriesOf(a) : /\ Standing[id]
                                     /\ transactions[id].type # "economy.void_transaction"}
    BY DEF Left, D, EntriesOf
  <2>11. accountsById[a].balance = Opening(a) + NetOver(D, a)
    BY DEF HistoryInv, SumsInv, D
  <2> QED BY <2>8, <2>9, <2>10, <2>11 DEF Opening
<1> QED BY <1>1, <1>6 DEF OnlyStandingCounts

(* Every entry of the trail is one of a transaction, which the report has   *)
(* if the amount is large enough; every voided transaction has its void.    *)
LEMMA ReportsFollow ==
    ASSUME IInv, HistoryInv
    PROVE  LargeMovesAreReported
<1>0. LedgerInv /\ DOMAIN accountsById = Ids
  BY DEF IInv, LedgerInv
<1>1. ASSUME NEW a \in Ids, NEW min \in Amounts, findSuspiciousEconomyActivity(a, min) = {},
             NEW i \in AuditsOf(a)
      PROVE  auditLogs[i].after[a] - auditLogs[i].before[a] \in (-min + 1) .. (min - 1)
  <2>1. i \in DOMAIN transactions
    <3>1. DOMAIN auditLogs = 1..Len(auditLogs) /\ DOMAIN transactions = 1..Len(transactions)
      <4>1. transactions \in Seq(Transaction)
        BY <1>0 DEF LedgerInv
      <4> QED BY <1>0, <4>1, AuditAppended DEF LedgerInv
    <3> QED BY <3>1, <1>0 DEF LedgerInv, AuditsOf
  <2> DEFINE p == transactions[i].posting
  <2>2. /\ a \in Touched(p) /\ auditLogs[i].before[a] \in Int /\ auditLogs[i].after[a] \in Int
        /\ \/ auditLogs[i].after[a] - auditLogs[i].before[a] \in {p.amount, -p.amount}
           \/ auditLogs[i].after[a] = auditLogs[i].before[a] + ledgerEntryNet(p, a)
    BY <2>1 DEF HistoryInv, AuditInv, AuditsOf
  <2>3. p \in BookPosting /\ p.amount \in Int /\ p.amount > 0 /\ min \in Int
    <3>1. p \in BookPosting
      BY <1>0, <2>1, Moves DEF Transaction
    <3>2. p.amount > 0
      BY <1>0, <2>1 DEF LedgerInv
    <3> QED BY <3>1, <3>2, LedgerAssumption DEF BookPosting
  <2>4. a # None /\ min # None
    BY LedgerAssumption DEF Ids
  <2>5. ~(p.amount >= min)
    BY <1>1, <2>1, <2>2, <2>4 DEF findSuspiciousEconomyActivity
  <2> HIDE DEF p
  <2>6. ledgerEntryNet(p, a) \in {p.amount, -p.amount, 0}
    BY <2>3, NetIs
  <2> QED BY <2>2, <2>3, <2>5, <2>6
<1>2. ASSUME NEW id \in voidedTransactionIds
      PROVE  \E v \in findSuspiciousEconomyActivity(None, None) : transactions[v].about = id
  <2>1. PICK v \in Voids : transactions[v].about = id
    BY DEF HistoryInv, VoidInv
  <2>2. v \in findSuspiciousEconomyActivity(None, None)
    BY DEF Voids, findSuspiciousEconomyActivity
  <2> QED BY <2>1, <2>2
<1> QED BY <1>0, <1>1, <1>2 DEF LargeMovesAreReported

(* Statements, audit trail, balances, invoices and reports of one ledger    *)
(* tell the same history, whatever was voided, voided again, adjusted,      *)
(* retried or refused, for any accounts, amounts and number of transactions *)
(* (economy.ts).                                                            *)
THEOREM RecordsAgree == Spec => []RecordsTellHistory
<1>1. ASSUME IInv, HistoryInv
      PROVE  StatementsAreHistory /\ OnlyStandingCounts /\ LargeMovesAreReported
  <2>1. LedgerInv
    BY <1>1 DEF IInv
  <2> QED BY <1>1, <2>1, StatementsFollow, StandingCount, ReportsFollow
<1> QED BY <1>1, HistoryInvariant, LedgerTypeCorrect, AuditsChain, InvoicesArePaidOnce, PTL DEF RecordsTellHistory
=============================================================================
