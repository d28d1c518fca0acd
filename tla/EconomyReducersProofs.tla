------------------------- MODULE EconomyReducersProofs -------------------------
(***************************************************************************)
(* What the economy reducers keep true for every set of accounts, actors,  *)
(* keys and amounts.                                                       *)
(*                                                                         *)
(* IInv is the inductive invariant: the safety invariants the runs check,  *)
(* made inductive by PositiveEntries (a void of a positive posting can     *)
(* only add or check what it subtracts).  One lemma per conjunct says that *)
(* a step of Next preserves it under IInv; NextIInv and Invariance collect  *)
(* them.                                                                   *)
(***************************************************************************)
EXTENDS EconomyReducers, DataTheorems, TLAPS

PositiveEntries == \A e \in ledger_entries : e.amount > 0

IInv ==
    /\ TypeOK
    /\ PositiveEntries
    /\ NonNegativeBalances
    /\ KeyPostsOnce
    /\ VoidedAtMostOnce
    /\ InvoicePaidOnce
    /\ BalancedPostings
    /\ AuditComplete

-----------------------------------------------------------------------------
(***************************************************************************)
(* Balances.                                                               *)
(***************************************************************************)

(* MoveBalance changes the balances of its two accounts and nothing else;   *)
(* when they are the same account, the credit is what remains.              *)
LEMMA MoveBalanceFacts ==
    ASSUME IsTable(accounts, Accounts, AccountRow),
           NEW from \in DOMAIN accounts, NEW to \in DOMAIN accounts, NEW amount \in Int,
           MoveBalance(from, to, amount)
    PROVE  /\ IsTable(accounts', Accounts, AccountRow)
           /\ DOMAIN accounts' = DOMAIN accounts
           /\ accounts'[to].balance = accounts[to].balance + amount
           /\ from # to => accounts'[from].balance = accounts[from].balance - amount
           /\ \A a \in DOMAIN accounts : a \notin {from, to} => accounts'[a] = accounts[a]
  <1> DEFINE debited == [accounts EXCEPT ![from].balance = accounts[from].balance - amount]
  <1>1. \A a \in DOMAIN accounts : accounts[a] \in AccountRow
    BY DEF IsTable
  <1>2. /\ DOMAIN debited = DOMAIN accounts
        /\ \A a \in DOMAIN accounts : debited[a] \in AccountRow
        /\ debited[from].balance = accounts[from].balance - amount
        /\ \A a \in DOMAIN accounts : a # from => debited[a] = accounts[a]
    BY <1>1 DEF AccountRow
  <1>3. accounts' = [debited EXCEPT ![to].balance = accounts[to].balance + amount]
    BY DEF MoveBalance
  <1>4. /\ DOMAIN accounts' = DOMAIN accounts
        /\ \A a \in DOMAIN accounts : accounts'[a] \in AccountRow
        /\ accounts'[to].balance = accounts[to].balance + amount
        /\ \A a \in DOMAIN accounts : a # to => accounts'[a] = debited[a]
    <2> HIDE DEF debited
    <2> QED BY <1>1, <1>2, <1>3 DEF AccountRow
  <1>5. accounts' \in [DOMAIN accounts' -> AccountRow]
    <2>1. accounts' = [a \in DOMAIN accounts' |-> accounts'[a]]
      <3> HIDE DEF debited
      <3> QED BY <1>2, <1>3
    <2> QED BY <1>4, <2>1
  <1> QED BY <1>2, <1>4, <1>5 DEF IsTable

-----------------------------------------------------------------------------
(***************************************************************************)
(* The steps.                                                              *)
(***************************************************************************)

AnyCreate == \E id \in Accounts, o \in OwnerTypes, c \in Currencies, b \in OpeningBalances :
                create_account(id, o, c, b)
AnyLimit == \E id \in LimitIds, row \in LimitRows : upsert_economy_limit(id, row)
AnyPermissionChange == \E actor \in Actors, keys \in PermissionSets : ChangePermissions(actor, keys)
AnyTransfer ==
    \E id \in TransactionIds, r \in Request :
        /\ r.type \in ReasonedTransfers \cup ItemTransfers
        /\ r.from \in Accounts
        /\ r.to \in Accounts
        /\ post_account_transfer(id, r)
AnySingle ==
    \E id \in TransactionIds, type \in SingleAccount, actor \in Actors, key \in IdempotencyKeys,
       account \in Accounts, direction \in {"debit", "credit"}, amount \in Int :
        post_single_account_transaction(id, type, actor, key, account, direction, amount)
AnyVoid ==
    \E id \in TransactionIds, actor \in Actors, key \in IdempotencyKeys, voided \in TransactionIds :
        void_transaction(id, actor, key, voided)
AnyIssue ==
    \E id \in InvoiceIds, issuer \in Accounts, payer \in Accounts, amount \in Int,
       currency \in Currencies, issued_by \in Actors, key \in IdempotencyKeys,
       due_at \in DueDates \cup {None} :
        issue_invoice(id, issuer, payer, amount, currency, issued_by, key, due_at)
AnyPayment ==
    \E id \in TransactionIds, actor \in Actors, invoice_id \in InvoiceIds, key \in IdempotencyKeys :
        pay_invoice(id, actor, invoice_id, key)

(* Every transfer reducer calls post_account_transfer with a request.       *)
LEMMA TransferSteps ==
    ASSUME NEW id \in TransactionIds, NEW actor \in Actors, NEW key \in IdempotencyKeys,
           NEW pair \in TransferPairs, NEW amount \in Amounts,
           TransferStep(id, actor, key, pair, amount)
    PROVE  AnyTransfer
  <1>1. pair[1] \in Accounts /\ pair[2] \in Accounts /\ amount \in Int
    BY EconomyAssumption DEF EconomyAssumption
  <1>2. ASSUME NEW type \in ReasonedTransfers \cup ItemTransfers, NEW ref \in Reference,
               post_account_transfer(id, TransferCall(type, actor, key, pair, amount, ref))
        PROVE  AnyTransfer
    <2> DEFINE r == TransferCall(type, actor, key, pair, amount, ref)
    <2>1. /\ r \in Request
          /\ r.type = type
          /\ r.from = pair[1]
          /\ r.to = pair[2]
      BY <1>1 DEF TransferCall, Request, TransactionTypes
    <2>2. post_account_transfer(id, r)
      BY <1>2
    <2> HIDE DEF r
    <2> QED BY <1>1, <2>1, <2>2 DEF AnyTransfer
  <1>3. None \in Reference /\ Items \subseteq Reference
    BY DEF Reference
  <1> USE DEF ReasonedTransfers, ItemTransfers
  <1>4. CASE transfer_money(id, actor, key, pair, amount)
    BY <1>2, <1>3, <1>4 DEF transfer_money
  <1>5. CASE pay_salary(id, actor, key, pair, amount)
    BY <1>2, <1>3, <1>5 DEF pay_salary
  <1>6. CASE fine_player(id, actor, key, pair, amount)
    BY <1>2, <1>3, <1>6 DEF fine_player
  <1>7. CASE charge_tax(id, actor, key, pair, amount)
    BY <1>2, <1>3, <1>7 DEF charge_tax
  <1>8. CASE business_payout(id, actor, key, pair, amount)
    BY <1>2, <1>3, <1>8 DEF business_payout
  <1>9. ASSUME NEW item \in Items, buy_item(id, actor, key, pair, amount, item)
        PROVE  AnyTransfer
    BY <1>2, <1>3, <1>9 DEF buy_item
  <1>10. ASSUME NEW item \in Items, sell_item(id, actor, key, pair, amount, item)
         PROVE  AnyTransfer
    BY <1>2, <1>3, <1>10 DEF sell_item
  <1> QED BY <1>4, <1>5, <1>6, <1>7, <1>8, <1>9, <1>10 DEF TransferStep

(* A step of the specification is a step of one of the eight kinds.         *)
LEMMA StepCases ==
    ASSUME Next
    PROVE  \/ AnyCreate \/ AnyLimit \/ AnyPermissionChange \/ AnyTransfer
           \/ AnySingle \/ AnyVoid \/ AnyIssue \/ AnyPayment
  <1>1. CASE AdministrationStep
    BY <1>1 DEF AdministrationStep, AnyCreate, AnyLimit, AnyPermissionChange
  <1>2. ASSUME NEW actor \in Actors, NEW key \in IdempotencyKeys, InvoiceStep(actor, key)
        PROVE  AnyIssue \/ AnyPayment
    <2>1. \A pair \in TransferPairs : pair[1] \in Accounts /\ pair[2] \in Accounts
      BY EconomyAssumption DEF EconomyAssumption
    <2>2. Amounts \subseteq Int
      BY EconomyAssumption DEF EconomyAssumption
    <2> QED BY <1>2, <2>1, <2>2 DEF InvoiceStep, AnyIssue, AnyPayment
  <1>3. ASSUME NEW actor \in Actors, NEW key \in IdempotencyKeys, NEW id \in TransactionIds,
               VoidStep(id, actor, key)
        PROVE  AnyVoid
    BY <1>3 DEF VoidStep, AnyVoid
  <1>4. ASSUME NEW actor \in Actors, NEW key \in IdempotencyKeys, NEW id \in TransactionIds,
               NEW account \in Accounts, NEW amount \in Amounts,
               SingleAccountStep(id, actor, key, account, amount)
        PROVE  AnySingle
    <2>1. amount \in Int
      BY EconomyAssumption DEF EconomyAssumption
    <2> QED BY <1>4, <2>1 DEF SingleAccountStep, AnySingle, SingleAccount, deposit_cash,
                              withdraw_cash, admin_adjust_balance
  <1> QED BY <1>1, <1>2, <1>3, <1>4, TransferSteps DEF Next

-----------------------------------------------------------------------------
(***************************************************************************)
(* What a posting does.  The four reducers that post have this in common.  *)
(***************************************************************************)
PostingStep(id, r, new) ==
    /\ ~transaction_exists(r.key)
    /\ Record(id, r)
    /\ ledger_entries' = ledger_entries \cup new
    /\ new \subseteq LedgerEntry
    /\ new # {}
    /\ \A e \in new : e.tx = id /\ e.amount > 0

(* Recording a transaction adds one row under a fresh id.                   *)
LEMMA RecordFacts ==
    ASSUME TypeOK, NEW id \in TransactionIds, NEW r \in Request, Record(id, r)
    PROVE  /\ id \notin DOMAIN transactions
           /\ IsTable(transactions', TransactionIds, Request)
           /\ DOMAIN transactions' = DOMAIN transactions \cup {id}
           /\ transactions'[id] = r
           /\ \A x \in DOMAIN transactions : transactions'[x] = transactions[x]
           /\ id \notin audit_logs
           /\ audit_logs' = audit_logs \cup {id}
  <1>1. IsTable(transactions, TransactionIds, Request)
    BY DEF TypeOK
  <1>2. id \notin DOMAIN transactions /\ transactions' = Insert(transactions, id, r)
    BY DEF Record
  <1>3. id \notin audit_logs /\ audit_logs' = audit_logs \cup {id}
    BY DEF Record
  <1>4. /\ IsTable(Insert(transactions, id, r), TransactionIds, Request)
        /\ DOMAIN Insert(transactions, id, r) = DOMAIN transactions \cup {id}
        /\ Insert(transactions, id, r)[id] = r
        /\ \A x \in DOMAIN transactions :
              x # id => Insert(transactions, id, r)[x] = transactions[x]
    BY <1>1 DEF IsTable, Insert
  <1> QED BY <1>2, <1>3, <1>4

(* Posted is an amount of the set it looks at, or 0.                        *)
LEMMA PostedFacts ==
    ASSUME NEW entries \in SUBSET LedgerEntry, NEW account, NEW direction,
           \A e \in entries : e.amount > 0
    PROVE  /\ Posted(entries, account, direction) \in Nat
           /\ Posted(entries, account, direction) = 0 \/
                \E e \in entries : /\ e.account = account
                                   /\ e.direction = direction
                                   /\ e.amount = Posted(entries, account, direction)
  <1> DEFINE Match(e) == e.account = account /\ e.direction = direction
  <1>1. CASE \E e \in entries : Match(e)
    <2> DEFINE m == CHOOSE e \in entries : Match(e)
    <2>1. m \in entries /\ Match(m)
      BY <1>1
    <2>2. m.amount \in Int /\ m.amount > 0
      BY <2>1 DEF LedgerEntry
    <2>3. Posted(entries, account, direction) = m.amount
      BY <1>1 DEF Posted
    <2> HIDE DEF m
    <2> QED BY <2>1, <2>2, <2>3
  <1>2. CASE ~ \E e \in entries : Match(e)
    BY <1>2 DEF Posted
  <1> QED BY <1>1, <1>2

LEMMA TransferFacts ==
    ASSUME TypeOK, NEW id \in TransactionIds, NEW r \in Request,
           r.from \in Accounts, r.to \in Accounts, post_account_transfer(id, r)
    PROVE  /\ r.amount > 0
           /\ r.from \in DOMAIN accounts
           /\ r.to \in DOMAIN accounts
           /\ accounts[r.from].balance >= r.amount
           /\ MoveBalance(r.from, r.to, r.amount)
           /\ PostingStep(id, r, TransferEntries(id, r.from, r.to, r.amount))
           /\ UNCHANGED <<invoices, economy_limits, permitted, opening>>
  <1>1. r.amount \in Int
    BY DEF Request
  <1> DEFINE new == TransferEntries(id, r.from, r.to, r.amount)
  <1>2. new \subseteq LedgerEntry
    BY <1>1 DEF TransferEntries, Entry, LedgerEntry
  <1>3. r.amount > 0 /\ ~transaction_exists(r.key) /\ Record(id, r)
    BY DEF post_account_transfer
  <1>4. new # {} /\ \A e \in new : e.tx = id /\ e.amount = r.amount
    BY DEF TransferEntries, Entry
  <1>5. PostingStep(id, r, TransferEntries(id, r.from, r.to, r.amount))
    BY <1>2, <1>3, <1>4 DEF PostingStep, post_account_transfer
  <1> QED BY <1>3, <1>5 DEF post_account_transfer, ActiveAccounts, HasFunds

(* The request post_single_account_transaction records.                     *)
SingleRequest(type, actor, key, account, direction, amount) ==
    [type |-> type, actor |-> actor, key |-> key, amount |-> amount, ref |-> None,
     from |-> IF direction = "debit" THEN account ELSE None,
     to |-> IF direction = "debit" THEN None ELSE account]

(* What a single-account entry adds to its account.                         *)
SignedAmount(direction, amount) == IF direction = "debit" THEN -amount ELSE amount

(* One account moves by delta and the others stay.                          *)
SingleMove(account, delta) ==
    /\ account \in DOMAIN accounts
    /\ DOMAIN accounts' = DOMAIN accounts
    /\ accounts'[account].balance = accounts[account].balance + delta
    /\ \A a \in DOMAIN accounts : a # account => accounts'[a] = accounts[a]

LEMMA SingleFacts ==
    ASSUME TypeOK, NEW id \in TransactionIds, NEW type \in SingleAccount, NEW actor \in Actors,
           NEW key \in IdempotencyKeys, NEW account \in Accounts,
           NEW direction \in {"debit", "credit"}, NEW amount \in Int,
           post_single_account_transaction(id, type, actor, key, account, direction, amount)
    PROVE  /\ amount > 0
           /\ IsTable(accounts', Accounts, AccountRow)
           /\ SingleMove(account, SignedAmount(direction, amount))
           /\ SingleRequest(type, actor, key, account, direction, amount) \in Request
           /\ PostingStep(id, SingleRequest(type, actor, key, account, direction, amount),
                          {Entry(id, account, direction, amount)})
           /\ UNCHANGED <<invoices, economy_limits, permitted, opening>>
  <1> DEFINE r == SingleRequest(type, actor, key, account, direction, amount)
             delta == SignedAmount(direction, amount)
  <1>1. r \in Request /\ r.key = key
    BY DEF SingleRequest, Request, Reference, TransactionTypes
  <1>2. /\ amount > 0
        /\ ~transaction_exists(key)
        /\ Record(id, r)
        /\ account \in DOMAIN accounts
        /\ ledger_entries' = ledger_entries \cup {Entry(id, account, direction, amount)}
    BY DEF post_single_account_transaction, SingleRequest, ActiveAccounts
  <1>3. PostingStep(id, r, {Entry(id, account, direction, amount)})
    <2> HIDE DEF r
    <2> QED BY <1>1, <1>2 DEF PostingStep, Entry, LedgerEntry
  <1>4. \A a \in DOMAIN accounts : accounts[a] \in AccountRow
    BY DEF TypeOK, IsTable
  <1>5. accounts' = [accounts EXCEPT ![account] =
                        [@ EXCEPT !.balance = accounts[account].balance + delta]]
    BY <1>2, <1>4 DEF post_single_account_transaction, AccountRow, SignedAmount
  <1>6. /\ IsTable(accounts', Accounts, AccountRow)
        /\ DOMAIN accounts' = DOMAIN accounts
        /\ accounts'[account].balance = accounts[account].balance + delta
        /\ \A a \in DOMAIN accounts : a # account => accounts'[a] = accounts[a]
    <2> DEFINE row == [accounts[account] EXCEPT !.balance = accounts[account].balance + delta]
    <2>1. row \in AccountRow /\ row.balance = accounts[account].balance + delta
      BY <1>2, <1>4 DEF AccountRow, SignedAmount
    <2>2. accounts' = [accounts EXCEPT ![account] = row]
      BY <1>5
    <2>3. IsTable(accounts, Accounts, AccountRow)
      BY DEF TypeOK
    <2> HIDE DEF row, delta
    <2> QED BY <1>2, <2>1, <2>2, <2>3 DEF IsTable
  <1>7. SingleMove(account, delta)
    BY <1>2, <1>6 DEF SingleMove
  <1> QED BY <1>1, <1>2, <1>3, <1>6, <1>7 DEF post_single_account_transaction

(* The request void_transaction records.                                    *)
VoidRequest(actor, key, voided) ==
    [type |-> "economy.void_transaction", actor |-> actor, key |-> key,
     from |-> None, to |-> None, amount |-> 0, ref |-> voided]

LEMMA VoidFacts ==
    ASSUME TypeOK, PositiveEntries, NEW id \in TransactionIds, NEW actor \in Actors,
           NEW key \in IdempotencyKeys, NEW voided \in TransactionIds,
           void_transaction(id, actor, key, voided)
    PROVE  /\ ~IsVoided(voided)
           /\ voided \in DOMAIN transactions
           /\ VoidRequest(actor, key, voided) \in Request
           /\ PostingStep(id, VoidRequest(actor, key, voided), Reversals(id, voided))
           /\ IsTable(accounts', Accounts, AccountRow)
           /\ DOMAIN accounts' = DOMAIN accounts
           /\ \A a \in DOMAIN accounts :
                accounts'[a].balance = accounts[a].balance + NetOf(Reversals(id, voided), a)
           /\ \A e \in Reversals(id, voided) :
                e.direction = "debit" => accounts[e.account].balance >= e.amount
           /\ UNCHANGED <<invoices, economy_limits, permitted, opening>>
  <1> DEFINE reversals == Reversals(id, voided)
             r == VoidRequest(actor, key, voided)
  <1>1. reversals \in SUBSET LedgerEntry /\ \A e \in reversals : e.tx = id /\ e.amount > 0
    BY DEF Reversals, EntriesOf, Entry, LedgerEntry, TypeOK, PositiveEntries,
           reverse_ledger_direction
  <1>2. r \in Request /\ r.key = key
    BY DEF VoidRequest, Request, Reference, TransactionTypes
  <1>3. /\ ~transaction_exists(key)
        /\ ~IsVoided(voided)
        /\ voided \in DOMAIN transactions
        /\ reversals # {}
        /\ \A e \in reversals : e.direction = "debit" => accounts[e.account].balance >= e.amount
        /\ Record(id, r)
        /\ ledger_entries' = ledger_entries \cup reversals
        /\ UNCHANGED <<invoices, economy_limits, permitted, opening>>
    BY DEF void_transaction, VoidRequest, HasFunds
  <1>4. PostingStep(id, r, reversals)
    <2> HIDE DEF r, reversals
    <2> QED BY <1>1, <1>2, <1>3 DEF PostingStep
  <1>5. \A a \in DOMAIN accounts : NetOf(reversals, a) \in Int
    <2> HIDE DEF reversals
    <2>1. \A a, d : Posted(reversals, a, d) \in Int
      BY <1>1, PostedFacts
    <2> QED BY <2>1 DEF NetOf
  <1>6. accounts' = [a \in DOMAIN accounts |->
                        [accounts[a] EXCEPT !.balance = accounts[a].balance + NetOf(reversals, a)]]
    BY DEF void_transaction
  <1>7. \A a \in DOMAIN accounts :
            /\ accounts'[a] \in AccountRow
            /\ accounts'[a].balance = accounts[a].balance + NetOf(reversals, a)
    <2> SUFFICES ASSUME NEW a \in DOMAIN accounts
                 PROVE  /\ accounts'[a] \in AccountRow
                        /\ accounts'[a].balance = accounts[a].balance + NetOf(reversals, a)
      OBVIOUS
    <2> DEFINE n == NetOf(reversals, a)
               row == accounts[a]
    <2>1. row \in AccountRow
      BY DEF TypeOK, IsTable
    <2>2. n \in Int
      BY <1>5
    <2>3. accounts'[a] = [row EXCEPT !.balance = row.balance + n]
      BY <1>6
    <2> HIDE DEF n, row
    <2>4. [row EXCEPT !.balance = row.balance + n] \in AccountRow
      BY <2>1, <2>2 DEF AccountRow
    <2>5. [row EXCEPT !.balance = row.balance + n].balance = row.balance + n
      BY <2>1 DEF AccountRow
    <2> QED BY <2>3, <2>4, <2>5 DEF n, row
  <1>8. IsTable(accounts', Accounts, AccountRow) /\ DOMAIN accounts' = DOMAIN accounts
    <2>1. DOMAIN accounts \subseteq Accounts
      BY DEF TypeOK, IsTable
    <2> HIDE DEF reversals
    <2> QED BY <1>6, <1>7, <2>1 DEF IsTable
  <1> QED BY <1>2, <1>3, <1>4, <1>7, <1>8

LEMMA IssueFacts ==
    ASSUME TypeOK, NEW id \in InvoiceIds, NEW issuer \in Accounts, NEW payer \in Accounts,
           NEW amount \in Int, NEW currency \in Currencies, NEW issued_by \in Actors,
           NEW key \in IdempotencyKeys, NEW due_at \in DueDates \cup {None},
           issue_invoice(id, issuer, payer, amount, currency, issued_by, key, due_at)
    PROVE  /\ id \notin DOMAIN invoices
           /\ IsTable(invoices', InvoiceIds, InvoiceRow)
           /\ DOMAIN invoices' = DOMAIN invoices \cup {id}
           /\ invoices'[id].status = "issued"
           /\ \A i \in DOMAIN invoices : invoices'[i] = invoices[i]
           /\ id \notin audit_logs
           /\ audit_logs' = audit_logs \cup {id}
           /\ UNCHANGED <<accounts, transactions, ledger_entries, economy_limits,
                          permitted, opening>>
  <1> DEFINE row == [issuer |-> issuer, payer |-> payer, amount |-> amount,
                     currency |-> currency, issued_by |-> issued_by,
                     key |-> key, due_at |-> due_at, status |-> "issued"]
  <1>1. row \in InvoiceRow /\ row.status = "issued"
    BY DEF InvoiceRow
  <1>2. id \notin DOMAIN invoices /\ invoices' = Insert(invoices, id, row)
    BY DEF issue_invoice
  <1>3. IsTable(invoices, InvoiceIds, InvoiceRow)
    BY DEF TypeOK
  <1>4. /\ id \notin audit_logs
        /\ audit_logs' = audit_logs \cup {id}
        /\ UNCHANGED <<accounts, transactions, ledger_entries, economy_limits, permitted, opening>>
    BY DEF issue_invoice
  <1>5. /\ IsTable(invoices', InvoiceIds, InvoiceRow)
        /\ DOMAIN invoices' = DOMAIN invoices \cup {id}
        /\ invoices'[id] = row
        /\ \A i \in DOMAIN invoices : invoices'[i] = invoices[i]
    <2> HIDE DEF row
    <2> QED BY <1>1, <1>2, <1>3 DEF IsTable, Insert
  <1> QED BY <1>1, <1>2, <1>4, <1>5

(* The request pay_invoice records for an invoice row.                      *)
PaymentRequest(actor, key, invoice_id) ==
    [type |-> "economy.pay_invoice", actor |-> actor, key |-> key,
     from |-> invoices[invoice_id].payer, to |-> invoices[invoice_id].issuer,
     amount |-> invoices[invoice_id].amount, ref |-> invoice_id]

LEMMA PaymentFacts ==
    ASSUME TypeOK, NEW id \in TransactionIds, NEW actor \in Actors, NEW key \in IdempotencyKeys,
           NEW invoice_id \in InvoiceIds, pay_invoice(id, actor, invoice_id, key)
    PROVE  LET r == PaymentRequest(actor, key, invoice_id) IN
           /\ invoice_id \in DOMAIN invoices
           /\ invoices[invoice_id].status = "issued"
           /\ r \in Request
           /\ r.from \in DOMAIN accounts
           /\ r.to \in DOMAIN accounts
           /\ accounts[r.from].balance >= r.amount
           /\ r.amount > 0
           /\ MoveBalance(r.from, r.to, r.amount)
           /\ PostingStep(id, r, TransferEntries(id, r.from, r.to, r.amount))
           /\ invoices' = [invoices EXCEPT ![invoice_id] = Settled(invoices[invoice_id])]
           /\ UNCHANGED <<economy_limits, permitted, opening>>
  <1> DEFINE r == PaymentRequest(actor, key, invoice_id)
             new == TransferEntries(id, r.from, r.to, r.amount)
  <1>1. invoice_id \in DOMAIN invoices
    BY DEF pay_invoice
  <1>2. invoices[invoice_id] \in InvoiceRow
    BY <1>1 DEF TypeOK, IsTable
  <1>3. /\ r \in Request
        /\ r.key = key
        /\ r.from = invoices[invoice_id].payer
        /\ r.to = invoices[invoice_id].issuer
        /\ r.amount = invoices[invoice_id].amount
        /\ r.from \in Accounts
        /\ r.to \in Accounts
        /\ r.amount \in Int
    BY <1>2 DEF PaymentRequest, Request, InvoiceRow, Reference, TransactionTypes
  <1>4. /\ invoices[invoice_id].status = "issued"
        /\ ~transaction_exists(key)
        /\ Record(id, r)
        /\ ledger_entries' = ledger_entries \cup new
        /\ r.from \in DOMAIN accounts
        /\ r.to \in DOMAIN accounts
        /\ accounts[r.from].balance >= r.amount
        /\ r.amount > 0
        /\ MoveBalance(r.from, r.to, r.amount)
    BY DEF pay_invoice, PaymentRequest, ActiveAccounts, HasFunds, IsPayable
  <1>5. PostingStep(id, r, new)
    <2> HIDE DEF r
    <2> QED BY <1>3, <1>4 DEF PostingStep, TransferEntries, Entry, LedgerEntry
  <1>6. /\ invoices' = [invoices EXCEPT ![invoice_id] = Settled(invoices[invoice_id])]
        /\ UNCHANGED <<economy_limits, permitted, opening>>
    BY DEF pay_invoice
  <1> QED BY <1>1, <1>3, <1>4, <1>5, <1>6

-----------------------------------------------------------------------------
(***************************************************************************)
(* One step, seen from the journal: it posts one transaction or it leaves  *)
(* transactions and entries alone.                                         *)
(***************************************************************************)
Post == \E id \in TransactionIds, r \in Request, new \in SUBSET LedgerEntry : PostingStep(id, r, new)

LEMMA PostOrKeep ==
    ASSUME TypeOK, PositiveEntries, Next
    PROVE  \/ Post /\ DOMAIN invoices' = DOMAIN invoices
           \/ AnyIssue
           \/ UNCHANGED <<transactions, ledger_entries, audit_logs, invoices>>
  <1>0. ASSUME NEW id \in TransactionIds, NEW r \in Request, NEW new, PostingStep(id, r, new),
               UNCHANGED invoices
        PROVE  Post /\ DOMAIN invoices' = DOMAIN invoices
    BY <1>0 DEF Post, PostingStep
  <1>1. CASE AnyCreate
    BY <1>1 DEF AnyCreate, create_account
  <1>2. CASE AnyLimit
    BY <1>2 DEF AnyLimit, upsert_economy_limit
  <1>3. CASE AnyPermissionChange
    BY <1>3 DEF AnyPermissionChange, ChangePermissions
  <1>4. CASE AnyTransfer
    <2>1. PICK id \in TransactionIds, r \in Request :
              r.from \in Accounts /\ r.to \in Accounts /\ post_account_transfer(id, r)
      BY <1>4 DEF AnyTransfer
    <2>2. /\ PostingStep(id, r, TransferEntries(id, r.from, r.to, r.amount))
          /\ UNCHANGED invoices
      BY <2>1, TransferFacts
    <2> QED BY <1>0, <2>2
  <1>5. CASE AnySingle
    <2>1. PICK id \in TransactionIds, type \in SingleAccount, actor \in Actors,
               key \in IdempotencyKeys, account \in Accounts, direction \in {"debit", "credit"},
               amount \in Int :
              post_single_account_transaction(id, type, actor, key, account, direction, amount)
      BY <1>5 DEF AnySingle
    <2>2. /\ SingleRequest(type, actor, key, account, direction, amount) \in Request
          /\ PostingStep(id, SingleRequest(type, actor, key, account, direction, amount),
                         {Entry(id, account, direction, amount)})
          /\ UNCHANGED invoices
      BY <2>1, SingleFacts
    <2> QED BY <1>0, <2>2
  <1>6. CASE AnyVoid
    <2>1. PICK id \in TransactionIds, actor \in Actors, key \in IdempotencyKeys,
               voided \in TransactionIds : void_transaction(id, actor, key, voided)
      BY <1>6 DEF AnyVoid
    <2>2. /\ VoidRequest(actor, key, voided) \in Request
          /\ PostingStep(id, VoidRequest(actor, key, voided), Reversals(id, voided))
          /\ UNCHANGED invoices
      BY <2>1, VoidFacts
    <2> QED BY <1>0, <2>2
  <1>7. CASE AnyIssue
    BY <1>7
  <1>8. CASE AnyPayment
    <2>1. PICK id \in TransactionIds, actor \in Actors, invoice_id \in InvoiceIds,
               key \in IdempotencyKeys : pay_invoice(id, actor, invoice_id, key)
      BY <1>8 DEF AnyPayment
    <2> DEFINE r == PaymentRequest(actor, key, invoice_id)
    <2>2. /\ r \in Request
          /\ PostingStep(id, r, TransferEntries(id, r.from, r.to, r.amount))
          /\ invoices' = [invoices EXCEPT ![invoice_id] = Settled(invoices[invoice_id])]
      BY <2>1, PaymentFacts
    <2> HIDE DEF r
    <2> QED BY <2>2 DEF Post, PostingStep
  <1> QED BY <1>1, <1>2, <1>3, <1>4, <1>5, <1>6, <1>7, <1>8, StepCases

LEMMA IssueKeepsJournal ==
    ASSUME AnyIssue
    PROVE  UNCHANGED <<transactions, ledger_entries>> /\ audit_logs \subseteq audit_logs'
  BY DEF AnyIssue, issue_invoice

(* Entries stay positive.                                                   *)
LEMMA PositiveStep ==
    ASSUME TypeOK, PositiveEntries, Next
    PROVE  PositiveEntries'
  <1>1. CASE Post
    BY <1>1 DEF Post, PostingStep, PositiveEntries
  <1>2. CASE UNCHANGED ledger_entries
    BY <1>2 DEF PositiveEntries
  <1> QED BY <1>1, <1>2, PostOrKeep, IssueKeepsJournal

(* A key that is used is never used again.                                  *)
LEMMA KeyStep ==
    ASSUME TypeOK, PositiveEntries, KeyPostsOnce, Next
    PROVE  KeyPostsOnce'
  <1>1. CASE Post
    <2>1. PICK id \in TransactionIds, r \in Request, new \in SUBSET LedgerEntry :
              PostingStep(id, r, new)
      BY <1>1 DEF Post
    <2>2. /\ DOMAIN transactions' = DOMAIN transactions \cup {id}
          /\ transactions'[id] = r
          /\ \A x \in DOMAIN transactions : transactions'[x] = transactions[x]
      BY <2>1, RecordFacts DEF PostingStep
    <2>3. \A x \in DOMAIN transactions : transactions[x].key # r.key
      BY <2>1 DEF PostingStep, transaction_exists
    <2> QED BY <2>2, <2>3 DEF KeyPostsOnce
  <1>2. CASE UNCHANGED transactions
    BY <1>2 DEF KeyPostsOnce
  <1> QED BY <1>1, <1>2, PostOrKeep, IssueKeepsJournal

(* What is posted stays posted.                                             *)
LEMMA HistoryStep ==
    ASSUME TypeOK, PositiveEntries, Next
    PROVE  /\ ledger_entries \subseteq ledger_entries'
           /\ audit_logs \subseteq audit_logs'
           /\ \A id \in DOMAIN transactions :
                 id \in DOMAIN transactions' /\ transactions'[id] = transactions[id]
  <1>1. CASE Post
    <2>1. PICK id \in TransactionIds, r \in Request, new \in SUBSET LedgerEntry :
              PostingStep(id, r, new)
      BY <1>1 DEF Post
    <2>2. /\ DOMAIN transactions' = DOMAIN transactions \cup {id}
          /\ \A x \in DOMAIN transactions : transactions'[x] = transactions[x]
          /\ audit_logs' = audit_logs \cup {id}
      BY <2>1, RecordFacts DEF PostingStep
    <2> QED BY <2>1, <2>2 DEF PostingStep
  <1>2. CASE UNCHANGED <<transactions, ledger_entries>> /\ audit_logs \subseteq audit_logs'
    BY <1>2
  <1> QED BY <1>1, <1>2, PostOrKeep, IssueKeepsJournal

-----------------------------------------------------------------------------
(***************************************************************************)
(* Type correctness.                                                       *)
(***************************************************************************)

(* A posting that keeps accounts and invoices tables of their rows keeps    *)
(* every table so.                                                          *)
LEMMA PostingTypes ==
    ASSUME TypeOK, NEW id \in TransactionIds, NEW r \in Request, NEW new,
           PostingStep(id, r, new), IsTable(accounts', Accounts, AccountRow),
           IsTable(invoices', InvoiceIds, InvoiceRow),
           UNCHANGED <<economy_limits, permitted, opening>>
    PROVE  TypeOK'
  <1>1. IsTable(transactions', TransactionIds, Request) /\ audit_logs' = audit_logs \cup {id}
    BY RecordFacts DEF PostingStep
  <1>2. ledger_entries' \subseteq LedgerEntry
    BY DEF PostingStep, TypeOK
  <1>3. audit_logs' \subseteq TransactionIds \cup InvoiceIds
    BY <1>1 DEF TypeOK
  <1>4. /\ IsTable(economy_limits', LimitIds, LimitRows)
        /\ permitted' \in [Actors -> SUBSET PermissionKeys]
        /\ opening' \in [Accounts -> Int]
    BY DEF TypeOK
  <1> QED BY <1>1, <1>2, <1>3, <1>4 DEF TypeOK

LEMMA TypeStep ==
    ASSUME TypeOK, PositiveEntries, Next
    PROVE  TypeOK'
  <1>1. CASE AnyCreate
    <2>1. PICK id \in Accounts, o \in OwnerTypes, c \in Currencies, b \in OpeningBalances :
              create_account(id, o, c, b)
      BY <1>1 DEF AnyCreate
    <2> DEFINE row == [owner_type |-> o, currency |-> c, balance |-> b, status |-> "active"]
    <2>2. b \in Int
      BY EconomyAssumption DEF EconomyAssumption
    <2>3. row \in AccountRow
      BY <2>2 DEF AccountRow
    <2>4. accounts' = Insert(accounts, id, row)
      BY <2>1 DEF create_account
    <2>5. IsTable(accounts', Accounts, AccountRow)
      <3> HIDE DEF row
      <3> QED BY <2>3, <2>4 DEF TypeOK, IsTable, Insert
    <2>6. opening' \in [Accounts -> Int]
      BY <2>1, <2>2 DEF create_account, TypeOK
    <2> QED BY <2>1, <2>5, <2>6 DEF create_account, TypeOK
  <1>2. CASE AnyLimit
    <2>1. PICK id \in LimitIds, row \in LimitRows : upsert_economy_limit(id, row)
      BY <1>2 DEF AnyLimit
    <2>2. IsTable(economy_limits', LimitIds, LimitRows)
      BY <2>1 DEF upsert_economy_limit, TypeOK, IsTable, Insert
    <2> QED BY <2>1, <2>2 DEF upsert_economy_limit, TypeOK
  <1>3. CASE AnyPermissionChange
    <2>1. PICK actor \in Actors, keys \in PermissionSets : ChangePermissions(actor, keys)
      BY <1>3 DEF AnyPermissionChange
    <2>2. keys \in SUBSET PermissionKeys
      BY EconomyAssumption DEF EconomyAssumption
    <2>3. permitted' \in [Actors -> SUBSET PermissionKeys]
      BY <2>1, <2>2 DEF ChangePermissions, TypeOK
    <2> QED BY <2>1, <2>3 DEF ChangePermissions, TypeOK
  <1>4. CASE AnyTransfer
    <2>1. PICK id \in TransactionIds, r \in Request :
              r.from \in Accounts /\ r.to \in Accounts /\ post_account_transfer(id, r)
      BY <1>4 DEF AnyTransfer
    <2>2. /\ r.from \in DOMAIN accounts
          /\ r.to \in DOMAIN accounts
          /\ MoveBalance(r.from, r.to, r.amount)
          /\ PostingStep(id, r, TransferEntries(id, r.from, r.to, r.amount))
          /\ UNCHANGED <<invoices, economy_limits, permitted, opening>>
      BY <2>1, TransferFacts
    <2>3. IsTable(accounts', Accounts, AccountRow)
      BY <2>2, MoveBalanceFacts DEF TypeOK, Request
    <2>4. IsTable(invoices', InvoiceIds, InvoiceRow)
      BY <2>2 DEF TypeOK
    <2> QED BY <2>2, <2>3, <2>4, PostingTypes
  <1>5. CASE AnySingle
    <2>1. PICK id \in TransactionIds, type \in SingleAccount, actor \in Actors,
               key \in IdempotencyKeys, account \in Accounts, direction \in {"debit", "credit"},
               amount \in Int :
              post_single_account_transaction(id, type, actor, key, account, direction, amount)
      BY <1>5 DEF AnySingle
    <2> DEFINE r == SingleRequest(type, actor, key, account, direction, amount)
    <2>2. /\ IsTable(accounts', Accounts, AccountRow)
          /\ r \in Request
          /\ PostingStep(id, r, {Entry(id, account, direction, amount)})
          /\ UNCHANGED <<invoices, economy_limits, permitted, opening>>
      BY <2>1, SingleFacts
    <2>3. IsTable(invoices', InvoiceIds, InvoiceRow)
      BY <2>2 DEF TypeOK
    <2> HIDE DEF r
    <2> QED BY <2>2, <2>3, PostingTypes
  <1>6. CASE AnyVoid
    <2>1. PICK id \in TransactionIds, actor \in Actors, key \in IdempotencyKeys,
               voided \in TransactionIds : void_transaction(id, actor, key, voided)
      BY <1>6 DEF AnyVoid
    <2> DEFINE r == VoidRequest(actor, key, voided)
    <2>2. /\ IsTable(accounts', Accounts, AccountRow)
          /\ r \in Request
          /\ PostingStep(id, r, Reversals(id, voided))
          /\ UNCHANGED <<invoices, economy_limits, permitted, opening>>
      BY <2>1, VoidFacts
    <2>3. IsTable(invoices', InvoiceIds, InvoiceRow)
      BY <2>2 DEF TypeOK
    <2> HIDE DEF r
    <2> QED BY <2>2, <2>3, PostingTypes
  <1>7. CASE AnyIssue
    <2>1. PICK id \in InvoiceIds, issuer \in Accounts, payer \in Accounts, amount \in Int,
               currency \in Currencies, issued_by \in Actors, key \in IdempotencyKeys,
               due_at \in DueDates \cup {None} :
              issue_invoice(id, issuer, payer, amount, currency, issued_by, key, due_at)
      BY <1>7 DEF AnyIssue
    <2>2. /\ IsTable(invoices', InvoiceIds, InvoiceRow)
          /\ audit_logs' = audit_logs \cup {id}
          /\ UNCHANGED <<accounts, transactions, ledger_entries, economy_limits,
                         permitted, opening>>
      BY <2>1, IssueFacts
    <2> QED BY <2>2 DEF TypeOK
  <1>8. CASE AnyPayment
    <2>1. PICK id \in TransactionIds, actor \in Actors, invoice_id \in InvoiceIds,
               key \in IdempotencyKeys : pay_invoice(id, actor, invoice_id, key)
      BY <1>8 DEF AnyPayment
    <2> DEFINE r == PaymentRequest(actor, key, invoice_id)
    <2>2. /\ invoice_id \in DOMAIN invoices
          /\ r \in Request
          /\ r.from \in DOMAIN accounts
          /\ r.to \in DOMAIN accounts
          /\ MoveBalance(r.from, r.to, r.amount)
          /\ PostingStep(id, r, TransferEntries(id, r.from, r.to, r.amount))
          /\ invoices' = [invoices EXCEPT ![invoice_id] = Settled(invoices[invoice_id])]
          /\ UNCHANGED <<economy_limits, permitted, opening>>
      BY <2>1, PaymentFacts
    <2>3. invoices[invoice_id] \in InvoiceRow
      BY <2>2 DEF TypeOK, IsTable
    <2>4. Settled(invoices[invoice_id]) \in InvoiceRow
      BY <2>3 DEF Settled, InvoiceRow
    <2>5. IsTable(invoices', InvoiceIds, InvoiceRow)
      BY <2>2, <2>4 DEF TypeOK, IsTable
    <2> HIDE DEF r
    <2>6. r.amount \in Int
      BY <2>2 DEF Request
    <2>7. IsTable(accounts', Accounts, AccountRow)
      BY <2>2, <2>6, MoveBalanceFacts DEF TypeOK
    <2> QED BY <2>2, <2>5, <2>7, PostingTypes
  <1> QED BY <1>1, <1>2, <1>3, <1>4, <1>5, <1>6, <1>7, <1>8, StepCases

-----------------------------------------------------------------------------
(***************************************************************************)
(* Balances.                                                               *)
(***************************************************************************)

(* No step overdraws an account.  A void subtracts from an account only the *)
(* amount of a reversal that was compared with its balance.                 *)
LEMMA BalanceStep ==
    ASSUME TypeOK, PositiveEntries, NonNegativeBalances, Next
    PROVE  NonNegativeBalances'
  <1>0. \A a \in DOMAIN accounts : accounts[a].balance \in Int /\ accounts[a].balance >= 0
    BY DEF TypeOK, IsTable, AccountRow, NonNegativeBalances
  <1>1. CASE AnyCreate
    <2>1. PICK id \in Accounts, o \in OwnerTypes, c \in Currencies, b \in OpeningBalances :
              create_account(id, o, c, b)
      BY <1>1 DEF AnyCreate
    <2> DEFINE row == [owner_type |-> o, currency |-> c, balance |-> b, status |-> "active"]
    <2>2. row.balance >= 0 /\ accounts' = Insert(accounts, id, row)
      BY <2>1 DEF create_account
    <2> HIDE DEF row
    <2> QED BY <2>2 DEF NonNegativeBalances, Insert
  <1>2. CASE UNCHANGED accounts
    BY <1>2 DEF NonNegativeBalances
  <1>3. ASSUME NEW from \in DOMAIN accounts, NEW to \in DOMAIN accounts, NEW amount \in Int,
               amount > 0, accounts[from].balance >= amount, MoveBalance(from, to, amount)
        PROVE  NonNegativeBalances'
    <2>1. /\ DOMAIN accounts' = DOMAIN accounts
          /\ accounts'[to].balance = accounts[to].balance + amount
          /\ from # to => accounts'[from].balance = accounts[from].balance - amount
          /\ \A a \in DOMAIN accounts : a \notin {from, to} => accounts'[a] = accounts[a]
      BY <1>3, MoveBalanceFacts DEF TypeOK
    <2> QED BY <1>0, <1>3, <2>1 DEF NonNegativeBalances
  <1>4. CASE AnyTransfer
    <2>1. PICK id \in TransactionIds, r \in Request :
              r.from \in Accounts /\ r.to \in Accounts /\ post_account_transfer(id, r)
      BY <1>4 DEF AnyTransfer
    <2>2. r.amount \in Int
      BY DEF Request
    <2> QED BY <1>3, <2>1, <2>2, TransferFacts
  <1>5. CASE AnySingle
    <2>1. PICK id \in TransactionIds, type \in SingleAccount, actor \in Actors,
               key \in IdempotencyKeys, account \in Accounts, direction \in {"debit", "credit"},
               amount \in Int :
              post_single_account_transaction(id, type, actor, key, account, direction, amount)
      BY <1>5 DEF AnySingle
    <2>2. amount > 0
      BY <2>1 DEF post_single_account_transaction
    <2>3. SingleMove(account, SignedAmount(direction, amount))
      BY <2>1, SingleFacts
    <2>4. /\ account \in DOMAIN accounts
          /\ DOMAIN accounts' = DOMAIN accounts
          /\ accounts'[account].balance = accounts[account].balance + SignedAmount(direction, amount)
          /\ \A a \in DOMAIN accounts : a # account => accounts'[a] = accounts[a]
      BY <2>3 DEF SingleMove
    <2>5. direction = "debit" => accounts[account].balance >= amount
      BY <2>1 DEF post_single_account_transaction, HasFunds
    <2> QED BY <1>0, <2>2, <2>4, <2>5 DEF NonNegativeBalances, SignedAmount
  <1>6. CASE AnyVoid
    <2>1. PICK id \in TransactionIds, actor \in Actors, key \in IdempotencyKeys,
               voided \in TransactionIds : void_transaction(id, actor, key, voided)
      BY <1>6 DEF AnyVoid
    <2> DEFINE reversals == Reversals(id, voided)
    <2>2. /\ DOMAIN accounts' = DOMAIN accounts
          /\ \A a \in DOMAIN accounts :
                accounts'[a].balance = accounts[a].balance + NetOf(reversals, a)
          /\ \A e \in reversals : e.direction = "debit" => accounts[e.account].balance >= e.amount
          /\ reversals \in SUBSET LedgerEntry
          /\ \A e \in reversals : e.amount > 0
      BY <2>1, VoidFacts DEF PostingStep
    <2> HIDE DEF reversals
    <2>3. ASSUME NEW a \in DOMAIN accounts
          PROVE  accounts[a].balance + NetOf(reversals, a) >= 0
      <3> DEFINE c == Posted(reversals, a, "credit")
                 d == Posted(reversals, a, "debit")
                 bal == accounts[a].balance
      <3>1. c \in Nat /\ d \in Nat /\ bal \in Nat
        BY <1>0, <2>2, PostedFacts
      <3>2. d = 0 \/ bal >= d
        BY <2>2, PostedFacts
      <3>3. NetOf(reversals, a) = c - d
        BY DEF NetOf
      <3> HIDE DEF c, d, bal
      <3>4. bal + (c - d) >= 0
        BY <3>1, <3>2
      <3> QED BY <3>3, <3>4 DEF bal
    <2> QED BY <2>2, <2>3 DEF NonNegativeBalances
  <1>7. CASE AnyPayment
    <2>1. PICK id \in TransactionIds, actor \in Actors, invoice_id \in InvoiceIds,
               key \in IdempotencyKeys : pay_invoice(id, actor, invoice_id, key)
      BY <1>7 DEF AnyPayment
    <2> DEFINE r == PaymentRequest(actor, key, invoice_id)
    <2>2. /\ r \in Request
          /\ r.from \in DOMAIN accounts
          /\ r.to \in DOMAIN accounts
          /\ accounts[r.from].balance >= r.amount
          /\ r.amount > 0
          /\ MoveBalance(r.from, r.to, r.amount)
      BY <2>1, PaymentFacts
    <2> HIDE DEF r
    <2>3. r.amount \in Int
      BY <2>2 DEF Request
    <2> QED BY <1>3, <2>2, <2>3
  <1>8. AnyLimit => UNCHANGED accounts
    BY DEF AnyLimit, upsert_economy_limit
  <1>9. AnyPermissionChange => UNCHANGED accounts
    BY DEF AnyPermissionChange, ChangePermissions
  <1>10. AnyIssue => UNCHANGED accounts
    BY DEF AnyIssue, issue_invoice
  <1> QED BY <1>1, <1>2, <1>4, <1>5, <1>6, <1>7, <1>8, <1>9, <1>10, StepCases

-----------------------------------------------------------------------------
(***************************************************************************)
(* Audit rows, voids and invoices.                                         *)
(***************************************************************************)

(* A posting and an issued invoice each take a fresh audit id.              *)
LEMMA AuditStep ==
    ASSUME TypeOK, PositiveEntries, AuditComplete, Next
    PROVE  AuditComplete'
  <1>1. CASE Post /\ DOMAIN invoices' = DOMAIN invoices
    <2>1. PICK id \in TransactionIds, r \in Request, new \in SUBSET LedgerEntry :
              PostingStep(id, r, new)
      BY <1>1 DEF Post
    <2>2. /\ DOMAIN transactions' = DOMAIN transactions \cup {id}
          /\ id \notin audit_logs
          /\ audit_logs' = audit_logs \cup {id}
      BY <2>1, RecordFacts DEF PostingStep
    <2> QED BY <1>1, <2>2 DEF AuditComplete
  <1>2. CASE AnyIssue
    <2>1. PICK id \in InvoiceIds, issuer \in Accounts, payer \in Accounts, amount \in Int,
               currency \in Currencies, issued_by \in Actors, key \in IdempotencyKeys,
               due_at \in DueDates \cup {None} :
              issue_invoice(id, issuer, payer, amount, currency, issued_by, key, due_at)
      BY <1>2 DEF AnyIssue
    <2>2. /\ DOMAIN invoices' = DOMAIN invoices \cup {id}
          /\ id \notin audit_logs
          /\ audit_logs' = audit_logs \cup {id}
          /\ UNCHANGED transactions
      BY <2>1, IssueFacts
    <2> QED BY <2>2 DEF AuditComplete
  <1>3. CASE UNCHANGED <<transactions, ledger_entries, audit_logs, invoices>>
    BY <1>3 DEF AuditComplete
  <1> QED BY <1>1, <1>2, <1>3, PostOrKeep

(* A step that posts, pays or voids nothing special: the invoices are left  *)
(* alone and what is posted is neither a payment nor a void.                *)
OrdinaryPost ==
    \E id \in TransactionIds, r \in Request, new \in SUBSET LedgerEntry :
        /\ r.type \notin {"economy.pay_invoice", "economy.void_transaction"}
        /\ PostingStep(id, r, new)
        /\ UNCHANGED invoices

LEMMA StepKinds ==
    ASSUME TypeOK, PositiveEntries, Next
    PROVE  \/ OrdinaryPost \/ AnyVoid \/ AnyIssue \/ AnyPayment
           \/ UNCHANGED <<transactions, ledger_entries, audit_logs, invoices>>
  <1>1. CASE AnyTransfer
    <2>1. PICK id \in TransactionIds, r \in Request :
              /\ r.type \in ReasonedTransfers \cup ItemTransfers
              /\ r.from \in Accounts
              /\ r.to \in Accounts
              /\ post_account_transfer(id, r)
      BY <1>1 DEF AnyTransfer
    <2> DEFINE new == TransferEntries(id, r.from, r.to, r.amount)
    <2>2. PostingStep(id, r, new) /\ UNCHANGED invoices
      BY <2>1, TransferFacts
    <2>3. new \in SUBSET LedgerEntry
      BY <2>2 DEF PostingStep
    <2>4. r.type \notin {"economy.pay_invoice", "economy.void_transaction"}
      BY <2>1 DEF ReasonedTransfers, ItemTransfers
    <2> HIDE DEF new
    <2> QED BY <2>2, <2>3, <2>4 DEF OrdinaryPost
  <1>2. CASE AnySingle
    <2>1. PICK id \in TransactionIds, type \in SingleAccount, actor \in Actors,
               key \in IdempotencyKeys, account \in Accounts, direction \in {"debit", "credit"},
               amount \in Int :
              post_single_account_transaction(id, type, actor, key, account, direction, amount)
      BY <1>2 DEF AnySingle
    <2> DEFINE r == SingleRequest(type, actor, key, account, direction, amount)
               new == {Entry(id, account, direction, amount)}
    <2>2. r \in Request /\ PostingStep(id, r, new) /\ UNCHANGED invoices
      BY <2>1, SingleFacts
    <2>3. new \in SUBSET LedgerEntry
      BY <2>2 DEF PostingStep
    <2>4. r.type \notin {"economy.pay_invoice", "economy.void_transaction"}
      BY DEF SingleRequest, SingleAccount
    <2> HIDE DEF new, r
    <2> QED BY <2>2, <2>3, <2>4 DEF OrdinaryPost
  <1>3. CASE AnyCreate
    BY <1>3 DEF AnyCreate, create_account
  <1>4. CASE AnyLimit
    BY <1>4 DEF AnyLimit, upsert_economy_limit
  <1>5. CASE AnyPermissionChange
    BY <1>5 DEF AnyPermissionChange, ChangePermissions
  <1> QED BY <1>1, <1>2, <1>3, <1>4, <1>5, StepCases

(* What an ordinary posting, a void, an issue and a payment do to the       *)
(* transactions and the invoices.                                           *)
LEMMA PostedRow ==
    ASSUME TypeOK, NEW id \in TransactionIds, NEW r \in Request, NEW new, PostingStep(id, r, new)
    PROVE  /\ id \notin DOMAIN transactions
           /\ DOMAIN transactions' = DOMAIN transactions \cup {id}
           /\ transactions'[id] = r
           /\ \A x \in DOMAIN transactions : transactions'[x] = transactions[x]
  BY RecordFacts DEF PostingStep

(* A void finds no earlier void of the same transaction.                    *)
LEMMA VoidedStep ==
    ASSUME TypeOK, PositiveEntries, VoidedAtMostOnce, Next
    PROVE  VoidedAtMostOnce'
  <1>1. ASSUME NEW id \in TransactionIds, NEW r \in Request, NEW new, PostingStep(id, r, new),
               r.type # "economy.void_transaction"
        PROVE  VoidedAtMostOnce'
    <2>1. /\ id \notin DOMAIN transactions
          /\ DOMAIN transactions' = DOMAIN transactions \cup {id}
          /\ transactions'[id] = r
          /\ \A x \in DOMAIN transactions : transactions'[x] = transactions[x]
      BY <1>1, PostedRow
    <2> QED BY <1>1, <2>1 DEF VoidedAtMostOnce
  <1>2. CASE OrdinaryPost
    BY <1>1, <1>2 DEF OrdinaryPost
  <1>3. CASE AnyVoid
    <2>1. PICK id \in TransactionIds, actor \in Actors, key \in IdempotencyKeys,
               voided \in TransactionIds : void_transaction(id, actor, key, voided)
      BY <1>3 DEF AnyVoid
    <2> DEFINE r == VoidRequest(actor, key, voided)
    <2>2. /\ ~IsVoided(voided)
          /\ voided \in DOMAIN transactions
          /\ r \in Request
          /\ PostingStep(id, r, Reversals(id, voided))
      BY <2>1, VoidFacts
    <2>3. r.ref = voided
      BY DEF VoidRequest
    <2> HIDE DEF r
    <2>4. /\ id \notin DOMAIN transactions
          /\ DOMAIN transactions' = DOMAIN transactions \cup {id}
          /\ transactions'[id] = r
          /\ \A x \in DOMAIN transactions : transactions'[x] = transactions[x]
      BY <2>2, PostedRow
    <2>5. \A x \in DOMAIN transactions :
              transactions[x].type = "economy.void_transaction" => transactions[x].ref # voided
      BY <2>2 DEF IsVoided
    <2> QED BY <2>2, <2>3, <2>4, <2>5 DEF VoidedAtMostOnce
  <1>4. CASE AnyPayment
    <2>1. PICK id \in TransactionIds, actor \in Actors, invoice_id \in InvoiceIds,
               key \in IdempotencyKeys : pay_invoice(id, actor, invoice_id, key)
      BY <1>4 DEF AnyPayment
    <2> DEFINE r == PaymentRequest(actor, key, invoice_id)
    <2>2. /\ r \in Request
          /\ PostingStep(id, r, TransferEntries(id, r.from, r.to, r.amount))
      BY <2>1, PaymentFacts
    <2>3. r.type # "economy.void_transaction"
      BY DEF PaymentRequest
    <2> HIDE DEF r
    <2> QED BY <1>1, <2>2, <2>3
  <1>5. CASE UNCHANGED transactions
    BY <1>5 DEF VoidedAtMostOnce
  <1> QED BY <1>2, <1>3, <1>4, <1>5, StepKinds, IssueKeepsJournal

(* Only a payment of an issued invoice marks it paid, and only once.        *)
LEMMA PaidStep ==
    ASSUME TypeOK, PositiveEntries, InvoicePaidOnce, Next
    PROVE  InvoicePaidOnce'
  <1>1. ASSUME NEW id \in TransactionIds, NEW r \in Request, NEW new, PostingStep(id, r, new),
               r.type # "economy.pay_invoice", UNCHANGED invoices
        PROVE  InvoicePaidOnce'
    <2>1. /\ id \notin DOMAIN transactions
          /\ DOMAIN transactions' = DOMAIN transactions \cup {id}
          /\ transactions'[id] = r
          /\ \A x \in DOMAIN transactions : transactions'[x] = transactions[x]
      BY <1>1, PostedRow
    <2>2. \A i : PaymentsOf(i)' = PaymentsOf(i)
      BY <1>1, <2>1 DEF PaymentsOf
    <2>3. \A i, s : s \in PaymentsOf(i) => s \in DOMAIN transactions
      BY DEF PaymentsOf
    <2> QED BY <1>1, <2>1, <2>2, <2>3 DEF InvoicePaidOnce
  <1>2. CASE OrdinaryPost
    BY <1>1, <1>2 DEF OrdinaryPost
  <1>3. CASE AnyVoid
    <2>1. PICK id \in TransactionIds, actor \in Actors, key \in IdempotencyKeys,
               voided \in TransactionIds : void_transaction(id, actor, key, voided)
      BY <1>3 DEF AnyVoid
    <2> DEFINE r == VoidRequest(actor, key, voided)
    <2>2. r \in Request /\ PostingStep(id, r, Reversals(id, voided)) /\ UNCHANGED invoices
      BY <2>1, VoidFacts
    <2>3. r.type # "economy.pay_invoice"
      BY DEF VoidRequest
    <2> HIDE DEF r
    <2> QED BY <1>1, <2>2, <2>3
  <1>4. CASE AnyIssue
    <2>1. PICK id \in InvoiceIds, issuer \in Accounts, payer \in Accounts, amount \in Int,
               currency \in Currencies, issued_by \in Actors, key \in IdempotencyKeys,
               due_at \in DueDates \cup {None} :
              issue_invoice(id, issuer, payer, amount, currency, issued_by, key, due_at)
      BY <1>4 DEF AnyIssue
    <2>2. /\ id \notin DOMAIN invoices
          /\ DOMAIN invoices' = DOMAIN invoices \cup {id}
          /\ invoices'[id].status = "issued"
          /\ \A i \in DOMAIN invoices : invoices'[i] = invoices[i]
          /\ UNCHANGED transactions
      BY <2>1, IssueFacts
    <2>3. \A i : PaymentsOf(i)' = PaymentsOf(i)
      BY <2>2 DEF PaymentsOf
    <2>4. PaymentsOf(id) = {}
      BY <2>2 DEF InvoicePaidOnce
    <2> QED BY <2>2, <2>3, <2>4 DEF InvoicePaidOnce
  <1>5. CASE AnyPayment
    <2>1. PICK id \in TransactionIds, actor \in Actors, invoice_id \in InvoiceIds,
               key \in IdempotencyKeys : pay_invoice(id, actor, invoice_id, key)
      BY <1>5 DEF AnyPayment
    <2> DEFINE r == PaymentRequest(actor, key, invoice_id)
               invoice == invoices[invoice_id]
    <2>2. /\ invoice_id \in DOMAIN invoices
          /\ invoice.status = "issued"
          /\ r \in Request
          /\ PostingStep(id, r, TransferEntries(id, r.from, r.to, r.amount))
          /\ invoices' = [invoices EXCEPT ![invoice_id] = Settled(invoice)]
      BY <2>1, PaymentFacts
    <2>3. /\ r.type = "economy.pay_invoice"
          /\ r.ref = invoice_id
          /\ r.from = invoice.payer
          /\ r.to = invoice.issuer
          /\ r.amount = invoice.amount
      BY DEF PaymentRequest
    <2> HIDE DEF r
    <2>4. /\ id \notin DOMAIN transactions
          /\ DOMAIN transactions' = DOMAIN transactions \cup {id}
          /\ transactions'[id] = r
          /\ \A x \in DOMAIN transactions : transactions'[x] = transactions[x]
      BY <2>2, PostedRow
    <2>5. PaymentsOf(invoice_id) = {}
      BY <2>2 DEF InvoicePaidOnce
    <2>6. PaymentsOf(invoice_id)' = {id}
      BY <2>3, <2>4, <2>5 DEF PaymentsOf
    <2>7. \A i : i # invoice_id => PaymentsOf(i)' = PaymentsOf(i)
      BY <2>3, <2>4 DEF PaymentsOf
    <2>8. invoice \in InvoiceRow
      BY <2>2 DEF TypeOK, IsTable
    <2>9. /\ Settled(invoice).status = "paid"
          /\ Settled(invoice).payer = invoice.payer
          /\ Settled(invoice).issuer = invoice.issuer
          /\ Settled(invoice).amount = invoice.amount
      BY <2>8 DEF Settled, InvoiceRow
    <2> HIDE DEF invoice
    <2>10. /\ DOMAIN invoices' = DOMAIN invoices
           /\ invoices'[invoice_id] = Settled(invoice)
           /\ \A i \in DOMAIN invoices : i # invoice_id => invoices'[i] = invoices[i]
      BY <2>2
    <2>11. \A i, s : s \in PaymentsOf(i) => s \in DOMAIN transactions
      BY DEF PaymentsOf
    <2>12. ASSUME NEW i \in DOMAIN invoices
           PROVE  /\ (invoices'[i].status = "paid") <=> (PaymentsOf(i)' # {})
                  /\ \A s, t \in PaymentsOf(i)' : s = t
                  /\ \A s \in PaymentsOf(i)' :
                        /\ transactions'[s].from = invoices'[i].payer
                        /\ transactions'[s].to = invoices'[i].issuer
                        /\ transactions'[s].amount = invoices'[i].amount
      <3>1. CASE i = invoice_id
        BY <2>3, <2>4, <2>6, <2>9, <2>10, <3>1
      <3>2. CASE i # invoice_id
        BY <2>4, <2>7, <2>10, <2>11, <3>2 DEF InvoicePaidOnce
      <3> QED BY <3>1, <3>2
    <2>13. \A i \in InvoiceIds \ DOMAIN invoices : PaymentsOf(i)' = {}
      BY <2>2, <2>7 DEF InvoicePaidOnce
    <2> QED BY <2>10, <2>12, <2>13 DEF InvoicePaidOnce
  <1>6. CASE UNCHANGED <<transactions, invoices>>
    BY <1>6 DEF InvoicePaidOnce, PaymentsOf
  <1> QED BY <1>2, <1>3, <1>4, <1>5, <1>6, StepKinds

-----------------------------------------------------------------------------
(***************************************************************************)
(* Entries and their transactions.                                         *)
(***************************************************************************)

(* A posting leaves the entries of every earlier transaction as they were,  *)
(* and its own entries are exactly the new ones.                            *)
LEMMA PostedEntries ==
    ASSUME TypeOK, BalancedPostings, NEW id \in TransactionIds, NEW r \in Request, NEW new,
           PostingStep(id, r, new)
    PROVE  /\ EntriesOf(id)' = new
           /\ \A x \in DOMAIN transactions : EntriesOf(x)' = EntriesOf(x)
  <1>1. \A e \in ledger_entries : e.tx \in DOMAIN transactions
    BY DEF BalancedPostings
  <1>2. ledger_entries' = ledger_entries \cup new /\ \A e \in new : e.tx = id
    BY DEF PostingStep
  <1>3. id \notin DOMAIN transactions
    BY PostedRow
  <1> QED BY <1>1, <1>2, <1>3 DEF EntriesOf

(* Every earlier transaction still matches its entries, so a posting need   *)
(* only match its own.                                                      *)
LEMMA PostedMatches ==
    ASSUME TypeOK, BalancedPostings, VoidedAtMostOnce, NEW id \in TransactionIds,
           NEW r \in Request, NEW new, PostingStep(id, r, new), EntriesMatchTransaction(id)'
    PROVE  BalancedPostings'
  <1>1. /\ id \notin DOMAIN transactions
        /\ DOMAIN transactions' = DOMAIN transactions \cup {id}
        /\ \A x \in DOMAIN transactions : transactions'[x] = transactions[x]
    BY PostedRow
  <1>2. \A x \in DOMAIN transactions : EntriesOf(x)' = EntriesOf(x)
    BY PostedEntries
  <1>3. ASSUME NEW x \in DOMAIN transactions
        PROVE  EntriesMatchTransaction(x)'
    <2> DEFINE t == transactions[x]
               mine == {e \in ledger_entries : e.tx = x}
               voided == {e \in ledger_entries : e.tx = t.ref}
               voidedAfter == {e \in ledger_entries' : e.tx = t.ref}
    <2>1. EntriesMatch(x, t, mine, voided)
      BY DEF BalancedPostings, EntriesMatchTransaction, EntriesOf
    <2>2. {e \in ledger_entries' : e.tx = x} = mine
      BY <1>2 DEF EntriesOf
    <2>3. EntriesMatch(x, t, mine, voidedAfter)
      <3>1. CASE t.type = "economy.void_transaction"
        <4>1. PICK y \in DOMAIN transactions : y = t.ref
          BY <3>1 DEF VoidedAtMostOnce
        <4>2. {e \in ledger_entries' : e.tx = y} = {e \in ledger_entries : e.tx = y}
          BY <1>2, <4>1 DEF EntriesOf
        <4>3. voidedAfter = voided
          BY <4>1, <4>2
        <4> HIDE DEF t, mine, voided, voidedAfter
        <4> QED BY <2>1, <4>3
      <3>2. CASE t.type # "economy.void_transaction"
        <4> HIDE DEF t, mine, voided, voidedAfter
        <4> QED BY <2>1, <3>2 DEF EntriesMatch
      <3> QED BY <3>1, <3>2
    <2>4. EntriesMatchTransaction(x)' <=> EntriesMatch(x, t, mine, voidedAfter)
      BY <1>1, <2>2 DEF EntriesMatchTransaction, EntriesOf
    <2> QED BY <2>3, <2>4
  <1>4. \A e \in ledger_entries' : e.tx \in DOMAIN transactions'
    BY <1>1 DEF PostingStep, BalancedPostings
  <1> QED BY <1>1, <1>3, <1>4 DEF BalancedPostings

(* The entries of a posting are those its type promises.                    *)
LEMMA BalancedStep ==
    ASSUME TypeOK, PositiveEntries, BalancedPostings, VoidedAtMostOnce, Next
    PROVE  BalancedPostings'
  <1>1. ASSUME NEW id \in TransactionIds, NEW r \in Request,
               r.type \in ReasonedTransfers \cup ItemTransfers \cup {"economy.pay_invoice"},
               PostingStep(id, r, TransferEntries(id, r.from, r.to, r.amount))
        PROVE  BalancedPostings'
    <2> DEFINE new == TransferEntries(id, r.from, r.to, r.amount)
    <2>1. EntriesOf(id)' = new
      BY <1>1, PostedEntries
    <2>2. transactions'[id] = r
      BY <1>1, PostedRow
    <2>3. r.type \notin SingleAccount \cup {"economy.void_transaction"}
      BY <1>1 DEF SingleAccount, ReasonedTransfers, ItemTransfers
    <2>4. \A voided : EntriesMatch(id, r, new, voided)
      BY <2>3 DEF EntriesMatch
    <2>5. EntriesMatchTransaction(id)'
      BY <2>1, <2>2, <2>4 DEF EntriesMatchTransaction, EntriesOf
    <2> QED BY <1>1, <2>5, PostedMatches
  <1>2. CASE AnyTransfer
    <2>1. PICK id \in TransactionIds, r \in Request :
              /\ r.type \in ReasonedTransfers \cup ItemTransfers
              /\ r.from \in Accounts
              /\ r.to \in Accounts
              /\ post_account_transfer(id, r)
      BY <1>2 DEF AnyTransfer
    <2>2. PostingStep(id, r, TransferEntries(id, r.from, r.to, r.amount))
      BY <2>1, TransferFacts
    <2> QED BY <1>1, <2>1, <2>2
  <1>3. CASE AnySingle
    <2>1. PICK id \in TransactionIds, type \in SingleAccount, actor \in Actors,
               key \in IdempotencyKeys, account \in Accounts, direction \in {"debit", "credit"},
               amount \in Int :
              post_single_account_transaction(id, type, actor, key, account, direction, amount)
      BY <1>3 DEF AnySingle
    <2> DEFINE r == SingleRequest(type, actor, key, account, direction, amount)
               new == {Entry(id, account, direction, amount)}
    <2>2. r \in Request /\ PostingStep(id, r, new)
      BY <2>1, SingleFacts
    <2>3. \A voided : EntriesMatch(id, r, new, voided)
      <3>1. /\ r.type \in SingleAccount
            /\ account = (IF direction = "debit" THEN r.from ELSE r.to)
            /\ r.amount = amount
        BY DEF SingleRequest
      <3>2. new = {Entry(id, account, direction, r.amount)}
        BY <3>1
      <3> HIDE DEF r, new
      <3>3. \E d \in {"debit", "credit"}, a \in Accounts :
               a = (IF d = "debit" THEN r.from ELSE r.to) /\ new = {Entry(id, a, d, r.amount)}
        BY <3>1, <3>2
      <3>4. r.type # "economy.void_transaction"
        BY <3>1 DEF SingleAccount
      <3> QED BY <3>1, <3>3, <3>4 DEF EntriesMatch
    <2> HIDE DEF r, new
    <2>4. EntriesOf(id)' = new
      BY <2>2, PostedEntries
    <2>5. transactions'[id] = r
      BY <2>2, PostedRow
    <2>6. EntriesMatchTransaction(id)'
      BY <2>3, <2>4, <2>5 DEF EntriesMatchTransaction, EntriesOf
    <2> QED BY <2>2, <2>6, PostedMatches
  <1>4. CASE AnyVoid
    <2>1. PICK id \in TransactionIds, actor \in Actors, key \in IdempotencyKeys,
               voided \in TransactionIds : void_transaction(id, actor, key, voided)
      BY <1>4 DEF AnyVoid
    <2> DEFINE r == VoidRequest(actor, key, voided)
               new == Reversals(id, voided)
               old == {e \in ledger_entries : e.tx = voided}
    <2>2. r \in Request /\ PostingStep(id, r, new) /\ voided \in DOMAIN transactions
      BY <2>1, VoidFacts
    <2>3. r.type = "economy.void_transaction" /\ r.ref = voided
      BY DEF VoidRequest
    <2>4. \A e \in old : e \in LedgerEntry
      BY DEF TypeOK
    <2>5. new = {Entry(id, e.account, reverse_ledger_direction(e.direction), e.amount) : e \in old}
      BY DEF Reversals, EntriesOf
    <2>6. Mirrors(new, old) /\ Mirrors(old, new)
      <3> HIDE DEF old, new
      <3>1. \A e \in old :
              LET m == Entry(id, e.account, reverse_ledger_direction(e.direction), e.amount) IN
              /\ m \in new
              /\ m.account = e.account
              /\ m.amount = e.amount
              /\ m.direction # e.direction
        BY <2>4, <2>5 DEF Entry, LedgerEntry, reverse_ledger_direction
      <3>2. \A m \in new : \E e \in old :
              m = Entry(id, e.account, reverse_ledger_direction(e.direction), e.amount)
        BY <2>5
      <3> QED BY <3>1, <3>2 DEF Mirrors
    <2>7. new # {}
      BY <2>2 DEF PostingStep
    <2>8. {e \in ledger_entries' : e.tx = voided} = old
      BY <2>2, PostedEntries DEF EntriesOf
    <2>9. {e \in ledger_entries' : e.tx = id} = new
      BY <2>2, PostedEntries DEF EntriesOf
    <2> HIDE DEF r, new, old
    <2>10. transactions'[id] = r
      BY <2>2, PostedRow
    <2>11. EntriesMatch(id, r, new, old)
      <3>1. r.type \notin SingleAccount
        BY <2>3 DEF SingleAccount
      <3> QED BY <2>3, <2>6, <2>7, <3>1 DEF EntriesMatch
    <2>12. EntriesMatchTransaction(id)'
      BY <2>3, <2>8, <2>9, <2>10, <2>11 DEF EntriesMatchTransaction, EntriesOf
    <2> QED BY <2>2, <2>12, PostedMatches
  <1>5. CASE AnyPayment
    <2>1. PICK id \in TransactionIds, actor \in Actors, invoice_id \in InvoiceIds,
               key \in IdempotencyKeys : pay_invoice(id, actor, invoice_id, key)
      BY <1>5 DEF AnyPayment
    <2> DEFINE r == PaymentRequest(actor, key, invoice_id)
    <2>2. /\ r \in Request
          /\ PostingStep(id, r, TransferEntries(id, r.from, r.to, r.amount))
      BY <2>1, PaymentFacts
    <2>3. r.type = "economy.pay_invoice"
      BY DEF PaymentRequest
    <2> HIDE DEF r
    <2> QED BY <1>1, <2>2, <2>3
  <1>6. CASE UNCHANGED <<transactions, ledger_entries>>
    BY <1>6 DEF BalancedPostings, EntriesMatchTransaction, EntriesOf
  <1>7. AnyCreate => UNCHANGED <<transactions, ledger_entries>>
    BY DEF AnyCreate, create_account
  <1>8. AnyLimit => UNCHANGED <<transactions, ledger_entries>>
    BY DEF AnyLimit, upsert_economy_limit
  <1>9. AnyPermissionChange => UNCHANGED <<transactions, ledger_entries>>
    BY DEF AnyPermissionChange, ChangePermissions
  <1> QED BY <1>2, <1>3, <1>4, <1>5, <1>6, <1>7, <1>8, <1>9, StepCases, IssueKeepsJournal

-----------------------------------------------------------------------------
(***************************************************************************)
(* The inductive invariant and the theorems.                               *)
(***************************************************************************)

LEMMA InitIInv == Init => IInv
  <1> SUFFICES ASSUME Init PROVE IInv
    OBVIOUS
  <1>1. TypeOK
    <2>1. \A ids, rows : IsTable(EmptyTable, ids, rows)
      BY DEF IsTable, EmptyTable
    <2> QED BY <2>1 DEF Init, TypeOK
  <1>2. /\ DOMAIN accounts = {}
        /\ DOMAIN transactions = {}
        /\ DOMAIN invoices = {}
        /\ ledger_entries = {}
        /\ audit_logs = {}
    BY DEF Init, EmptyTable
  <1>3. \A i : PaymentsOf(i) = {}
    BY <1>2 DEF PaymentsOf
  <1> QED BY <1>1, <1>2, <1>3 DEF IInv, PositiveEntries, NonNegativeBalances, KeyPostsOnce,
             VoidedAtMostOnce, InvoicePaidOnce, BalancedPostings, AuditComplete

LEMMA NextIInv == IInv /\ [Next]_vars => IInv'
  <1> SUFFICES ASSUME IInv, [Next]_vars PROVE IInv'
    OBVIOUS
  <1> USE DEF IInv
  <1>1. CASE Next
    <2>1. TypeOK'
      BY <1>1, TypeStep
    <2>2. PositiveEntries'
      BY <1>1, PositiveStep
    <2>3. NonNegativeBalances'
      BY <1>1, BalanceStep
    <2>4. KeyPostsOnce'
      BY <1>1, KeyStep
    <2>5. VoidedAtMostOnce'
      BY <1>1, VoidedStep
    <2>6. InvoicePaidOnce'
      BY <1>1, PaidStep
    <2>7. BalancedPostings'
      BY <1>1, BalancedStep
    <2>8. AuditComplete'
      BY <1>1, AuditStep
    <2> QED BY <2>1, <2>2, <2>3, <2>4, <2>5, <2>6, <2>7, <2>8
  <1>2. CASE UNCHANGED vars
    BY <1>2 DEF vars, TypeOK, PositiveEntries, NonNegativeBalances, KeyPostsOnce,
                VoidedAtMostOnce, InvoicePaidOnce, PaymentsOf, BalancedPostings,
                EntriesMatchTransaction, EntriesOf, AuditComplete
  <1> QED BY <1>1, <1>2

(* IInv is an invariant of the specification.                               *)
THEOREM Invariance == Spec => []IInv
  BY InitIInv, NextIInv, PTL DEF Spec

(* The tables only ever hold rows of their types (tables.rs), whatever the  *)
(* reducers are called with.                                                *)
THEOREM TypeCorrect == Spec => []TypeOK
  <1>1. IInv => TypeOK
    BY DEF IInv
  <1> QED BY <1>1, Invariance, PTL

(* No reducer, void_transaction included, ever overdraws an account.        *)
THEOREM NeverOverdrawn == Spec => []NonNegativeBalances
  <1>1. IInv => NonNegativeBalances
    BY DEF IInv
  <1> QED BY <1>1, Invariance, PTL

(* Without a unique index, the scan for a used idempotency key still keeps  *)
(* every key to one transaction.                                            *)
THEOREM KeysPostOnce == Spec => []KeyPostsOnce
  <1>1. IInv => KeyPostsOnce
    BY DEF IInv
  <1> QED BY <1>1, Invariance, PTL

(* A used key is answered Ok for the request it was used for alone, item    *)
(* sales excepted: no other transaction has the key, and the fingerprint    *)
(* has the accounts and the amount.                                         *)
THEOREM RetriesAreSafe == Spec => []RetrySafe
  <1>1. ASSUME IInv PROVE RetrySafe
    <2> SUFFICES ASSUME NEW id \in DOMAIN transactions, transactions[id].type \notin ItemTransfers,
                        NEW f \in Accounts \cup {None}, NEW t \in Accounts \cup {None}, NEW n \in Amounts,
                        AlreadyProcessed([transactions[id] EXCEPT !.from = f, !.to = t, !.amount = n])
                 PROVE  [transactions[id] EXCEPT !.from = f, !.to = t, !.amount = n] = transactions[id]
      BY DEF RetrySafe, AnsweredOnlyForItself
    <2> DEFINE row == transactions[id]
               r == [row EXCEPT !.from = f, !.to = t, !.amount = n]
    <2>1. row \in Request
      BY <1>1 DEF IInv, TypeOK, IsTable
    <2>2. /\ r.key = row.key /\ r.type = row.type /\ r.ref = row.ref
          /\ r.from = f /\ r.to = t /\ r.amount = n
      BY <2>1 DEF Request
    <2>3. PICK x \in DOMAIN transactions :
              transactions[x].key = r.key /\ metadata_json(transactions[x]) = metadata_json(r)
      BY DEF AlreadyProcessed
    <2>4. transactions[x] = row
      BY <1>1, <2>2, <2>3 DEF IInv, KeyPostsOnce
    <2> HIDE DEF row, r
    <2>5. metadata_json(row) = [from |-> row.from, to |-> row.to, amount |-> row.amount, ref |-> row.ref]
      BY DEF metadata_json, row
    <2>6. metadata_json(r) = [from |-> f, to |-> t, amount |-> n, ref |-> row.ref]
      BY <2>2 DEF metadata_json, row
    <2>7. row.from = f /\ row.to = t /\ row.amount = n
      BY <2>3, <2>4, <2>5, <2>6
    <2>8. [row EXCEPT !.from = f, !.to = t, !.amount = n] = row
      BY <2>1, <2>7 DEF Request
    <2> QED BY <2>8 DEF row
  <1> QED BY <1>1, Invariance, PTL

(* void_transaction voids a posted transaction, never itself, and at most   *)
(* once.                                                                    *)
THEOREM VoidsHappenOnce == Spec => []VoidedAtMostOnce
  <1>1. IInv => VoidedAtMostOnce
    BY DEF IInv
  <1> QED BY <1>1, Invariance, PTL

(* pay_invoice marks an invoice paid exactly when it posts its one payment. *)
THEOREM InvoicesPaidOnce == Spec => []InvoicePaidOnce
  <1>1. IInv => InvoicePaidOnce
    BY DEF IInv
  <1> QED BY <1>1, Invariance, PTL

(* Every transaction has the entries its type promises and there is no      *)
(* entry without a transaction.                                             *)
THEOREM PostingsBalance == Spec => []BalancedPostings
  <1>1. IInv => BalancedPostings
    BY DEF IInv
  <1> QED BY <1>1, Invariance, PTL

(* Transactions and invoices have one audit row each, and never share an    *)
(* id.                                                                      *)
THEOREM AuditIsComplete == Spec => []AuditComplete
  <1>1. IInv => AuditComplete
    BY DEF IInv
  <1> QED BY <1>1, Invariance, PTL

(* The books are in order after any calls of the reducers.                  *)
THEOREM LedgerStaysSound == Spec => []LedgerIsSound
  <1>1. IInv => LedgerIsSound
    BY DEF IInv, LedgerIsSound
  <1> QED BY <1>1, Invariance, PTL

(* No step edits or removes what was posted.                                *)
THEOREM HistoryNeverChanges == Spec => HistoryIsFinal
  <1> DEFINE Kept == /\ ledger_entries \subseteq ledger_entries'
                     /\ audit_logs \subseteq audit_logs'
                     /\ \A id \in DOMAIN transactions :
                          id \in DOMAIN transactions' /\ transactions'[id] = transactions[id]
  <1>1. IInv /\ [Next]_vars => [Kept]_vars
    BY HistoryStep DEF IInv
  <1>2. Spec => [][Kept]_vars
    <2> HIDE DEF Kept
    <2> QED BY <1>1, Invariance, PTL DEF Spec
  <1> QED BY <1>2 DEF HistoryIsFinal

-----------------------------------------------------------------------------
(***************************************************************************)
(* Balances move with the entries of the step.                             *)
(***************************************************************************)

(* Posted of a set whose matching entries all have one amount.              *)
LEMMA PostedOnly ==
    ASSUME NEW entries, NEW account, NEW direction, NEW m \in entries,
           m.account = account, m.direction = direction,
           \A e \in entries : e.account = account /\ e.direction = direction => e.amount = m.amount
    PROVE  Posted(entries, account, direction) = m.amount
  <1> DEFINE Match(e) == e.account = account /\ e.direction = direction
             c == CHOOSE e \in entries : Match(e)
  <1>1. c \in entries /\ Match(c)
    OBVIOUS
  <1>2. Posted(entries, account, direction) = c.amount
    BY DEF Posted
  <1> HIDE DEF c
  <1> QED BY <1>1, <1>2

LEMMA PostedNone ==
    ASSUME NEW entries, NEW account, NEW direction,
           \A e \in entries : ~(e.account = account /\ e.direction = direction)
    PROVE  Posted(entries, account, direction) = 0
  BY DEF Posted

(* The two entries of a transfer net to the transferred amount on each side *)
(* and to nothing elsewhere.                                                *)
LEMMA PairNets ==
    ASSUME NEW id, NEW from, NEW to, NEW amount \in Int
    PROVE  /\ from = to => BothSides(TransferEntries(id, from, to, amount), from)
           /\ from # to => NetOf(TransferEntries(id, from, to, amount), from) = 0 - amount
           /\ from # to => NetOf(TransferEntries(id, from, to, amount), to) = amount
           /\ \A a : a \notin {from, to} => NetOf(TransferEntries(id, from, to, amount), a) = 0
  <1> DEFINE d == Entry(id, from, "debit", amount)
             c == Entry(id, to, "credit", amount)
             new == TransferEntries(id, from, to, amount)
  <1>1. /\ d.account = from /\ d.direction = "debit" /\ d.amount = amount
        /\ c.account = to /\ c.direction = "credit" /\ c.amount = amount
        /\ \A e \in new : e = d \/ e = c
        /\ d \in new /\ c \in new
    BY DEF Entry, TransferEntries
  <1> HIDE DEF d, c, new
  <1>2. from = to => BothSides(new, from)
    BY <1>1 DEF BothSides
  <1>3. Posted(new, from, "debit") = amount /\ Posted(new, to, "credit") = amount
    BY <1>1, PostedOnly
  <1>4. from # to => Posted(new, from, "credit") = 0 /\ Posted(new, to, "debit") = 0
    BY <1>1, PostedNone
  <1>5. \A a : a \notin {from, to} =>
            Posted(new, a, "credit") = 0 /\ Posted(new, a, "debit") = 0
    BY <1>1, PostedNone
  <1>6. /\ from = to => BothSides(new, from)
        /\ from # to => NetOf(new, from) = 0 - amount
        /\ from # to => NetOf(new, to) = amount
        /\ \A a : a \notin {from, to} => NetOf(new, a) = 0
    BY <1>2, <1>3, <1>4, <1>5 DEF NetOf
  <1> QED BY <1>6 DEF new

(* The entry of a single-account call nets to its signed amount.            *)
LEMMA SingleNets ==
    ASSUME NEW id, NEW account, NEW direction \in {"debit", "credit"}, NEW amount \in Int
    PROVE  /\ NetOf({Entry(id, account, direction, amount)}, account)
                = SignedAmount(direction, amount)
           /\ \A a : a # account => NetOf({Entry(id, account, direction, amount)}, a) = 0
  <1> DEFINE m == Entry(id, account, direction, amount)
             new == {m}
  <1>1. m.account = account /\ m.direction = direction /\ m.amount = amount
    BY DEF Entry
  <1>2. m \in new /\ \A e \in new : e = m
    OBVIOUS
  <1> HIDE DEF m, new
  <1>3. Posted(new, account, direction) = amount
    BY <1>1, <1>2, PostedOnly
  <1>4. \A d : d # direction => Posted(new, account, d) = 0
    BY <1>1, <1>2, PostedNone
  <1>5. NetOf(new, account) = SignedAmount(direction, amount)
    <2>1. CASE direction = "debit"
      <3>1. Posted(new, account, "debit") = amount /\ Posted(new, account, "credit") = 0
        BY <1>3, <1>4, <2>1
      <3> QED BY <2>1, <3>1 DEF NetOf, SignedAmount
    <2>2. CASE direction = "credit"
      <3>1. Posted(new, account, "credit") = amount /\ Posted(new, account, "debit") = 0
        BY <1>3, <1>4, <2>2
      <3> QED BY <2>2, <3>1 DEF NetOf, SignedAmount
    <2> QED BY <2>1, <2>2
  <1>6. \A a : a # account => Posted(new, a, "credit") = 0 /\ Posted(new, a, "debit") = 0
    BY <1>1, <1>2, PostedNone
  <1>7. \A a : a # account => NetOf(new, a) = 0
    BY <1>6 DEF NetOf
  <1> QED BY <1>5, <1>7 DEF new, m

(* The entries of a posting are all new.                                    *)
LEMMA AllNew ==
    ASSUME TypeOK, BalancedPostings, NEW id \in TransactionIds, NEW r \in Request, NEW new,
           PostingStep(id, r, new)
    PROVE  NewEntries = new
  <1>1. id \notin DOMAIN transactions
    BY PostedRow
  <1>2. \A e \in ledger_entries : e.tx # id
    BY <1>1 DEF BalancedPostings
  <1> QED BY <1>2 DEF PostingStep, NewEntries

MovedWithEntries(a) ==
    ~BothSides(NewEntries, a) =>
        /\ a \in DOMAIN accounts'
        /\ accounts'[a].balance = accounts[a].balance + NetOf(NewEntries, a)

LEMMA MoveStep ==
    ASSUME TypeOK, PositiveEntries, BalancedPostings, Next
    PROVE  \A a \in DOMAIN accounts : MovedWithEntries(a)
  <1> SUFFICES ASSUME NEW a \in DOMAIN accounts
               PROVE  MovedWithEntries(a)
    OBVIOUS
  <1>0. accounts[a].balance \in Int
    BY DEF TypeOK, IsTable, AccountRow
  <1>1. ASSUME UNCHANGED ledger_entries, a \in DOMAIN accounts', accounts'[a] = accounts[a]
        PROVE  MovedWithEntries(a)
    <2>1. NewEntries = {}
      BY <1>1 DEF NewEntries
    <2>2. NetOf(NewEntries, a) = 0
      BY <2>1, PostedNone DEF NetOf
    <2> QED BY <1>0, <1>1, <2>2 DEF MovedWithEntries
  <1>2. ASSUME NEW id \in TransactionIds, NEW r \in Request, r.from \in DOMAIN accounts,
               r.to \in DOMAIN accounts, MoveBalance(r.from, r.to, r.amount),
               PostingStep(id, r, TransferEntries(id, r.from, r.to, r.amount))
        PROVE  MovedWithEntries(a)
    <2> DEFINE new == TransferEntries(id, r.from, r.to, r.amount)
    <2>1. r.amount \in Int
      BY DEF Request
    <2>2. /\ DOMAIN accounts' = DOMAIN accounts
          /\ accounts'[r.to].balance = accounts[r.to].balance + r.amount
          /\ r.from # r.to => accounts'[r.from].balance = accounts[r.from].balance - r.amount
          /\ \A x \in DOMAIN accounts : x \notin {r.from, r.to} => accounts'[x] = accounts[x]
      BY <1>2, <2>1, MoveBalanceFacts DEF TypeOK
    <2>3. NewEntries = new
      BY <1>2, AllNew
    <2>4. /\ r.from = r.to => BothSides(new, r.from)
          /\ r.from # r.to => NetOf(new, r.from) = 0 - r.amount
          /\ r.from # r.to => NetOf(new, r.to) = r.amount
          /\ a \notin {r.from, r.to} => NetOf(new, a) = 0
      BY <2>1, PairNets
    <2> HIDE DEF new
    <2>5. CASE a \notin {r.from, r.to}
      BY <1>0, <2>2, <2>3, <2>4, <2>5 DEF MovedWithEntries
    <2>6. CASE a = r.from /\ r.from # r.to
      BY <1>0, <2>1, <2>2, <2>3, <2>4, <2>6 DEF MovedWithEntries
    <2>7. CASE a = r.to /\ r.from # r.to
      BY <1>0, <2>1, <2>2, <2>3, <2>4, <2>7 DEF MovedWithEntries
    <2>8. CASE a = r.from /\ r.from = r.to
      BY <2>3, <2>4, <2>8 DEF MovedWithEntries
    <2> QED BY <2>5, <2>6, <2>7, <2>8
  <1>3. CASE AnyCreate
    <2>1. PICK id \in Accounts, o \in OwnerTypes, c \in Currencies, b \in OpeningBalances :
              create_account(id, o, c, b)
      BY <1>3 DEF AnyCreate
    <2> DEFINE row == [owner_type |-> o, currency |-> c, balance |-> b, status |-> "active"]
    <2>2. id \notin DOMAIN accounts /\ accounts' = Insert(accounts, id, row)
          /\ UNCHANGED ledger_entries
      BY <2>1 DEF create_account
    <2> HIDE DEF row
    <2>3. a \in DOMAIN accounts' /\ accounts'[a] = accounts[a]
      BY <2>2 DEF Insert
    <2> QED BY <1>1, <2>2, <2>3
  <1>4. CASE UNCHANGED <<accounts, ledger_entries>>
    BY <1>1, <1>4
  <1>5. CASE AnyTransfer
    <2>1. PICK id \in TransactionIds, r \in Request :
              r.from \in Accounts /\ r.to \in Accounts /\ post_account_transfer(id, r)
      BY <1>5 DEF AnyTransfer
    <2>2. /\ r.from \in DOMAIN accounts
          /\ r.to \in DOMAIN accounts
          /\ MoveBalance(r.from, r.to, r.amount)
          /\ PostingStep(id, r, TransferEntries(id, r.from, r.to, r.amount))
      BY <2>1, TransferFacts
    <2> QED BY <1>2, <2>2
  <1>6. CASE AnySingle
    <2>1. PICK id \in TransactionIds, type \in SingleAccount, actor \in Actors,
               key \in IdempotencyKeys, account \in Accounts, direction \in {"debit", "credit"},
               amount \in Int :
              post_single_account_transaction(id, type, actor, key, account, direction, amount)
      BY <1>6 DEF AnySingle
    <2> DEFINE r == SingleRequest(type, actor, key, account, direction, amount)
               new == {Entry(id, account, direction, amount)}
    <2>2. SingleMove(account, SignedAmount(direction, amount))
      BY <2>1, SingleFacts
    <2>3. /\ account \in DOMAIN accounts
          /\ DOMAIN accounts' = DOMAIN accounts
          /\ accounts'[account].balance = accounts[account].balance + SignedAmount(direction, amount)
      BY <2>2 DEF SingleMove
    <2>4. \A x \in DOMAIN accounts : x # account => accounts'[x] = accounts[x]
      BY <2>2 DEF SingleMove
    <2>5. r \in Request /\ PostingStep(id, r, new)
      BY <2>1, SingleFacts
    <2> HIDE DEF r
    <2>6. NewEntries = new
      BY <2>5, AllNew
    <2>7. /\ NetOf(new, account) = SignedAmount(direction, amount)
          /\ a # account => NetOf(new, a) = 0
      BY SingleNets
    <2> HIDE DEF new
    <2>8. CASE a = account
      BY <2>3, <2>6, <2>7, <2>8 DEF MovedWithEntries
    <2>9. CASE a # account
      BY <1>0, <2>3, <2>4, <2>6, <2>7, <2>9 DEF MovedWithEntries
    <2> QED BY <2>8, <2>9
  <1>7. CASE AnyVoid
    <2>1. PICK id \in TransactionIds, actor \in Actors, key \in IdempotencyKeys,
               voided \in TransactionIds : void_transaction(id, actor, key, voided)
      BY <1>7 DEF AnyVoid
    <2> DEFINE r == VoidRequest(actor, key, voided)
               new == Reversals(id, voided)
    <2>2. /\ r \in Request
          /\ PostingStep(id, r, new)
          /\ DOMAIN accounts' = DOMAIN accounts
          /\ \A x \in DOMAIN accounts : accounts'[x].balance = accounts[x].balance + NetOf(new, x)
      BY <2>1, VoidFacts
    <2> HIDE DEF r, new
    <2>3. NewEntries = new
      BY <2>2, AllNew
    <2> QED BY <2>2, <2>3 DEF MovedWithEntries
  <1>8. CASE AnyPayment
    <2>1. PICK id \in TransactionIds, actor \in Actors, invoice_id \in InvoiceIds,
               key \in IdempotencyKeys : pay_invoice(id, actor, invoice_id, key)
      BY <1>8 DEF AnyPayment
    <2> DEFINE r == PaymentRequest(actor, key, invoice_id)
    <2>2. /\ r \in Request
          /\ r.from \in DOMAIN accounts
          /\ r.to \in DOMAIN accounts
          /\ MoveBalance(r.from, r.to, r.amount)
          /\ PostingStep(id, r, TransferEntries(id, r.from, r.to, r.amount))
      BY <2>1, PaymentFacts
    <2> HIDE DEF r
    <2> QED BY <1>2, <2>2
  <1>9. AnyLimit => UNCHANGED <<accounts, ledger_entries>>
    BY DEF AnyLimit, upsert_economy_limit
  <1>10. AnyPermissionChange => UNCHANGED <<accounts, ledger_entries>>
    BY DEF AnyPermissionChange, ChangePermissions
  <1>11. AnyIssue => UNCHANGED <<accounts, ledger_entries>>
    BY DEF AnyIssue, issue_invoice
  <1> QED BY <1>3, <1>4, <1>5, <1>6, <1>7, <1>8, <1>9, <1>10, <1>11, StepCases

(* A step changes a balance by exactly what its entries say, except that of *)
(* an account that pays itself.                                             *)
THEOREM BalancesFollowLedger == Spec => BalanceMovesWithLedger
  <1> DEFINE Moved == \A a \in DOMAIN accounts : MovedWithEntries(a)
  <1>1. IInv /\ [Next]_vars => [Moved]_vars
    BY MoveStep DEF IInv
  <1>2. Spec => [][Moved]_vars
    <2> HIDE DEF Moved
    <2> QED BY <1>1, Invariance, PTL DEF Spec
  <1> QED BY <1>2 DEF BalanceMovesWithLedger, MovedWithEntries
-----------------------------------------------------------------------------
(***************************************************************************)
(* Limits.                                                                 *)
(***************************************************************************)

(* The property of one step: request r is posted as id with the entries new *)
(* after the limits of its type let the amount and the accounts through.    *)
LimitsKept ==
    \A id \in DOMAIN transactions' \ DOMAIN transactions, l \in DOMAIN economy_limits :
        LET t == transactions'[id]
            limit == economy_limits[l]
        IN  (/\ limit.enabled
             /\ limit.permission_key = economy_permission_key(t.type)
             /\ limit.action_type = t.type
             /\ t.type \notin {"economy.admin_adjust_balance", "economy.void_transaction"})
            => /\ limit.max_amount # None => \A e \in NewEntries : e.amount <= limit.max_amount
               /\ limit.owner_types # {} =>
                      \A e \in NewEntries : accounts[e.account].owner_type \in limit.owner_types

LEMMA LimitedPosting ==
    ASSUME TypeOK, NEW id \in TransactionIds, NEW r \in Request, NEW new, NEW accts, NEW amount,
           PostingStep(id, r, new), WithinLimits(r.type, amount, accts),
           \A e \in new : e.amount = amount /\ e.account \in accts
    PROVE  LimitsKept
  <1> SUFFICES ASSUME NEW x \in DOMAIN transactions' \ DOMAIN transactions,
                      NEW l \in DOMAIN economy_limits,
                      economy_limits[l].enabled,
                      economy_limits[l].permission_key = economy_permission_key(transactions'[x].type),
                      economy_limits[l].action_type = transactions'[x].type,
                      transactions'[x].type # "economy.admin_adjust_balance"
               PROVE  /\ economy_limits[l].max_amount # None =>
                            \A e \in NewEntries : e.amount <= economy_limits[l].max_amount
                      /\ economy_limits[l].owner_types # {} =>
                            \A e \in NewEntries :
                                accounts[e.account].owner_type \in economy_limits[l].owner_types
    BY DEF LimitsKept
  <1>1. transactions'[x] = r
    <2>1. Record(id, r)
      BY DEF PostingStep
    <2>2. DOMAIN transactions' = DOMAIN transactions \cup {id} /\ transactions'[id] = r
      BY <2>1, RecordFacts
    <2>3. x = id
      BY <2>2
    <2> QED  BY <2>2, <2>3
  <1>2. economy_limits[l].permission_key = r.type /\ economy_limits[l].action_type = r.type
    BY <1>1 DEF economy_permission_key
  <1>3. NewEntries \subseteq new
    BY DEF NewEntries, PostingStep
  <1>4. /\ economy_limits[l].max_amount # None => amount <= economy_limits[l].max_amount
        /\ economy_limits[l].owner_types # {} =>
                \A a \in accts : accounts[a].owner_type \in economy_limits[l].owner_types
    BY <1>2 DEF WithinLimits
  <1> QED BY <1>3, <1>4

(* A step that posts nothing, and a void, which asks no limit.              *)
LEMMA NothingLimited ==
    ASSUME \A id \in DOMAIN transactions' \ DOMAIN transactions :
                transactions'[id].type = "economy.void_transaction"
    PROVE  LimitsKept
BY DEF LimitsKept

LEMMA LimitStep ==
    ASSUME TypeOK, PositiveEntries, Next
    PROVE  LimitsKept
  <1>1. CASE AnyTransfer
    <2>1. PICK id \in TransactionIds, r \in Request :
              r.from \in Accounts /\ r.to \in Accounts /\ post_account_transfer(id, r)
      BY <1>1 DEF AnyTransfer
    <2>2. /\ PostingStep(id, r, TransferEntries(id, r.from, r.to, r.amount))
          /\ WithinLimits(r.type, r.amount, {r.from, r.to})
      BY <2>1, TransferFacts DEF post_account_transfer
    <2>3. \A e \in TransferEntries(id, r.from, r.to, r.amount) :
              e.amount = r.amount /\ e.account \in {r.from, r.to}
      BY DEF TransferEntries, Entry
    <2> QED BY <2>2, <2>3, LimitedPosting
  <1>2. CASE AnySingle
    <2>1. PICK id \in TransactionIds, type \in SingleAccount, actor \in Actors,
               key \in IdempotencyKeys, account \in Accounts, direction \in {"debit", "credit"},
               amount \in Int :
              post_single_account_transaction(id, type, actor, key, account, direction, amount)
      BY <1>2 DEF AnySingle
    <2> DEFINE r == SingleRequest(type, actor, key, account, direction, amount)
               new == {Entry(id, account, direction, amount)}
    <2>2. r \in Request /\ PostingStep(id, r, new)
      BY <2>1, SingleFacts
    <2>3. r.type = type
      BY DEF SingleRequest
    <2>4. WithinLimits(type, amount, {account})
      BY <2>1 DEF post_single_account_transaction
    <2>5. \A e \in new : e.amount = amount /\ e.account \in {account}
      BY DEF Entry
    <2> HIDE DEF r, new
    <2> QED BY <2>2, <2>3, <2>4, <2>5, LimitedPosting
  <1>3. CASE AnyVoid
    <2>1. PICK id \in TransactionIds, actor \in Actors, key \in IdempotencyKeys,
               voided \in TransactionIds : void_transaction(id, actor, key, voided)
      BY <1>3 DEF AnyVoid
    <2> DEFINE r == VoidRequest(actor, key, voided)
    <2>2. r \in Request /\ Record(id, r)
      BY <2>1, VoidFacts DEF PostingStep
    <2>3. r.type = "economy.void_transaction"
      BY DEF VoidRequest
    <2> HIDE DEF r
    <2>4. DOMAIN transactions' = DOMAIN transactions \cup {id} /\ transactions'[id] = r
      BY <2>2, RecordFacts
    <2> QED BY <2>3, <2>4, NothingLimited
  <1>4. CASE AnyPayment
    <2>1. PICK id \in TransactionIds, actor \in Actors, invoice_id \in InvoiceIds,
               key \in IdempotencyKeys : pay_invoice(id, actor, invoice_id, key)
      BY <1>4 DEF AnyPayment
    <2> DEFINE r == PaymentRequest(actor, key, invoice_id)
    <2>2. r \in Request /\ PostingStep(id, r, TransferEntries(id, r.from, r.to, r.amount))
      BY <2>1, PaymentFacts
    <2>3. /\ r.type = "economy.pay_invoice" /\ r.amount = invoices[invoice_id].amount
          /\ r.from = invoices[invoice_id].payer /\ r.to = invoices[invoice_id].issuer
      BY DEF PaymentRequest
    <2>4. WithinLimits("economy.pay_invoice", invoices[invoice_id].amount,
                       {invoices[invoice_id].payer, invoices[invoice_id].issuer})
      BY <2>1 DEF pay_invoice
    <2> HIDE DEF r
    <2>5. \A e \in TransferEntries(id, r.from, r.to, r.amount) :
              e.amount = r.amount /\ e.account \in {r.from, r.to}
      BY DEF TransferEntries, Entry
    <2>6. WithinLimits(r.type, r.amount, {r.from, r.to})
      BY <2>3, <2>4
    <2> QED BY <2>2, <2>5, <2>6, LimitedPosting
  <1>5. CASE UNCHANGED transactions
    BY <1>5, NothingLimited
  <1>6. AnyCreate => UNCHANGED transactions
    BY DEF AnyCreate, create_account
  <1>7. AnyLimit => UNCHANGED transactions
    BY DEF AnyLimit, upsert_economy_limit
  <1>8. AnyPermissionChange => UNCHANGED transactions
    BY DEF AnyPermissionChange, ChangePermissions
  <1>9. AnyIssue => UNCHANGED transactions
    BY DEF AnyIssue, issue_invoice
  <1> QED BY <1>1, <1>2, <1>3, <1>4, <1>5, <1>6, <1>7, <1>8, <1>9, StepCases

(* Each posting keeps to every enabled limit of its own type, for any       *)
(* number of limits, accounts and owner types, whenever limits are added.   *)
THEOREM PostingsKeepToLimits == Spec => PostedWithinLimits
  <1>1. IInv /\ [Next]_vars => [LimitsKept]_vars
    BY LimitStep DEF IInv
  <1>2. Spec => [][LimitsKept]_vars
    <2> HIDE DEF LimitsKept
    <2> QED BY <1>1, Invariance, PTL DEF Spec
  <1> QED BY <1>2 DEF PostedWithinLimits, LimitsKept
-----------------------------------------------------------------------------
(***************************************************************************)
(* Balances as sums over the whole ledger.  Beside BalanceIsLedgerSum the  *)
(* inductive invariant BookInv says that the ledger is finite, that a      *)
(* transaction has at most one entry of each direction, and that entries   *)
(* are posted on existing accounts, so that a new account starts with none.*)
(***************************************************************************)
OneEachWay(entries) == \A e, f \in entries : e.direction = f.direction => e = f

BookInv ==
    /\ IsFiniteSet(ledger_entries)
    /\ \A e, f \in ledger_entries : e.tx = f.tx /\ e.direction = f.direction => e = f
    /\ \A e \in ledger_entries : e.account \in DOMAIN accounts
    /\ BalanceIsLedgerSum

(* A step that posts, as far as sums are concerned.                         *)
BookPosting(id, r, new) ==
    /\ PostingStep(id, r, new)
    /\ OneEachWay(new)
    /\ \A e \in new : e.account \in DOMAIN accounts
    /\ DOMAIN accounts' = DOMAIN accounts
    /\ UNCHANGED opening

AnyBookPosting ==
    \E id \in TransactionIds, r \in Request, new \in SUBSET LedgerEntry : BookPosting(id, r, new)

LEMMA TransferShape ==
    ASSUME NEW id, NEW from, NEW to, NEW amount
    PROVE  /\ OneEachWay(TransferEntries(id, from, to, amount))
           /\ \A e \in TransferEntries(id, from, to, amount) : e.account \in {from, to}
BY DEF OneEachWay, TransferEntries, Entry

(* The reversals of a transaction keep its shape.                           *)
LEMMA ReversalShape ==
    ASSUME TypeOK, BookInv, NEW id, NEW voided
    PROVE  /\ OneEachWay(Reversals(id, voided))
           /\ \A e \in Reversals(id, voided) : e.account \in DOMAIN accounts
  <1>1. ASSUME NEW x \in Reversals(id, voided)
        PROVE  \E e \in ledger_entries :
                    /\ e.tx = voided
                    /\ x = Entry(id, e.account, reverse_ledger_direction(e.direction), e.amount)
    BY <1>1 DEF Reversals, EntriesOf
  <1>2. \A e \in ledger_entries : e.direction \in {"debit", "credit"}
    BY DEF TypeOK, LedgerEntry
  <1>3. ASSUME NEW x \in Reversals(id, voided), NEW y \in Reversals(id, voided),
               x.direction = y.direction
        PROVE  x = y
    <2>1. PICK e \in ledger_entries :
              /\ e.tx = voided
              /\ x = Entry(id, e.account, reverse_ledger_direction(e.direction), e.amount)
      BY <1>1
    <2>2. PICK f \in ledger_entries :
              /\ f.tx = voided
              /\ y = Entry(id, f.account, reverse_ledger_direction(f.direction), f.amount)
      BY <1>1
    <2>3. reverse_ledger_direction(e.direction) = reverse_ledger_direction(f.direction)
      BY <1>3, <2>1, <2>2 DEF Entry
    <2>4. e.direction = f.direction
      BY <1>2, <2>3 DEF reverse_ledger_direction
    <2>5. e = f
      BY <2>1, <2>2, <2>4 DEF BookInv
    <2> QED BY <2>1, <2>2, <2>5
  <1>4. \A x \in Reversals(id, voided) : x.account \in DOMAIN accounts
    BY <1>1 DEF Entry, BookInv
  <1> QED BY <1>3, <1>4 DEF OneEachWay

(* A step posts such entries, creates an account, or leaves the sums alone. *)
LEMMA BookSteps ==
    ASSUME TypeOK, PositiveEntries, BookInv, Next
    PROVE  \/ AnyBookPosting
           \/ AnyCreate
           \/ UNCHANGED <<accounts, transactions, ledger_entries, opening>>
  <1>1. ASSUME NEW id \in TransactionIds, NEW r \in Request, r.from \in DOMAIN accounts,
               r.to \in DOMAIN accounts, MoveBalance(r.from, r.to, r.amount), UNCHANGED opening,
               PostingStep(id, r, TransferEntries(id, r.from, r.to, r.amount))
        PROVE  AnyBookPosting
    <2>1. r.amount \in Int
      BY DEF Request
    <2>2. DOMAIN accounts' = DOMAIN accounts
      BY <1>1, <2>1, MoveBalanceFacts DEF TypeOK
    <2> DEFINE new == TransferEntries(id, r.from, r.to, r.amount)
    <2>3. OneEachWay(new) /\ \A e \in new : e.account \in DOMAIN accounts
      BY <1>1, TransferShape
    <2>4. PostingStep(id, r, new) /\ new \in SUBSET LedgerEntry
      BY <1>1 DEF PostingStep
    <2> HIDE DEF new
    <2> QED BY <1>1, <2>2, <2>3, <2>4 DEF BookPosting, AnyBookPosting
  <1>2. CASE AnyTransfer
    <2>1. PICK id \in TransactionIds, r \in Request :
              r.from \in Accounts /\ r.to \in Accounts /\ post_account_transfer(id, r)
      BY <1>2 DEF AnyTransfer
    <2>2. /\ r.from \in DOMAIN accounts
          /\ r.to \in DOMAIN accounts
          /\ MoveBalance(r.from, r.to, r.amount)
          /\ PostingStep(id, r, TransferEntries(id, r.from, r.to, r.amount))
          /\ UNCHANGED opening
      BY <2>1, TransferFacts
    <2> QED BY <1>1, <2>2
  <1>3. CASE AnySingle
    <2>1. PICK id \in TransactionIds, type \in SingleAccount, actor \in Actors,
               key \in IdempotencyKeys, account \in Accounts, direction \in {"debit", "credit"},
               amount \in Int :
              post_single_account_transaction(id, type, actor, key, account, direction, amount)
      BY <1>3 DEF AnySingle
    <2> DEFINE r == SingleRequest(type, actor, key, account, direction, amount)
               new == {Entry(id, account, direction, amount)}
    <2>2. r \in Request /\ PostingStep(id, r, new) /\ UNCHANGED opening
      BY <2>1, SingleFacts
    <2>3. SingleMove(account, SignedAmount(direction, amount))
      BY <2>1, SingleFacts
    <2>4. account \in DOMAIN accounts /\ DOMAIN accounts' = DOMAIN accounts
      BY <2>3 DEF SingleMove
    <2>5. OneEachWay(new) /\ \A e \in new : e.account = account
      BY DEF OneEachWay, Entry
    <2>6. new \in SUBSET LedgerEntry
      BY <2>2 DEF PostingStep
    <2> HIDE DEF r, new
    <2> QED BY <2>2, <2>4, <2>5, <2>6 DEF BookPosting, AnyBookPosting
  <1>4. CASE AnyVoid
    <2>1. PICK id \in TransactionIds, actor \in Actors, key \in IdempotencyKeys,
               voided \in TransactionIds : void_transaction(id, actor, key, voided)
      BY <1>4 DEF AnyVoid
    <2> DEFINE r == VoidRequest(actor, key, voided)
               new == Reversals(id, voided)
    <2>2. /\ r \in Request
          /\ PostingStep(id, r, new)
          /\ DOMAIN accounts' = DOMAIN accounts
          /\ UNCHANGED opening
      BY <2>1, VoidFacts
    <2>3. OneEachWay(new) /\ \A e \in new : e.account \in DOMAIN accounts
      BY ReversalShape
    <2>4. new \in SUBSET LedgerEntry
      BY <2>2 DEF PostingStep
    <2> HIDE DEF r, new
    <2> QED BY <2>2, <2>3, <2>4 DEF BookPosting, AnyBookPosting
  <1>5. CASE AnyPayment
    <2>1. PICK id \in TransactionIds, actor \in Actors, invoice_id \in InvoiceIds,
               key \in IdempotencyKeys : pay_invoice(id, actor, invoice_id, key)
      BY <1>5 DEF AnyPayment
    <2> DEFINE r == PaymentRequest(actor, key, invoice_id)
    <2>2. /\ r \in Request
          /\ r.from \in DOMAIN accounts
          /\ r.to \in DOMAIN accounts
          /\ MoveBalance(r.from, r.to, r.amount)
          /\ PostingStep(id, r, TransferEntries(id, r.from, r.to, r.amount))
          /\ UNCHANGED opening
      BY <2>1, PaymentFacts
    <2> HIDE DEF r
    <2> QED BY <1>1, <2>2
  <1>6. AnyLimit => UNCHANGED <<accounts, transactions, ledger_entries, opening>>
    BY DEF AnyLimit, upsert_economy_limit
  <1>7. AnyPermissionChange => UNCHANGED <<accounts, transactions, ledger_entries, opening>>
    BY DEF AnyPermissionChange, ChangePermissions
  <1>8. AnyIssue => UNCHANGED <<accounts, transactions, ledger_entries, opening>>
    BY DEF AnyIssue, issue_invoice
  <1> QED BY <1>2, <1>3, <1>4, <1>5, <1>6, <1>7, <1>8, StepCases

SignOf(e) == IF e.direction = "credit" THEN e.amount ELSE -e.amount
OnAccount(entries, a) == {e \in entries : e.account = a}

LEMMA SignedTypes ==
    ASSUME TypeOK
    PROVE  \A e \in ledger_entries : Signed[e] = SignOf(e) /\ Signed[e] \in Int
BY DEF TypeOK, LedgerEntry, Signed, SignOf

(* Entries with one of each direction are finitely many, and those on an    *)
(* account that is not both sides are at most one: their sum is what NetOf  *)
(* says they add to the account.                                            *)
LEMMA OneEachWayIsFinite ==
    ASSUME NEW new \in SUBSET LedgerEntry, OneEachWay(new)
    PROVE  IsFiniteSet(new)
  <1> DEFINE d == CHOOSE e \in new : e.direction = "debit"
             c == CHOOSE e \in new : e.direction = "credit"
  <1>1. \A e \in new : e = d \/ e = c
    BY DEF OneEachWay, LedgerEntry
  <1> HIDE DEF d, c
  <1>2. IsFiniteSet({d} \cup {c})
    BY FS_Singleton, FS_Union
  <1> QED BY <1>1, <1>2, FS_Subset

LEMMA NetIsSum ==
    ASSUME NEW new \in SUBSET LedgerEntry, OneEachWay(new), NEW a, ~BothSides(new, a),
           NEW f, \A e \in new : f[e] = SignOf(e)
    PROVE  SumFunctionOnSet(f, OnAccount(new, a)) = NetOf(new, a)
  <1>1. CASE OnAccount(new, a) = {}
    <2>1. NetOf(new, a) = 0
      BY <1>1, PostedNone DEF OnAccount, NetOf
    <2> QED BY <1>1, <2>1, SumOfNone
  <1>2. ASSUME NEW m \in new, m.account = a
        PROVE  SumFunctionOnSet(f, OnAccount(new, a)) = NetOf(new, a)
    <2>0. m.amount \in Int /\ m.direction \in {"debit", "credit"}
      BY DEF LedgerEntry
    <2>1. \A e \in new : e.account = a => e = m
      BY <1>2 DEF OneEachWay, BothSides, LedgerEntry
    <2>2. OnAccount(new, a) = {} \cup {m}
      BY <1>2, <2>1 DEF OnAccount
    <2>3. f[m] = SignOf(m) /\ f[m] \in Int
      BY <2>0 DEF SignOf
    <2>4. SumFunctionOnSet(f, {} \cup {m}) = SumFunctionOnSet(f, {}) + f[m]
      BY <2>3, FS_EmptySet, SumAdds
    <2>5. SumFunctionOnSet(f, OnAccount(new, a)) = SignOf(m)
      BY <2>2, <2>3, <2>4, SumOfNone
    <2>6. Posted(new, a, m.direction) = m.amount
      BY <1>2, <2>1, PostedOnly
    <2>7. \A d : d # m.direction => Posted(new, a, d) = 0
      BY <2>1, PostedNone
    <2>8. NetOf(new, a) = SignOf(m)
      <3>1. CASE m.direction = "debit"
        <4>1. Posted(new, a, "debit") = m.amount /\ Posted(new, a, "credit") = 0
          BY <2>6, <2>7, <3>1
        <4> QED BY <2>0, <3>1, <4>1 DEF NetOf, SignOf
      <3>2. CASE m.direction = "credit"
        <4>1. Posted(new, a, "credit") = m.amount /\ Posted(new, a, "debit") = 0
          BY <2>6, <2>7, <3>2
        <4> QED BY <2>0, <3>2, <4>1 DEF NetOf, SignOf
      <3> QED BY <2>0, <3>1, <3>2
    <2> QED BY <2>5, <2>8
  <1> QED BY <1>1, <1>2 DEF OnAccount

(* A posting adds its own entries to the sum of an account.                 *)
LEMMA NetGrows ==
    ASSUME TypeOK, TypeOK', IsFiniteSet(ledger_entries), BalancedPostings,
           NEW id \in TransactionIds, NEW r \in Request, NEW new \in SUBSET LedgerEntry,
           PostingStep(id, r, new), OneEachWay(new), NEW a, ~BothSides(new, a)
    PROVE  NetOnAccount(a)' = NetOnAccount(a) + NetOf(new, a)
  <1> DEFINE S == OnAccount(ledger_entries, a)
             T == OnAccount(new, a)
  <1>1. ledger_entries' = ledger_entries \cup new
    BY DEF PostingStep
  <1>2. ledger_entries \cap new = {}
    BY AllNew, <1>1 DEF NewEntries
  <1>3. IsFiniteSet(S) /\ IsFiniteSet(T)
    BY OneEachWayIsFinite, FS_Subset DEF OnAccount
  <1>4. PICK f : f = Signed'
    OBVIOUS
  <1>5. \A e \in ledger_entries \cup new : f[e] = SignOf(e) /\ f[e] \in Int
    <2>1. \A e \in ledger_entries' : e \in LedgerEntry
      BY DEF TypeOK
    <2>2. \A e \in ledger_entries' : f[e] = SignOf(e) /\ SignOf(e) \in Int
      BY <1>4, <2>1 DEF Signed, SignOf, LedgerEntry
    <2> QED BY <1>1, <2>2
  <1>6. NetOnAccount(a)' = SumFunctionOnSet(f, S \cup T)
    <2>1. {e \in ledger_entries' : e.account = a} = S \cup T
      BY <1>1 DEF OnAccount
    <2> HIDE DEF S, T
    <2> QED BY <1>4, <2>1 DEF NetOnAccount
  <1>7. S \cap T = {} /\ \A e \in S \cup T : f[e] \in Int
    BY <1>2, <1>5 DEF OnAccount
  <1>8. SumFunctionOnSet(f, S \cup T) = SumFunctionOnSet(f, S) + SumFunctionOnSet(f, T)
    <2> HIDE DEF S, T
    <2> QED BY <1>3, <1>7, SumOverUnion
  <1>9. SumFunctionOnSet(f, S) = NetOnAccount(a)
    <2>1. \A e \in S : f[e] = Signed[e]
      BY <1>5, SignedTypes DEF OnAccount
    <2>2. S = {e \in ledger_entries : e.account = a}
      BY DEF OnAccount
    <2>3. SumFunctionOnSet(f, S) = SumFunctionOnSet(Signed, S)
      <3> HIDE DEF S
      <3> QED BY <1>3, <2>1, SumCongruence
    <2> QED BY <2>2, <2>3 DEF NetOnAccount
  <1>10. SumFunctionOnSet(f, T) = NetOf(new, a)
    BY <1>5, NetIsSum
  <1> QED BY <1>6, <1>8, <1>9, <1>10

LEMMA NetIsInteger ==
    ASSUME TypeOK, IsFiniteSet(ledger_entries), NEW a
    PROVE  NetOnAccount(a) \in Int
  <1>1. IsFiniteSet({e \in ledger_entries : e.account = a})
    BY FS_Subset
  <1> QED BY <1>1, SignedTypes, SumType DEF NetOnAccount

(* Accounts that were both sides of a posting stay so, and a posting adds   *)
(* those that are both sides of it.                                         *)
LEMMA SelfPostedGrows ==
    ASSUME TypeOK, BalancedPostings, NEW id \in TransactionIds, NEW r \in Request,
           NEW new \in SUBSET LedgerEntry, PostingStep(id, r, new),
           DOMAIN accounts' = DOMAIN accounts, NEW a \in DOMAIN accounts, a \notin SelfPosted'
    PROVE  a \notin SelfPosted /\ ~BothSides(new, a)
  <1>1. /\ DOMAIN transactions' = DOMAIN transactions \cup {id}
        /\ ledger_entries' = ledger_entries \cup new
    BY PostedRow DEF PostingStep
  <1>2. \A x \in DOMAIN transactions : ~BothSides(EntriesOf(x)', a)
    BY <1>1 DEF SelfPosted, BothSides
  <1>3. ~BothSides(EntriesOf(id)', a)
    BY <1>1 DEF SelfPosted, BothSides
  <1>4. new \subseteq EntriesOf(id)'
    BY <1>1 DEF PostingStep, EntriesOf
  <1>5. \A x : EntriesOf(x) \subseteq EntriesOf(x)'
    BY <1>1 DEF EntriesOf
  <1>6. ~BothSides(new, a)
    BY <1>3, <1>4 DEF BothSides
  <1>7. \A x \in DOMAIN transactions : ~BothSides(EntriesOf(x), a)
    BY <1>2, <1>5 DEF BothSides
  <1> QED BY <1>6, <1>7 DEF SelfPosted

LEMMA PostingKeepsBook ==
    ASSUME TypeOK, TypeOK', PositiveEntries, BalancedPostings, BookInv, Next, AnyBookPosting
    PROVE  BookInv'
  <1>1. PICK id \in TransactionIds, r \in Request, new \in SUBSET LedgerEntry :
            BookPosting(id, r, new)
    BY DEF AnyBookPosting
  <1>2. /\ PostingStep(id, r, new)
        /\ OneEachWay(new)
        /\ DOMAIN accounts' = DOMAIN accounts
        /\ \A e \in new : e.account \in DOMAIN accounts
        /\ opening' = opening
        /\ ledger_entries' = ledger_entries \cup new
    BY <1>1 DEF BookPosting, PostingStep
  <1>3. NewEntries = new
    BY <1>2, AllNew
  <1>4. IsFiniteSet(ledger_entries')
    BY <1>2, OneEachWayIsFinite, FS_Union DEF BookInv
  <1>5. \A e, f \in ledger_entries' : e.tx = f.tx /\ e.direction = f.direction => e = f
    <2>1. \A e \in ledger_entries : e.tx # id
      BY <1>2, PostedRow DEF BalancedPostings
    <2>2. \A e \in new : e.tx = id
      BY <1>2 DEF PostingStep
    <2> QED BY <1>2, <2>1, <2>2 DEF OneEachWay, BookInv
  <1>6. \A e \in ledger_entries' : e.account \in DOMAIN accounts'
    BY <1>2 DEF BookInv
  <1>7. ASSUME NEW a \in DOMAIN accounts' \ SelfPosted'
        PROVE  accounts'[a].balance = opening'[a] + NetOnAccount(a)'
    <2>1. a \in DOMAIN accounts /\ a \notin SelfPosted /\ ~BothSides(new, a)
      BY <1>2, SelfPostedGrows
    <2>2. accounts'[a].balance = accounts[a].balance + NetOf(new, a)
      BY <1>3, <2>1, MoveStep DEF MovedWithEntries
    <2>3. NetOnAccount(a)' = NetOnAccount(a) + NetOf(new, a)
      BY <1>2, <2>1, NetGrows DEF BookInv
    <2>4. accounts[a].balance = opening[a] + NetOnAccount(a)
      BY <2>1 DEF BookInv, BalanceIsLedgerSum
    <2>5. opening[a] \in Int
      BY <2>1 DEF TypeOK, IsTable
    <2>6. NetOf(new, a) \in Int
      <3>1. \A d : Posted(new, a, d) \in Int
        BY <1>2, PostedFacts DEF PostingStep
      <3> QED BY <3>1 DEF NetOf
    <2>7. NetOnAccount(a) \in Int
      BY NetIsInteger DEF BookInv
    <2> QED BY <1>2, <2>2, <2>3, <2>4, <2>5, <2>6, <2>7
  <1>8. BalanceIsLedgerSum'
    BY <1>7 DEF BalanceIsLedgerSum
  <1> QED BY <1>4, <1>5, <1>6, <1>8 DEF BookInv

(* A new account has no entry: it starts with its opening balance.          *)
LEMMA CreateKeepsBook ==
    ASSUME TypeOK, BookInv, AnyCreate
    PROVE  BookInv'
  <1>1. PICK id \in Accounts, o \in OwnerTypes, c \in Currencies, b \in OpeningBalances :
            create_account(id, o, c, b)
    BY DEF AnyCreate
  <1> DEFINE row == [owner_type |-> o, currency |-> c, balance |-> b, status |-> "active"]
  <1>2. /\ id \notin DOMAIN accounts
        /\ accounts' = Insert(accounts, id, row)
        /\ opening' = [opening EXCEPT ![id] = b]
        /\ UNCHANGED <<ledger_entries, transactions>>
    BY <1>1 DEF create_account
  <1>3. row.balance = b /\ b \in Int
    BY EconomyAssumption DEF EconomyAssumption
  <1> HIDE DEF row
  <1>4. /\ DOMAIN accounts' = DOMAIN accounts \cup {id}
        /\ accounts'[id] = row
        /\ \A a \in DOMAIN accounts : accounts'[a] = accounts[a]
    BY <1>2 DEF Insert
  <1>5. /\ opening'[id] = b
        /\ \A a \in DOMAIN accounts : opening'[a] = opening[a]
    BY <1>2 DEF TypeOK, IsTable
  <1>6. \A a : NetOnAccount(a)' = NetOnAccount(a)
    BY <1>2 DEF NetOnAccount, Signed
  <1>7. NetOnAccount(id) = 0
    <2>1. {e \in ledger_entries : e.account = id} = {}
      BY <1>2 DEF BookInv
    <2> QED BY <2>1, SumOfNone DEF NetOnAccount
  <1>8. \A a \in DOMAIN accounts : a \in SelfPosted => a \in SelfPosted'
    BY <1>2, <1>4 DEF SelfPosted, EntriesOf, BothSides
  <1>9. ASSUME NEW a \in DOMAIN accounts' \ SelfPosted'
        PROVE  accounts'[a].balance = opening'[a] + NetOnAccount(a)'
    <2>1. CASE a = id
      BY <1>3, <1>4, <1>5, <1>6, <1>7, <2>1
    <2>2. CASE a \in DOMAIN accounts
      <3>1. accounts[a].balance = opening[a] + NetOnAccount(a)
        BY <1>8, <2>2 DEF BookInv, BalanceIsLedgerSum
      <3> QED BY <1>4, <1>5, <1>6, <2>2, <3>1
    <2> QED BY <1>4, <2>1, <2>2
  <1>10. BalanceIsLedgerSum'
    BY <1>9 DEF BalanceIsLedgerSum
  <1> QED BY <1>2, <1>4, <1>10 DEF BookInv

(* Every balance is the opening balance plus the credits minus the debits   *)
(* of the whole ledger, through any number of transfers, single-account     *)
(* calls, payments, voids and voids of voids, for every account that never  *)
(* paid itself.                                                             *)
THEOREM BalancesAreLedgerSums == Spec => []BalanceIsLedgerSum
  <1>1. Init => BookInv
    BY FS_EmptySet DEF Init, EmptyTable, BookInv, BalanceIsLedgerSum
  <1>2. IInv /\ IInv' /\ BookInv /\ [Next]_vars => BookInv'
    <2> SUFFICES ASSUME IInv, IInv', BookInv, [Next]_vars PROVE BookInv'
      OBVIOUS
    <2> USE DEF IInv
    <2>1. CASE Next
      <3>1. CASE UNCHANGED <<accounts, transactions, ledger_entries, opening>>
        <4>1. \A a : NetOnAccount(a)' = NetOnAccount(a)
          BY <3>1 DEF NetOnAccount, Signed
        <4>2. SelfPosted' = SelfPosted
          BY <3>1 DEF SelfPosted, EntriesOf, BothSides
        <4>3. BalanceIsLedgerSum'
          BY <3>1, <4>1, <4>2 DEF BookInv, BalanceIsLedgerSum
        <4> QED BY <3>1, <4>3 DEF BookInv
      <3> QED BY <2>1, <3>1, BookSteps, PostingKeepsBook, CreateKeepsBook
    <2>2. CASE UNCHANGED vars
      <3>1. UNCHANGED <<accounts, transactions, ledger_entries, opening>>
        BY <2>2 DEF vars
      <3>2. \A a : NetOnAccount(a)' = NetOnAccount(a)
        BY <3>1 DEF NetOnAccount, Signed
      <3>3. SelfPosted' = SelfPosted
        BY <3>1 DEF SelfPosted, EntriesOf, BothSides
      <3>4. BalanceIsLedgerSum'
        BY <3>1, <3>2, <3>3 DEF BookInv, BalanceIsLedgerSum
      <3> QED BY <3>1, <3>4 DEF BookInv
    <2> QED BY <2>1, <2>2
  <1>3. BookInv => BalanceIsLedgerSum
    BY DEF BookInv
  <1> QED BY <1>1, <1>2, <1>3, Invariance, PTL DEF Spec
=============================================================================
