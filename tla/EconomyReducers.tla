---------------------------- MODULE EconomyReducers ----------------------------
(***************************************************************************)
(* The economy reducers of the SpacetimeDB module                          *)
(* (spacetimedb/src/economy.rs).                                           *)
(*                                                                         *)
(* A reducer is one atomic transaction over the tables: it either runs to  *)
(* its end or returns Err (or panics on a duplicate primary key) and       *)
(* leaves every table as it was.  Each action below is therefore one       *)
(* successful call; a call that is rejected, and a call that is answered   *)
(* Ok because its idempotency key was already processed, change nothing    *)
(* and are the stuttering steps of the specification.                      *)
(*                                                                         *)
(* A table is a function whose domain is the set of its primary keys.      *)
(* Strings that the code only compares (account ids, reasons, item keys)   *)
(* are model values; blank-string checks are left out.                     *)
(***************************************************************************)
EXTENDS Integers, FiniteSets, Functions

CONSTANTS
    Accounts,        \* account ids
    Actors,          \* principals that call the reducers
    TransactionIds,  \* ids callers choose for transactions
    InvoiceIds,      \* ids callers choose for invoices
    IdempotencyKeys, \* idempotency keys callers choose
    LimitIds,        \* ids of economy_limits rows
    Items,           \* <item_key, quantity> pairs of buy_item and sell_item
    OwnerTypes,      \* account owner types
    Currencies,      \* currencies
    DueDates,        \* due dates an invoice may have
    OpeningBalances, \* balances create_account is called with
    Amounts,         \* amounts requests carry (any integer)
    TransferPairs,   \* <from, to> account pairs requests carry
    LimitRows,       \* limits of permissions that exist, as upsert_economy_limit gets them
    PermissionSets,  \* sets of permission keys an actor may hold
    CalledTypes,     \* transaction types clients call in an instance
    None             \* the absent value of an optional column

VARIABLES
    accounts,        \* accounts table
    transactions,    \* transactions table
    ledger_entries,  \* ledger_entries table
    invoices,        \* invoices table
    economy_limits,  \* economy_limits table
    audit_logs,      \* primary keys of the audit_logs rows of the economy
    permitted,       \* per actor, the permission keys it holds now
    opening          \* observer: the balance each account was created with

vars == <<accounts, transactions, ledger_entries, invoices, economy_limits,
          audit_logs, permitted, opening>>

(***************************************************************************)
(* Transaction types, by the helper that posts them.                       *)
(***************************************************************************)
ReasonedTransfers == {"economy.transfer", "economy.pay_salary", "economy.fine_player",
                      "economy.charge_tax", "economy.business_payout"}
ItemTransfers     == {"economy.buy_item", "economy.sell_item"}
SingleAccount     == {"economy.deposit_cash", "economy.withdraw_cash",
                      "economy.admin_adjust_balance"}
TransactionTypes  == ReasonedTransfers \cup ItemTransfers \cup SingleAccount
                        \cup {"economy.pay_invoice", "economy.void_transaction"}

(* The permission a transaction type needs: admin adjustments are checked   *)
(* under their public key, every other type under its own name.             *)
economy_permission_key(type) ==
    IF type = "economy.admin_adjust_balance" THEN "economy.admin.adjust_balance" ELSE type

PermissionKeys == {economy_permission_key(t) : t \in TransactionTypes}
                    \cup {"economy.issue_invoice"}

(***************************************************************************)
(* Rows.  A transaction row is kept together with the accounts and the     *)
(* amount of the call that made it (the code keeps those of an item sale   *)
(* only in the ledger entries).  `ref' is the item of an item sale, the    *)
(* invoice of a payment, the voided transaction of a void.                 *)
(***************************************************************************)
AccountRow == [owner_type: OwnerTypes, currency: Currencies, balance: Int,
               status: {"active"}]
Reference  == Items \cup InvoiceIds \cup TransactionIds \cup {None}
Request    == [type: TransactionTypes, actor: Actors, key: IdempotencyKeys,
               from: Accounts \cup {None}, to: Accounts \cup {None},
               amount: Int, ref: Reference]
LedgerEntry == [tx: TransactionIds, account: Accounts,
                direction: {"debit", "credit"}, amount: Int]
InvoiceRow == [issuer: Accounts, payer: Accounts, amount: Int, currency: Currencies,
               issued_by: Actors, key: IdempotencyKeys, due_at: DueDates \cup {None},
              status: {"issued", "paid"}]
LimitRow   == [permission_key: PermissionKeys \cup TransactionTypes,
               action_type: PermissionKeys \cup TransactionTypes,
               max_amount: Nat \cup {None},
               owner_types: SUBSET OwnerTypes, enabled: BOOLEAN]

(* Assumptions on the parameters.                                           *)
ASSUME EconomyAssumption ==
    /\ None \notin Accounts
    /\ OpeningBalances \subseteq Int
    /\ Amounts \subseteq Int
    /\ TransferPairs \subseteq Accounts \X Accounts
    /\ LimitRows \subseteq LimitRow
    /\ PermissionSets \subseteq SUBSET PermissionKeys

IsTable(t, ids, rows) == DOMAIN t \subseteq ids /\ t \in [DOMAIN t -> rows]
Insert(t, id, row)    == [x \in DOMAIN t \cup {id} |-> IF x = id THEN row ELSE t[x]]

TypeOK ==
    /\ IsTable(accounts, Accounts, AccountRow)
    /\ IsTable(transactions, TransactionIds, Request)
    /\ ledger_entries \subseteq LedgerEntry
    /\ IsTable(invoices, InvoiceIds, InvoiceRow)
    /\ IsTable(economy_limits, LimitIds, LimitRows)
    /\ audit_logs \subseteq TransactionIds \cup InvoiceIds
    /\ permitted \in [Actors -> SUBSET PermissionKeys]
    /\ opening \in [Accounts -> Int]

EmptyTable == [x \in {} |-> None]

Init ==
    /\ accounts = EmptyTable
    /\ transactions = EmptyTable
    /\ ledger_entries = {}
    /\ invoices = EmptyTable
    /\ economy_limits = EmptyTable
    /\ audit_logs = {}
    /\ permitted = [p \in Actors |-> PermissionKeys]
    /\ opening = [a \in Accounts |-> 0]

-----------------------------------------------------------------------------
(***************************************************************************)
(* Helpers the reducers share.                                             *)
(***************************************************************************)

(* Mutation: the fingerprint forgets the amount.                            *)
metadata_json_NoAmount(r) == [from |-> r.from, to |-> r.to, amount |-> 0, ref |-> r.ref]

(* The metadata_json column: what an identical retry is compared with.  The *)
(* item reducers store only the item key and the quantity.                  *)
metadata_json(r) ==
    IF r.type \in ItemTransfers
    THEN [from |-> None, to |-> None, amount |-> 0, ref |-> r.ref]
    ELSE [from |-> r.from, to |-> r.to, amount |-> r.amount, ref |-> r.ref]

(* Mutation: a used key is not noticed.                                     *)
transaction_exists_Never(key) == FALSE

(* transaction_exists: some transaction already carries the key.            *)
transaction_exists(key) == \E id \in DOMAIN transactions : transactions[id].key = key

(* ensure_idempotent_economy_action returns Ok(true): request r is answered *)
(* Ok without posting anything.                                             *)
AlreadyProcessed(r) ==
    \E id \in DOMAIN transactions :
        LET t == transactions[id] IN
        /\ t.key = r.key
        /\ t.type = r.type
        /\ t.actor = r.actor
        /\ metadata_json(t) = metadata_json(r)

(* assert_economy_permission.                                               *)
HasEconomyPermission(actor, type) == economy_permission_key(type) \in permitted[actor]

(* Mutation: the scan stops at the first row that lets the call through.     *)
WithinLimits_FirstRow(type, amount, accts) ==
    \/ economy_limits = EmptyTable
    \/ \E l \in DOMAIN economy_limits :
         LET limit == economy_limits[l] IN
         (limit.enabled /\ limit.permission_key = type /\ limit.action_type = type)
             => (limit.max_amount # None => amount <= limit.max_amount)

(* enforce_economy_limits: every enabled row whose permission key and       *)
(* action type are both the transaction type caps the amount and restricts  *)
(* the owner types of the accounts involved.                                *)
WithinLimits(type, amount, accts) ==
    \A l \in DOMAIN economy_limits :
        LET limit == economy_limits[l] IN
        (limit.enabled /\ limit.permission_key = type /\ limit.action_type = type)
            => /\ limit.max_amount # None => amount <= limit.max_amount
               /\ limit.owner_types # {} =>
                    \A a \in accts : accounts[a].owner_type \in limit.owner_types

ActiveAccounts(accts) ==
    /\ accts \subseteq DOMAIN accounts
    /\ \A a \in accts : accounts[a].status = "active"

HasFunds(account, amount) == accounts[account].balance >= amount

(* The rows every posting inserts; each insert aborts on a used key.        *)
Record(id, r) ==
    /\ id \notin DOMAIN transactions
    /\ transactions' = Insert(transactions, id, r)
    /\ id \notin audit_logs
    /\ audit_logs' = audit_logs \cup {id}

Entry(id, account, direction, amount) ==
    [tx |-> id, account |-> account, direction |-> direction, amount |-> amount]

(* The two entries of a transfer.                                           *)
TransferEntries(id, from, to, amount) ==
    {Entry(id, from, "debit", amount), Entry(id, to, "credit", amount)}

(* Mutation: the source account is not written back.                        *)
MoveBalance_CreditOnly(from, to, amount) ==
    accounts' = [accounts EXCEPT ![to].balance = accounts[to].balance + amount]

(* accounts().id().update(from) then update(to): both rows were read before *)
(* the first write, so the second write of a row wins.                      *)
MoveBalance(from, to, amount) ==
    LET debited == [accounts EXCEPT ![from].balance = accounts[from].balance - amount]
    IN  accounts' = [debited EXCEPT ![to].balance = accounts[to].balance + amount]

-----------------------------------------------------------------------------
(***************************************************************************)
(* Accounts and limits.                                                    *)
(***************************************************************************)
create_account(id, owner_type, currency, balance) ==
    /\ balance >= 0
    /\ id \notin DOMAIN accounts
    /\ accounts' = Insert(accounts, id, [owner_type |-> owner_type, currency |-> currency,
                                         balance |-> balance, status |-> "active"])
    /\ opening' = [opening EXCEPT ![id] = balance]
    /\ UNCHANGED <<transactions, ledger_entries, invoices, economy_limits, audit_logs, permitted>>

(* validate_economy_limit_json: a row has a positive maximum or a non-empty *)
(* set of owner types.                                                      *)
ValidLimit(row) ==
    /\ row.max_amount # None => row.max_amount > 0
    /\ row.max_amount # None \/ row.owner_types # {}

(* The reducer only inserts: a second call with the same id aborts.         *)
upsert_economy_limit(id, row) ==
    /\ ValidLimit(row)
    /\ id \notin DOMAIN economy_limits
    /\ economy_limits' = Insert(economy_limits, id, row)
    /\ UNCHANGED <<accounts, transactions, ledger_entries, invoices, audit_logs, permitted, opening>>

(* Grants, edges and expiry change what an actor may do at any time.        *)
ChangePermissions(actor, keys) ==
    /\ permitted' = [permitted EXCEPT ![actor] = keys]
    /\ UNCHANGED <<accounts, transactions, ledger_entries, invoices, economy_limits, audit_logs, opening>>

-----------------------------------------------------------------------------
(***************************************************************************)
(* post_account_transfer: transfers between two accounts.                  *)
(***************************************************************************)
post_account_transfer(id, r) ==
    /\ r.amount > 0
    /\ ~transaction_exists(r.key)
    /\ HasEconomyPermission(r.actor, r.type)
    /\ ActiveAccounts({r.from, r.to})
    /\ accounts[r.from].currency = accounts[r.to].currency
    /\ WithinLimits(r.type, r.amount, {r.from, r.to})
    /\ HasFunds(r.from, r.amount)
    /\ MoveBalance(r.from, r.to, r.amount)
    /\ Record(id, r)
    /\ ledger_entries' = ledger_entries \cup TransferEntries(id, r.from, r.to, r.amount)
    /\ UNCHANGED <<invoices, economy_limits, permitted, opening>>

(* A call of one of the transfer reducers.                                  *)
TransferCall(type, actor, key, pair, amount, ref) ==
    [type |-> type, actor |-> actor, key |-> key, from |-> pair[1], to |-> pair[2],
     amount |-> amount, ref |-> ref]

transfer_money(id, actor, key, pair, amount) ==
    post_account_transfer(id, TransferCall("economy.transfer", actor, key, pair, amount, None))
pay_salary(id, actor, key, pair, amount) ==
    post_account_transfer(id, TransferCall("economy.pay_salary", actor, key, pair, amount, None))
fine_player(id, actor, key, pair, amount) ==
    post_account_transfer(id, TransferCall("economy.fine_player", actor, key, pair, amount, None))
charge_tax(id, actor, key, pair, amount) ==
    post_account_transfer(id, TransferCall("economy.charge_tax", actor, key, pair, amount, None))
business_payout(id, actor, key, pair, amount) ==
    post_account_transfer(id, TransferCall("economy.business_payout", actor, key, pair, amount, None))
(* The buyer pays in both item reducers; sell_item only names the seller    *)
(* first.                                                                   *)
buy_item(id, actor, key, pair, amount, item) ==
    post_account_transfer(id, TransferCall("economy.buy_item", actor, key, pair, amount, item))
sell_item(id, actor, key, pair, amount, item) ==
    post_account_transfer(id, TransferCall("economy.sell_item", actor, key, pair, amount, item))

(***************************************************************************)
(* post_single_account_transaction: one account is credited or debited and *)
(* nothing is posted on the other side.                                    *)
(***************************************************************************)
post_single_account_transaction(id, type, actor, key, account, direction, amount) ==
    LET debit == direction = "debit"
        r == [type |-> type, actor |-> actor, key |-> key, amount |-> amount, ref |-> None,
              from |-> IF debit THEN account ELSE None, to |-> IF debit THEN None ELSE account]
    IN  /\ amount > 0
        /\ ~transaction_exists(key)
        /\ HasEconomyPermission(actor, type)
        /\ ActiveAccounts({account})
        /\ WithinLimits(type, amount, {account})
        /\ debit => HasFunds(account, amount)
        /\ accounts' = [accounts EXCEPT ![account].balance =
                            IF debit THEN @ - amount ELSE @ + amount]
        /\ Record(id, r)
        /\ ledger_entries' = ledger_entries \cup {Entry(id, account, direction, amount)}
        /\ UNCHANGED <<invoices, economy_limits, permitted, opening>>

deposit_cash(id, actor, key, account, amount) ==
    post_single_account_transaction(id, "economy.deposit_cash", actor, key, account, "credit", amount)
withdraw_cash(id, actor, key, account, amount) ==
    post_single_account_transaction(id, "economy.withdraw_cash", actor, key, account, "debit", amount)
admin_adjust_balance(id, actor, key, account, direction, amount) ==
    post_single_account_transaction(id, "economy.admin_adjust_balance", actor, key, account,
                                    direction, amount)

-----------------------------------------------------------------------------
(***************************************************************************)
(* void_transaction: post the entries of a completed transaction again in  *)
(* the opposite direction.                                                 *)
(***************************************************************************)
(* Mutation: the entries are posted again as they were.                     *)
reverse_ledger_direction_Same(direction) == direction

reverse_ledger_direction(direction) == IF direction = "debit" THEN "credit" ELSE "debit"

EntriesOf(tx) == {e \in ledger_entries : e.tx = tx}
Reversals(id, voided) ==
    {Entry(id, e.account, reverse_ledger_direction(e.direction), e.amount) : e \in EntriesOf(voided)}

(* What a set of entries of one transaction adds to an account; a           *)
(* transaction has at most one entry of each direction.                     *)
Posted(entries, account, direction) ==
    IF \E e \in entries : e.account = account /\ e.direction = direction
    THEN (CHOOSE e \in entries : e.account = account /\ e.direction = direction).amount
    ELSE 0
NetOf(entries, account) == Posted(entries, account, "credit") - Posted(entries, account, "debit")

(* Mutation: an earlier void is not looked for.                             *)
IsVoided_Never(tx) == FALSE

IsVoided(tx) == \E id \in DOMAIN transactions :
                    /\ transactions[id].type = "economy.void_transaction"
                    /\ transactions[id].ref = tx

void_transaction(id, actor, key, voided) ==
    LET r == [type |-> "economy.void_transaction", actor |-> actor, key |-> key,
              from |-> None, to |-> None, amount |-> 0, ref |-> voided]
        reversals == Reversals(id, voided)
    IN  /\ ~transaction_exists(key)
        /\ HasEconomyPermission(actor, "economy.void_transaction")
        /\ ~IsVoided(voided)
        /\ voided \in DOMAIN transactions
        /\ reversals # {}
        /\ ActiveAccounts({e.account : e \in reversals})
        /\ \A e \in reversals : e.direction = "debit" => HasFunds(e.account, e.amount)
        /\ accounts' = [a \in DOMAIN accounts |->
                            [accounts[a] EXCEPT !.balance = @ + NetOf(reversals, a)]]
        /\ Record(id, r)
        /\ ledger_entries' = ledger_entries \cup reversals
        /\ UNCHANGED <<invoices, economy_limits, permitted, opening>>

-----------------------------------------------------------------------------
(***************************************************************************)
(* Invoices.                                                               *)
(***************************************************************************)
issue_invoice(id, issuer, payer, amount, currency, issued_by, key, due_at) ==
    /\ \A i \in DOMAIN invoices : invoices[i].key # key
    /\ amount > 0
    /\ HasEconomyPermission(issued_by, "economy.issue_invoice")
    /\ ActiveAccounts({issuer, payer})
    /\ accounts[issuer].currency = currency
    /\ accounts[payer].currency = currency
    /\ id \notin DOMAIN invoices
    /\ invoices' = Insert(invoices, id, [issuer |-> issuer, payer |-> payer, amount |-> amount,
                                         currency |-> currency, issued_by |-> issued_by,
                                         key |-> key, due_at |-> due_at,
                                         status |-> "issued"])
    /\ id \notin audit_logs
    /\ audit_logs' = audit_logs \cup {id}
    /\ UNCHANGED <<accounts, transactions, ledger_entries, economy_limits, permitted, opening>>

(* Mutation: a paid invoice may be paid again.                              *)
IsPayable_Any(invoice_id) == TRUE

IsPayable(invoice_id) == invoices[invoice_id].status = "issued"

Settled(invoice) == [invoice EXCEPT !.status = "paid"]

pay_invoice(id, actor, invoice_id, key) ==
    LET invoice == invoices[invoice_id]
        r == [type |-> "economy.pay_invoice", actor |-> actor, key |-> key,
              from |-> invoice.payer, to |-> invoice.issuer, amount |-> invoice.amount,
              ref |-> invoice_id]
    IN  /\ invoice_id \in DOMAIN invoices
        /\ ~transaction_exists(key)
        /\ HasEconomyPermission(actor, "economy.pay_invoice")
        /\ IsPayable(invoice_id)
        /\ invoice.amount > 0
        /\ ActiveAccounts({invoice.payer, invoice.issuer})
        /\ accounts[invoice.payer].currency = invoice.currency
        /\ accounts[invoice.issuer].currency = invoice.currency
        /\ WithinLimits("economy.pay_invoice", invoice.amount, {invoice.payer, invoice.issuer})
        /\ HasFunds(invoice.payer, invoice.amount)
        /\ MoveBalance(invoice.payer, invoice.issuer, invoice.amount)
        /\ Record(id, r)
        /\ ledger_entries' = ledger_entries \cup
                TransferEntries(id, invoice.payer, invoice.issuer, invoice.amount)
        /\ invoices' = [invoices EXCEPT ![invoice_id] = Settled(invoice)]
        /\ UNCHANGED <<economy_limits, permitted, opening>>

-----------------------------------------------------------------------------
(* The calls of the reducers that move money between two accounts or on one *)
(* account, with the types an instance lets clients call.                   *)
TransferStep(id, actor, key, pair, amount) ==
    \/ "economy.transfer" \in CalledTypes /\ transfer_money(id, actor, key, pair, amount)
    \/ "economy.pay_salary" \in CalledTypes /\ pay_salary(id, actor, key, pair, amount)
    \/ "economy.fine_player" \in CalledTypes /\ fine_player(id, actor, key, pair, amount)
    \/ "economy.charge_tax" \in CalledTypes /\ charge_tax(id, actor, key, pair, amount)
    \/ "economy.business_payout" \in CalledTypes /\ business_payout(id, actor, key, pair, amount)
    \/ \E item \in Items :
         \/ "economy.buy_item" \in CalledTypes /\ buy_item(id, actor, key, pair, amount, item)
         \/ "economy.sell_item" \in CalledTypes /\ sell_item(id, actor, key, pair, amount, item)

SingleAccountStep(id, actor, key, account, amount) ==
    \/ "economy.deposit_cash" \in CalledTypes /\ deposit_cash(id, actor, key, account, amount)
    \/ "economy.withdraw_cash" \in CalledTypes /\ withdraw_cash(id, actor, key, account, amount)
    \/ /\ "economy.admin_adjust_balance" \in CalledTypes
       /\ \E direction \in {"debit", "credit"} :
            admin_adjust_balance(id, actor, key, account, direction, amount)

InvoiceStep(actor, key) ==
    \/ /\ "economy.issue_invoice" \in CalledTypes
       /\ \E id \in InvoiceIds, pair \in TransferPairs, amount \in Amounts, c \in Currencies,
             due_at \in DueDates \cup {None} :
            issue_invoice(id, pair[2], pair[1], amount, c, actor, key, due_at)
    \/ /\ "economy.pay_invoice" \in CalledTypes
       /\ \E id \in TransactionIds, invoice_id \in InvoiceIds :
            pay_invoice(id, actor, invoice_id, key)

VoidStep(id, actor, key) ==
    /\ "economy.void_transaction" \in CalledTypes
    /\ \E voided \in TransactionIds : void_transaction(id, actor, key, voided)

AdministrationStep ==
    \/ \E id \in Accounts, o \in OwnerTypes, c \in Currencies, b \in OpeningBalances :
         create_account(id, o, c, b)
    \/ \E id \in LimitIds, row \in LimitRows : upsert_economy_limit(id, row)
    \/ \E actor \in Actors, keys \in PermissionSets : ChangePermissions(actor, keys)

Next ==
    \/ AdministrationStep
    \/ \E actor \in Actors, key \in IdempotencyKeys :
         \/ InvoiceStep(actor, key)
         \/ \E id \in TransactionIds :
              \/ VoidStep(id, actor, key)
              \/ \E amount \in Amounts :
                   \/ \E pair \in TransferPairs : TransferStep(id, actor, key, pair, amount)
                   \/ \E account \in Accounts : SingleAccountStep(id, actor, key, account, amount)

Spec == Init /\ [][Next]_vars

-----------------------------------------------------------------------------
(***************************************************************************)
(* Correctness.                                                            *)
(***************************************************************************)

(* No account is ever overdrawn: every debit, including the debits a void   *)
(* posts against balances it checked before it changed any of them, leaves  *)
(* its account at zero or more.                                             *)
NonNegativeBalances == \A a \in DOMAIN accounts : accounts[a].balance >= 0

(* The transactions table has no unique index on idempotency_key; the scan  *)
(* in ensure_idempotent_economy_action must still keep two transactions     *)
(* from ever sharing a key.                                                 *)
KeyPostsOnce ==
    \A s, t \in DOMAIN transactions : transactions[s].key = transactions[t].key => s = t

(* A transaction is voided at most once, a void never voids itself, and it  *)
(* voids something that was posted.                                         *)
VoidedAtMostOnce ==
    \A s \in DOMAIN transactions : transactions[s].type = "economy.void_transaction" =>
        /\ transactions[s].ref \in DOMAIN transactions \ {s}
        /\ \A t \in DOMAIN transactions :
              (/\ transactions[t].type = "economy.void_transaction"
               /\ transactions[t].ref = transactions[s].ref) => t = s

(* The transactions that paid an invoice.                                   *)
PaymentsOf(i) == {id \in DOMAIN transactions :
                    transactions[id].type = "economy.pay_invoice" /\ transactions[id].ref = i}

(* An invoice is marked paid exactly when one payment of exactly its amount *)
(* from its payer to its issuer was posted, however many callers race to    *)
(* pay it and under however many keys.                                      *)
InvoicePaidOnce ==
    /\ \A i \in DOMAIN invoices :
         /\ (invoices[i].status = "paid") <=> (PaymentsOf(i) # {})
         /\ \A s, t \in PaymentsOf(i) : s = t
         /\ \A s \in PaymentsOf(i) :
              /\ transactions[s].from = invoices[i].payer
              /\ transactions[s].to = invoices[i].issuer
              /\ transactions[s].amount = invoices[i].amount
    /\ \A i \in InvoiceIds \ DOMAIN invoices : PaymentsOf(i) = {}

(* Every transaction has the entries its type promises - one debit and one  *)
(* equal credit for a transfer, one entry for a single-account call, the    *)
(* mirror image of the voided entries for a void - and there is no entry    *)
(* without its transaction.                                                 *)
Mirrors(entries, others) ==
    \A e \in entries : \E o \in others :
        o.account = e.account /\ o.amount = e.amount /\ o.direction # e.direction

EntriesMatch(id, t, entries, voided_entries) ==
    CASE t.type \in SingleAccount ->
           \E d \in {"debit", "credit"}, a \in Accounts :
              /\ a = (IF d = "debit" THEN t.from ELSE t.to)
              /\ entries = {Entry(id, a, d, t.amount)}
      [] t.type = "economy.void_transaction" ->
           /\ entries # {}
           /\ Mirrors(entries, voided_entries)
           /\ Mirrors(voided_entries, entries)
      [] OTHER ->
           entries = TransferEntries(id, t.from, t.to, t.amount)

EntriesMatchTransaction(id) ==
    EntriesMatch(id, transactions[id], EntriesOf(id), EntriesOf(transactions[id].ref))

BalancedPostings ==
    /\ \A id \in DOMAIN transactions : EntriesMatchTransaction(id)
    /\ \A e \in ledger_entries : e.tx \in DOMAIN transactions

(* Every transaction and every invoice has its audit row and every audit    *)
(* row has its cause.  Both kinds of row are named `<id>:audit', so an      *)
(* invoice and a transaction can never carry the same id.                   *)
AuditComplete ==
    /\ audit_logs = DOMAIN transactions \cup DOMAIN invoices
    /\ DOMAIN transactions \cap DOMAIN invoices = {}

(* The books are in order after any calls: rows of the right shape, no      *)
(* account overdrawn, every posting balanced by its entries, and an audit   *)
(* row for everything that happened.                                        *)
LedgerIsSound ==
    /\ TypeOK
    /\ NonNegativeBalances
    /\ BalancedPostings
    /\ AuditComplete

(* A request with a used key is answered Ok only when it repeats the        *)
(* request the key was used for; any other payload is a conflict.  Item     *)
(* sales are left out: their fingerprint has no accounts and no amount.     *)
AnsweredOnlyForItself(id) ==
    \A f, t \in Accounts \cup {None}, n \in Amounts :
        LET r == [transactions[id] EXCEPT !.from = f, !.to = t, !.amount = n] IN
        AlreadyProcessed(r) => r = transactions[id]

RetrySafe ==
    \A id \in DOMAIN transactions :
        transactions[id].type \notin ItemTransfers => AnsweredOnlyForItself(id)

(* Posted history is final: no step changes or removes a transaction, an    *)
(* entry or an audit row, and a void is a new posting, not an edit.         *)
HistoryIsFinal ==
    [][/\ ledger_entries \subseteq ledger_entries'
       /\ audit_logs \subseteq audit_logs'
       /\ \A id \in DOMAIN transactions :
            id \in DOMAIN transactions' /\ transactions'[id] = transactions[id]]_vars

(* A step changes a balance by exactly what the entries it adds say, for    *)
(* every account that is not both sides of the posting.                     *)
NewEntries == ledger_entries' \ ledger_entries
BothSides(entries, a) ==
    \E d, c \in entries : /\ d.account = a /\ d.direction = "debit"
                           /\ c.account = a /\ c.direction = "credit"
BalanceMovesWithLedger ==
    [][\A a \in DOMAIN accounts :
          ~BothSides(NewEntries, a) =>
             /\ a \in DOMAIN accounts'
             /\ accounts'[a].balance = accounts[a].balance + NetOf(NewEntries, a)]_vars

(* The same for every account, self-transfers included: money moves only    *)
(* with balanced debit and credit entries (docs/production-readiness.md).   *)
EveryBalanceMoveLedgered ==
    [][\A a \in DOMAIN accounts :
          accounts'[a].balance = accounts[a].balance + NetOf(NewEntries, a)]_vars

(* A posting keeps to every enabled limit of its own type and permission:   *)
(* to the amount, and each account an entry is posted on has an owner the   *)
(* limit allows, however many limits there are and whenever they were       *)
(* added.  Voids ask no limit, and a limit on adjustments is looked up      *)
(* under another key than the permission's.                                 *)
PostedWithinLimits ==
    [][\A id \in DOMAIN transactions' \ DOMAIN transactions,
          l \in DOMAIN economy_limits :
          LET t == transactions'[id]
              limit == economy_limits[l]
          IN  (/\ limit.enabled
               /\ limit.permission_key = economy_permission_key(t.type)
               /\ limit.action_type = t.type
               /\ t.type \notin {"economy.admin_adjust_balance", "economy.void_transaction"})
              => /\ limit.max_amount # None => \A e \in NewEntries : e.amount <= limit.max_amount
                 /\ limit.owner_types # {} =>
                        \A e \in NewEntries : accounts[e.account].owner_type \in limit.owner_types]_vars

(* What an entry adds to its account, and what the entries of the whole     *)
(* ledger add to an account.                                                *)
Signed == [e \in ledger_entries |-> IF e.direction = "credit" THEN e.amount ELSE -e.amount]
NetOnAccount(a) == SumFunctionOnSet(Signed, {e \in ledger_entries : e.account = a})

(* Accounts that were both sides of one posting.                            *)
SelfPosted == {a \in DOMAIN accounts :
                 \E id \in DOMAIN transactions : BothSides(EntriesOf(id), a)}

(* The balance of an account is its opening balance plus its credits minus  *)
(* its debits, over the whole history of transfers, voids and voids of      *)
(* voids, for every account that was never both sides of one posting.       *)
BalanceIsLedgerSum ==
    \A a \in DOMAIN accounts \ SelfPosted :
        accounts[a].balance = opening[a] + NetOnAccount(a)

=============================================================================
