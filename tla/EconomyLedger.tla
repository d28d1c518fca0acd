----------------------------- MODULE EconomyLedger -----------------------------
(***************************************************************************)
(* The economy service of the TypeScript core (src/core/economy.ts) and    *)
(* the gate plugins go through (src/core/plugin-economy-api.ts).           *)
(*                                                                         *)
(* The ledger is an object of a single-threaded program and no method      *)
(* awaits: a call is one action.  A call that throws changes nothing, and  *)
(* one that repeats a key returns what is stored: both are stuttering      *)
(* steps.  Ids are fresh, so a transaction and an invoice are known by     *)
(* their position in creation order.  A transaction has at most one debit  *)
(* and one credit entry, so its entries are one posting.  Blank strings,   *)
(* quantities and the CSV of a statement are left out.                     *)
(***************************************************************************)
EXTENDS Integers, Sequences, FiniteSetsExt

CONSTANTS
    AccountIds,     \* account ids a call may name
    OpeningAccounts,\* accountsById as the constructor gets it
    Limits,         \* the constructor's limits
    Actors,         \* principals
    Amounts,        \* amounts a call may name
    Currencies,     \* currencies a call may name
    Notes,          \* reasons, or items and quantities
    IdempotencyKeys,
    Granted,        \* <<actor, permission>> pairs PermissionEngine allows
    InvoiceKeys,    \* keys a call of issueInvoice may name, None among them
    Calls,          \* bound: <<key, from, to, amount>> of the calls made
    CapabilityRows, \* constraints a plugin's capability may have
    MaxMoves,       \* bound: transactions after which only voids are made
    MaxInvoices,    \* bound: invoices
    MaxTime,        \* bound: ticks of the clock
    None

VARIABLES
    accountsById,
    transactions,                   \* transactionsById, in creation order
    voidedTransactionIds,
    transactionsByIdempotencyKey,
    invoices,                       \* invoicesById, in creation order
    invoicesByIdempotencyKey,
    auditLogs,
    now,                            \* the clock
    capabilities,                   \* capabilities of the plugin's active deployment
    onDuty,                         \* actors actorState reports on duty
    madeByPlugin,                   \* history: transactions that came from the plugin
    balancesAt                      \* history: balances at the end of past ticks

ledgerVars == <<accountsById, transactions, voidedTransactionIds,
                transactionsByIdempotencyKey, auditLogs>>
invoiceVars == <<invoices, invoicesByIdempotencyKey>>
worldVars == <<now, capabilities, onDuty, balancesAt>>
vars == <<ledgerVars, invoiceVars, worldVars, madeByPlugin>>

-----------------------------------------------------------------------------
TransferTypes == {"economy.transfer", "economy.deposit_cash", "economy.withdraw_cash",
                  "economy.pay_salary", "economy.fine_player", "economy.buy_item",
                  "economy.sell_item", "economy.charge_tax", "economy.business_payout"}
OtherTypes == {"economy.admin.adjust_balance", "economy.void_transaction",
               "economy.pay_invoice"}
TransactionTypes == TransferTypes \cup OtherTypes
PermissionKeys == TransactionTypes \cup {"economy.issue_invoice"}
OwnerTypes == {"character", "business", "government", "society", "plugin"}
Account == [ownerType: OwnerTypes, currency: Currencies, balance: Nat,
            status: {"active", "frozen", "closed"}]
Limit == [permissionKey: PermissionKeys, actionType: TransactionTypes,
          maxAmount: Nat \cup {None}, allowedAccountOwnerTypes: (SUBSET OwnerTypes) \cup {None},
          enabled: BOOLEAN]
Constraint == [maxAmount: Nat \cup {None}, allowedAccountOwnerTypes: (SUBSET OwnerTypes) \cup {None},
               requiresOnDuty: BOOLEAN]

ASSUME LedgerAssumption ==
    /\ DOMAIN OpeningAccounts \subseteq AccountIds
    /\ OpeningAccounts \in [DOMAIN OpeningAccounts -> Account]
    /\ Amounts \subseteq Int
    /\ Limits \subseteq Limit
    /\ CapabilityRows \subseteq Constraint
    /\ None \notin AccountIds \cup Amounts \cup Nat

(* A posting debits one account or none and credits one or none.            *)
Posting(debit, credit, amount) == [debit |-> debit, credit |-> credit, amount |-> amount]
Reversed(p) == Posting(p.credit, p.debit, p.amount)
Touched(p) == {p.debit, p.credit} \ {None}
ledgerEntryNet(p, a) ==
    (IF p.credit = a THEN p.amount ELSE 0) - (IF p.debit = a THEN p.amount ELSE 0)

Init ==
    /\ accountsById = OpeningAccounts
    /\ transactions = <<>>
    /\ voidedTransactionIds = {}
    /\ transactionsByIdempotencyKey = [k \in {} |-> None]
    /\ invoices = <<>>
    /\ invoicesByIdempotencyKey = [k \in {} |-> None]
    /\ auditLogs = <<>>
    /\ now = 0
    /\ capabilities = [key \in {} |-> None]
    /\ onDuty = {}
    /\ madeByPlugin = {}
    /\ balancesAt = <<>>

-----------------------------------------------------------------------------
(* Checks.                                                                  *)
assertPermission(actor, permission) == <<actor, permission>> \in Granted

(* The fingerprint is the type with the whole input.  A key that is known   *)
(* ends a call, with the stored result or a conflict.                       *)
fingerprint(type, input) == [type |-> type, input |-> input]
(* Mutation: a repeated call is not recognised.                             *)
getIdempotentResult_Ignored(key) == FALSE
getIdempotentResult(key) == key \in DOMAIN transactionsByIdempotencyKey

AtMost(amount, max) == max # None => amount <= max
enforceLimits(type, amount, accounts) ==
    \A limit \in Limits :
        limit.enabled /\ limit.actionType = type /\ limit.permissionKey = type =>
            /\ AtMost(amount, limit.maxAmount)
            /\ limit.allowedAccountOwnerTypes # None =>
                    \A a \in accounts :
                        accountsById[a].ownerType \in limit.allowedAccountOwnerTypes

AreAccounts(ids) == ids \subseteq DOMAIN accountsById
Usable(ids, currency) ==
    \A a \in ids : accountsById[a].currency = currency /\ accountsById[a].status = "active"

(* The balances an audit entry shows as those before.  A void writes them   *)
(* entry by entry: where it debits and credits one account, the second      *)
(* entry overwrites what the first wrote, with the balance in between.      *)
Overwrites(type, p) == type = "economy.void_transaction" /\ p.debit = p.credit
BalancesBefore(type, p, creditFirst) ==
    [a \in Touched(p) |->
        IF ~Overwrites(type, p) THEN accountsById[a].balance
        ELSE IF creditFirst THEN accountsById[a].balance + p.amount
        ELSE accountsById[a].balance - p.amount]

(* The effects every posting method has in common: balances, transaction,   *)
(* audit entry with the balances before and after, and the stored result.   *)
(* creditFirst says whether the credit is the first of its entries.         *)
Record(type, input, p, extra, creditFirst) ==
    LET moved == [a \in DOMAIN accountsById |->
                    [accountsById[a] EXCEPT !.balance = @ + ledgerEntryNet(p, a)]]
        id == Len(transactions) + 1 IN
    /\ accountsById' = moved
    /\ transactions' = Append(transactions,
            [type |-> type, actorId |-> input.actor, idempotencyKey |-> input.key,
             posting |-> p, creditFirst |-> creditFirst, createdAt |-> now, about |-> extra])
    /\ auditLogs' = Append(auditLogs,
            [actionType |-> type, actorId |-> input.actor,
             before |-> BalancesBefore(type, p, creditFirst),
             after |-> [a \in Touched(p) |-> moved[a].balance]])
    /\ transactionsByIdempotencyKey' =
            [k \in DOMAIN transactionsByIdempotencyKey \cup {input.key} |->
                IF k = input.key THEN [fingerprint |-> fingerprint(type, input), result |-> id]
                ELSE transactionsByIdempotencyKey[k]]

-----------------------------------------------------------------------------
(* Transfers.                                                               *)

performTransfer(type, input, from, to, extra) ==
    /\ input.amount > 0
    /\ AreAccounts({from, to})
    /\ enforceLimits(type, input.amount, {from, to})
    /\ Usable({from, to}, input.currency)
    /\ accountsById[from].balance >= input.amount
    /\ Record(type, input, Posting(from, to, input.amount), extra, FALSE)

TransferInput == [actor: Actors, from: AccountIds, to: AccountIds, amount: Amounts,
                  currency: Currencies, note: Notes, key: IdempotencyKeys]
Transfer(type, input, from, to) ==
    /\ <<type, input.from, input.to, input.amount>> \in Calls
    /\ Len(transactions) < MaxMoves
    /\ ~getIdempotentResult(input.key)
    /\ assertPermission(input.actor, type)
    /\ performTransfer(type, input, from, to, None)
    /\ UNCHANGED <<voidedTransactionIds, invoiceVars, worldVars>>

(* `from' is the cash account of a deposit and the bank account of a        *)
(* withdrawal, the employer, the player, the payer, the business; of buyItem *)
(* the buyer, of sellItem the seller, who is paid.                          *)
transferMoney(input)  == Transfer("economy.transfer", input, input.from, input.to)
depositCash(input)    == Transfer("economy.deposit_cash", input, input.from, input.to)
withdrawCash(input)   == Transfer("economy.withdraw_cash", input, input.from, input.to)
paySalary(input)      == Transfer("economy.pay_salary", input, input.from, input.to)
finePlayer(input)     == Transfer("economy.fine_player", input, input.from, input.to)
chargeTax(input)      == Transfer("economy.charge_tax", input, input.from, input.to)
businessPayout(input) == Transfer("economy.business_payout", input, input.from, input.to)
buyItem(input)        == Transfer("economy.buy_item", input, input.from, input.to)
sellItem(input)       == Transfer("economy.sell_item", input, input.to, input.from)

AdjustInput == [actor: Actors, account: AccountIds, direction: {"debit", "credit"},
                amount: Amounts, currency: Currencies, note: Notes, key: IdempotencyKeys]
adminAdjustBalance(input) ==
    LET a == input.account
        type == "economy.admin.adjust_balance"
        p == IF input.direction = "debit" THEN Posting(a, None, input.amount)
             ELSE Posting(None, a, input.amount) IN
    /\ <<type, p.debit, p.credit, p.amount>> \in Calls
    /\ Len(transactions) < MaxMoves
    /\ ~getIdempotentResult(input.key)
    /\ assertPermission(input.actor, type)
    /\ input.amount > 0
    /\ AreAccounts({a})
    /\ enforceLimits(type, input.amount, {a})
    /\ Usable({a}, input.currency)
    /\ input.direction = "debit" => accountsById[a].balance >= input.amount
    /\ Record(type, input, p, None, FALSE)
    /\ UNCHANGED <<voidedTransactionIds, invoiceVars, worldVars>>

(* A void reverses the entries of any transaction, another void included,   *)
(* in their order, whatever the limits and the status of the accounts.      *)
VoidInput == [actor: Actors, transaction: DOMAIN transactions, note: Notes,
              key: IdempotencyKeys]
voidTransaction(input) ==
    /\ ~getIdempotentResult(input.key)
    /\ assertPermission(input.actor, "economy.void_transaction")
    /\ input.transaction \in DOMAIN transactions \ voidedTransactionIds
    /\ LET original == transactions[input.transaction]
           p == Reversed(original.posting) IN
        /\ p.debit # None => accountsById[p.debit].balance >= p.amount
        /\ Record("economy.void_transaction", input, p, input.transaction, ~original.creditFirst)
    /\ voidedTransactionIds' = voidedTransactionIds \cup {input.transaction}
    /\ UNCHANGED <<invoiceVars, worldVars>>

-----------------------------------------------------------------------------
(* Invoices.  Their keys are kept apart from those of transactions, and the *)
(* stored copy of an invoice keeps the status it was issued with.           *)
InvoiceInput == [actor: Actors, issuer: AccountIds, payer: AccountIds, amount: Amounts,
                 currency: Currencies, note: Notes, key: InvoiceKeys]
issueInvoice(input) ==
    /\ Len(invoices) < MaxInvoices
    /\ <<"economy.issue_invoice", input.payer, input.issuer, input.amount>> \in Calls
    /\ input.key \notin DOMAIN invoicesByIdempotencyKey
    /\ assertPermission(input.actor, "economy.issue_invoice")
    /\ input.amount > 0
    /\ AreAccounts({input.issuer, input.payer})
    /\ Usable({input.issuer, input.payer}, input.currency)
    /\ invoices' = Append(invoices,
            [issuer |-> input.issuer, payer |-> input.payer, amount |-> input.amount,
             currency |-> input.currency, status |-> "issued", issuedBy |-> input.actor])
    /\ invoicesByIdempotencyKey' =
            [k \in DOMAIN invoicesByIdempotencyKey \cup ({input.key} \ {None}) |->
                IF k = input.key
                THEN [fingerprint |-> fingerprint("economy.issue_invoice", input),
                      invoice |-> Len(invoices) + 1]
                ELSE invoicesByIdempotencyKey[k]]
    /\ UNCHANGED <<ledgerVars, worldVars>>

PayInput == [actor: Actors, invoice: DOMAIN invoices, key: IdempotencyKeys]

payInvoice(input) ==
    LET invoice == invoices[input.invoice] IN
    /\ Len(transactions) < MaxMoves
    /\ ~getIdempotentResult(input.key)
    /\ assertPermission(input.actor, "economy.pay_invoice")
    /\ invoice.status = "issued"
    /\ performTransfer("economy.pay_invoice",
            [actor |-> input.actor, key |-> input.key, invoice |-> input.invoice,
             amount |-> invoice.amount, currency |-> invoice.currency],
            invoice.payer, invoice.issuer, input.invoice)
    /\ invoices' = [invoices EXCEPT ![input.invoice].status = "paid"]
    /\ UNCHANGED <<voidedTransactionIds, invoicesByIdempotencyKey, worldVars>>

-----------------------------------------------------------------------------
(* Plugins call the ledger through a gate that holds them to the            *)
(* constraints of their capability.                                         *)

(* `amount' is None and `accounts' empty where the method passes none.      *)
(* Mutation: the account owner types are not compared.                      *)
assertCapability_AnyOwner(actor, key, amount, accounts) ==
    /\ key \in DOMAIN capabilities
    /\ LET constraint == capabilities[key] IN
        /\ amount # None =>
                amount > 0 /\ AtMost(amount, constraint.maxAmount)
        /\ constraint.requiresOnDuty => actor \in onDuty
assertCapability(actor, key, amount, accounts) ==
    /\ key \in DOMAIN capabilities
    /\ LET constraint == capabilities[key] IN
        /\ amount # None =>
                amount > 0 /\ AtMost(amount, constraint.maxAmount)
        /\ constraint.allowedAccountOwnerTypes # None =>
                \A a \in accounts :
                    /\ a \in DOMAIN accountsById
                    /\ accountsById[a].ownerType \in constraint.allowedAccountOwnerTypes
        /\ constraint.requiresOnDuty => actor \in onDuty

FromPlugin == madeByPlugin' = madeByPlugin \cup {Len(transactions) + 1}
AsPlugin(input, key, method) ==
    /\ assertCapability(input.actor, key, input.amount, {input.from, input.to})
    /\ method
    /\ FromPlugin

pluginBuyItem(input)        == AsPlugin(input, "economy.buy_item", buyItem(input))
pluginSellItem(input)       == AsPlugin(input, "economy.sell_item", sellItem(input))
pluginPaySalary(input)      == AsPlugin(input, "economy.pay_salary", paySalary(input))
pluginFinePlayer(input)     == AsPlugin(input, "economy.fine_player", finePlayer(input))
pluginChargeTax(input)      == AsPlugin(input, "economy.charge_tax", chargeTax(input))
pluginBusinessPayout(input) == AsPlugin(input, "economy.business_payout", businessPayout(input))
pluginIssueInvoice(input) ==
    /\ assertCapability(input.actor, "economy.issue_invoice", input.amount,
                        {input.issuer, input.payer})
    /\ issueInvoice(input)
    /\ UNCHANGED madeByPlugin
(* The amount and the accounts are the invoice's and are not looked at.     *)
pluginPayInvoice(input) ==
    /\ assertCapability(input.actor, "economy.pay_invoice", None, {})
    /\ payInvoice(input)
    /\ FromPlugin

-----------------------------------------------------------------------------
(* The surroundings: the clock, the deployment the capabilities come from,  *)
(* and the duty roster.                                                     *)
Tick ==
    /\ now < MaxTime
    /\ now' = now + 1
    /\ balancesAt' = Append(balancesAt, [a \in DOMAIN accountsById |-> accountsById[a].balance])
    /\ UNCHANGED <<ledgerVars, invoiceVars, capabilities, onDuty, madeByPlugin>>

Deploy ==
    /\ \E row \in CapabilityRows, keys \in {{}, PermissionKeys} :
            capabilities' = [key \in keys |-> row]
    /\ UNCHANGED <<ledgerVars, invoiceVars, now, onDuty, balancesAt, madeByPlugin>>
ChangeDuty ==
    /\ \E actor \in Actors : onDuty' \in {onDuty \cup {actor}, onDuty \ {actor}}
    /\ UNCHANGED <<ledgerVars, invoiceVars, now, capabilities, balancesAt, madeByPlugin>>

TransferStep ==
    \E input \in TransferInput :
        /\ \/ transferMoney(input)  \/ depositCash(input) \/ withdrawCash(input)
           \/ paySalary(input)      \/ finePlayer(input)  \/ chargeTax(input)
           \/ businessPayout(input) \/ buyItem(input)     \/ sellItem(input)
        /\ UNCHANGED madeByPlugin
OtherStep ==
    /\ \/ \E input \in AdjustInput : adminAdjustBalance(input)
       \/ \E input \in VoidInput : voidTransaction(input)
       \/ \E input \in InvoiceInput : issueInvoice(input)
       \/ \E input \in PayInput : payInvoice(input)
    /\ UNCHANGED madeByPlugin
PluginStep ==
    \/ \E input \in TransferInput :
        \/ pluginBuyItem(input)    \/ pluginSellItem(input)  \/ pluginPaySalary(input)
        \/ pluginFinePlayer(input) \/ pluginChargeTax(input) \/ pluginBusinessPayout(input)
    \/ \E input \in InvoiceInput : pluginIssueInvoice(input)
    \/ \E input \in PayInput : pluginPayInvoice(input)

Next == TransferStep \/ OtherStep \/ PluginStep \/ Tick \/ Deploy \/ ChangeDuty

Spec == Init /\ [][Next]_vars

-----------------------------------------------------------------------------
(***************************************************************************)
(* Reports.                                                                *)
(***************************************************************************)
EntriesOf(a) == {id \in DOMAIN transactions : a \in Touched(transactions[id].posting)}
Net(a) == [id \in DOMAIN transactions |-> ledgerEntryNet(transactions[id].posting, a)]
NetOver(ids, a) == SumFunctionOnSet(Net(a), ids)
OnSide(a, direction) ==
    [id \in DOMAIN transactions |->
        IF transactions[id].posting[direction] = a THEN transactions[id].posting.amount ELSE 0]
Side(ids, a, direction) == SumFunctionOnSet(OnSide(a, direction), ids)

(* The statement of an account over [from, to]; None leaves a side open.    *)
(* Mutation: entries made in the last tick of the range count as after it.  *)
buildAccountStatement_Exclusive(a, from, to) ==
    LET entries == EntriesOf(a)
        at(id) == transactions[id].createdAt
        inRange == {id \in entries : (from = None \/ at(id) >= from) /\ (to = None \/ at(id) <= to)}
        after == {id \in entries : to # None /\ at(id) >= to}
        closing == accountsById[a].balance - NetOver(after, a) IN
    [openingBalance |-> closing - NetOver(inRange, a), closingBalance |-> closing,
     totalDebits |-> Side(inRange, a, "debit"), totalCredits |-> Side(inRange, a, "credit")]
buildAccountStatement(a, from, to) ==
    LET entries == EntriesOf(a)
        at(id) == transactions[id].createdAt
        inRange == {id \in entries : (from = None \/ at(id) >= from) /\ (to = None \/ at(id) <= to)}
        after == {id \in entries : to # None /\ at(id) > to}
        closing == accountsById[a].balance - NetOver(after, a) IN
    [openingBalance |-> closing - NetOver(inRange, a), closingBalance |-> closing,
     totalDebits |-> Side(inRange, a, "debit"), totalCredits |-> Side(inRange, a, "credit")]

(* The activity reported for an account and a threshold; None leaves the    *)
(* criterion out.                                                           *)
findSuspiciousEconomyActivity(a, minAmount) ==
    {id \in DOMAIN transactions :
        LET t == transactions[id] IN
        /\ a # None => a \in Touched(t.posting)
        /\ minAmount # None => t.posting.amount >= minAmount
        /\ minAmount = None =>
                t.type \in {"economy.admin.adjust_balance", "economy.void_transaction"}}

-----------------------------------------------------------------------------
(***************************************************************************)
(* What the ledger guarantees.                                             *)
(***************************************************************************)

(* The tables are well formed, and every stored result is a transaction.    *)
LedgerTypeOK ==
    /\ accountsById \in [DOMAIN OpeningAccounts -> Account]
    /\ voidedTransactionIds \subseteq DOMAIN transactions
    /\ \A k \in DOMAIN transactionsByIdempotencyKey :
            transactionsByIdempotencyKey[k].result \in DOMAIN transactions
    /\ Len(auditLogs) = Len(transactions)

(* A statement asked for now over any past range shows the balances the     *)
(* account had then, whatever was voided or adjusted since; from the        *)
(* beginning it opens with what the constructor was given.                  *)
StatementsAreHistory ==
    \A a \in DOMAIN accountsById :
        /\ buildAccountStatement(a, None, None).openingBalance = OpeningAccounts[a].balance
        /\ \A t \in DOMAIN balancesAt :
            /\ buildAccountStatement(a, None, t - 1).closingBalance = balancesAt[t][a]
            /\ LET since == buildAccountStatement(a, t, None) IN
                /\ since.openingBalance = balancesAt[t][a]
                /\ since.openingBalance + since.totalCredits - since.totalDebits
                        = accountsById[a].balance

(* The audit trail of an account is a chain: each entry begins with the     *)
(* balance the previous one ended with, the first with the opening balance, *)
(* and the last one ends with the balance.  No method moves money without   *)
(* an audit entry that ends faithfully.  The void of a transaction between  *)
(* an account and itself leaves the balance as it is but shows another one  *)
(* as that before, the one between its entries (economy.ts:773).            *)
AuditsOf(a) == {i \in DOMAIN auditLogs : a \in DOMAIN auditLogs[i].before}
AuditChains ==
    \A a \in DOMAIN accountsById :
        LET trail == AuditsOf(a)
            previous(i) == {j \in trail : j < i}
            last(S) == CHOOSE j \in S : \A k \in S : k <= j
            endOf(S) == IF S = {} THEN OpeningAccounts[a].balance
                        ELSE auditLogs[last(S)].after[a] IN
        /\ \A i \in trail :
                IF Overwrites(transactions[i].type, transactions[i].posting)
                THEN /\ auditLogs[i].after[a] = endOf(previous(i))
                     /\ auditLogs[i].before[a] # auditLogs[i].after[a]
                ELSE auditLogs[i].before[a] = endOf(previous(i))
        /\ accountsById[a].balance = endOf(trail)

(* When a report for an account names nothing, no audit entry of it shows   *)
(* its balance moved by the threshold or more; and every voided transaction *)
(* is behind some entry of the report without a threshold.                  *)
LargeMovesAreReported ==
    /\ \A a \in DOMAIN accountsById, min \in Amounts :
        findSuspiciousEconomyActivity(a, min) = {} =>
            \A i \in AuditsOf(a) :
                auditLogs[i].after[a] - auditLogs[i].before[a] \in (-min + 1) .. (min - 1)
    /\ \A id \in voidedTransactionIds :
        \E v \in findSuspiciousEconomyActivity(None, None) : transactions[v].about = id

(* A transaction stands unless a standing void reverses it.                 *)
Standing[id \in DOMAIN transactions] ==
    ~\E v \in DOMAIN transactions :
        /\ v > id
        /\ transactions[v].type = "economy.void_transaction"
        /\ transactions[v].about = id
        /\ Standing[v]

(* Voids, voids of voids and so on leave an account with exactly what the   *)
(* standing transactions that are not voids give it: nothing is reversed    *)
(* twice and nothing half.                                                  *)
OnlyStandingCounts ==
    \A a \in DOMAIN accountsById :
        accountsById[a].balance = OpeningAccounts[a].balance
            + NetOver({id \in EntriesOf(a) : Standing[id]
                        /\ transactions[id].type # "economy.void_transaction"}, a)

(* An invoice is paid exactly when one transaction paid it, between its     *)
(* parties and for its amount.                                              *)
InvoicesPaidOnce ==
    \A i \in DOMAIN invoices :
        LET payments == {id \in DOMAIN transactions :
                            /\ transactions[id].type = "economy.pay_invoice"
                            /\ transactions[id].about = i} IN
        IF invoices[i].status = "issued" THEN payments = {}
        ELSE /\ Cardinality(payments) = 1
             /\ \A id \in payments : transactions[id].posting =
                    Posting(invoices[i].payer, invoices[i].issuer, invoices[i].amount)

(* Statements, audit trail, balances, invoices and reports of one ledger    *)
(* tell the same history, whatever was voided, retried or refused.          *)
RecordsTellHistory ==
    /\ LedgerTypeOK
    /\ StatementsAreHistory
    /\ AuditChains
    /\ OnlyStandingCounts
    /\ InvoicesPaidOnce
    /\ LargeMovesAreReported

WithinCapability ==
    \A id \in madeByPlugin' \ madeByPlugin :
        LET t == transactions'[id] IN
        /\ t.type \in DOMAIN capabilities
        /\ capabilities[t.type].requiresOnDuty => t.actorId \in onDuty
        /\ t.type # "economy.pay_invoice" =>
            /\ AtMost(t.posting.amount, capabilities[t.type].maxAmount)
            /\ capabilities[t.type].allowedAccountOwnerTypes # None =>
                    \A a \in Touched(t.posting) :
                        accountsById[a].ownerType \in capabilities[t.type].allowedAccountOwnerTypes

(* What a plugin moves itself is within the amount and between the owners   *)
(* its capability names when it is moved, and by an actor on duty where the *)
(* capability asks for it, whatever deployments change before and after.    *)
(* Payments of invoices are excepted: their amount and accounts are not     *)
(* looked at (plugin-economy-api.ts).                                       *)
PluginsStayWithinCapability == [][WithinCapability]_vars

(* The ledger implements AccountBook: each key enters one posting, balances *)
(* move by postings only and are never negative.                            *)
Balances == [a \in DOMAIN accountsById |-> accountsById[a].balance]
PostedByKey == [k \in DOMAIN transactionsByIdempotencyKey |->
                    transactions[transactionsByIdempotencyKey[k].result].posting]
Book == INSTANCE AccountBook WITH
            BookAccounts <- DOMAIN OpeningAccounts, Keys <- IdempotencyKeys,
            BookAmounts <- Amounts,
            Opening <- [a \in DOMAIN OpeningAccounts |-> OpeningAccounts[a].balance],
            balance <- Balances, posted <- PostedByKey
BookSpec == Book!Spec
=============================================================================
