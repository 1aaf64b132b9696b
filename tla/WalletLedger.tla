---------------------------- MODULE WalletLedger ----------------------------
(***************************************************************************)
(* The wallet ledger: wallet_apply_posting, the only function that moves    *)
(* money, and the callers of src/wallet/core.rs that reserve and settle.   *)
(* Every action is one database transaction; all of them take the identity *)
(* authority lock first and then the owner and account rows, so they are   *)
(* serialized and an action is atomic.                                     *)
(*                                                                         *)
(* A CHECK constraint that can really abort a posting is a guard here      *)
(* (the 2^63-1 limit).  The UNIQUE indexes and the deferred integrity       *)
(* triggers are not guards: they are the invariants below, so the model    *)
(* shows that the functions themselves never run into them.                *)
(***************************************************************************)
EXTENDS WalletAccounts, Integers, FiniteSets

CONSTANTS
    OpIds,      \* UUIDs of wallet_operations
    Subjects,   \* (subject_kind, subject_id): what is being paid for
    Refs,       \* ids of requests and of ticket management refunds
    Amounts,    \* amounts the callers ask for, in minor units
    MaxMinor,   \* stands for 2^63-1, the limit of available plus hold
    NoOp,       \* operation_id IS NULL
    NoAccount,
    NoSubject

ASSUME AmountsAssumption == MaxMinor \in Nat /\ Amounts \subseteq 1..MaxMinor
ASSUME OpIdsAssumption == NoOp \notin OpIds /\ IsFiniteSet(OpIds)
ASSUME NoAccountAssumption == NoAccount \notin Accounts
ASSUME NoSubjectAssumption == NoSubject \notin Subjects

VARIABLES
    available,  \* wallet_accounts.available_balance
    hold,       \* wallet_accounts.hold_balance
    version,    \* wallet_accounts.version
    ops,        \* wallet_operations
    ledger      \* wallet_ledger_entries

balanceVars == <<available, hold, version, ops, ledger>>
ledgerVars == <<accountVars, balanceVars>>

-----------------------------------------------------------------------------
(* Rows *)

Live == {"reserved", "reconciliation"}
Terminal == {"captured", "released"}

Credits == {"deposit", "manual_credit"}
SettlementTypes == {"booking_hold", "booking_confirm", "hold_release"}
TransactionTypes == Credits \cup SettlementTypes \cup {"manual_debit", "refund"}

\* The id of a row that was not inserted.
Unused == [state |-> "none", account |-> NoAccount, subject |-> NoSubject,
           amount |-> 0, refunded |-> 0]

Operation ==
    [state: Live \cup Terminal, account: Accounts, subject: Subjects,
     amount: 1..MaxMinor, refunded: 0..MaxMinor]

\* Idempotency keys: "reserve:{op}", "captured:{op}", "released:{op}",
\* "request:{id}" and "ticket-management:{id}:{op}".
Key == ({"reserve", "captured", "released"} \X OpIds)
       \cup ({"request", "refund"} \X Refs)

Entry ==
    [account: Accounts, sequence: Nat \ {0}, type: TransactionTypes,
     amount: 1..MaxMinor, op: OpIds \cup {NoOp}, key: Key,
     availableBefore: 0..MaxMinor, availableAfter: 0..MaxMinor,
     holdBefore: 0..MaxMinor, holdAfter: 0..MaxMinor]

EntriesOf(a) == {e \in ledger : e.account = a}

BalancesInit ==
    /\ available = [a \in Accounts |-> 0]
    /\ hold = [a \in Accounts |-> 0]
    /\ version = [a \in Accounts |-> 0]
    /\ ops = [o \in OpIds |-> Unused]
    /\ ledger = {}

Init == AccountsInit /\ BalancesInit

-----------------------------------------------------------------------------
(* wallet_apply_posting *)

\* BUG: a release takes the hold but does not give it back.
AvailableDeltaLost(type, amount) ==
    CASE type \in Credits \cup {"refund"}           -> amount
      [] type \in {"manual_debit", "booking_hold"}  -> -amount
      [] OTHER                                      -> 0

AvailableDelta(type, amount) ==
    CASE type \in Credits \cup {"refund", "hold_release"} -> amount
      [] type \in {"manual_debit", "booking_hold"}        -> -amount
      [] OTHER                                            -> 0

HoldDelta(type, amount) ==
    CASE type = "booking_hold"                        -> amount
      [] type \in {"booking_confirm", "hold_release"} -> -amount
      [] OTHER                                        -> 0

\* BUG: the idempotency key is not looked up.
NotPostedAnyKey(a, key) == TRUE

\* A posting under a key that was already used returns the old entry, or
\* fails when any of its parameters differ: either way nothing changes.
NotPosted(a, key) == \A e \in EntriesOf(a) : e.key # key

\* BUG: a refund is compared with the captured amount, not with what is left.
ReservationAllowsRepeatedRefund(table, a, type, amount, o) ==
    /\ type \in SettlementTypes =>
          /\ table[o].account = a
          /\ table[o].amount = amount
          /\ table[o].state \in Live
    /\ type = "refund" =>
          /\ table[o].account = a
          /\ table[o].state = "captured"
          /\ amount <= table[o].amount

\* A posting against an operation must match the row it settles.
ReservationAllows(table, a, type, amount, o) ==
    /\ type \in SettlementTypes =>
          /\ table[o].account = a
          /\ table[o].amount = amount
          /\ table[o].state \in Live
    /\ type = "refund" =>
          /\ table[o].account = a
          /\ table[o].state = "captured"
          /\ amount <= table[o].amount - table[o].refunded

\* A frozen owner may not spend; settlement, refunds and credits go on.
OwnerAllows(a, type) ==
    type \in {"booking_hold", "manual_debit"} => status[OwnerOf[a]] = "active"

\* BUG: funds are checked as a whole, so that a hold can be spent.
FundsAllowHold(nextAvailable, nextHold) ==
    nextAvailable + nextHold \in 0..MaxMinor

\* INSUFFICIENT_FUNDS, WALLET_RESERVATION_MISMATCH and the CHECK constraint
\* on the sum of both balances.
FundsAllow(nextAvailable, nextHold) ==
    /\ nextAvailable >= 0
    /\ nextHold >= 0
    /\ nextAvailable + nextHold <= MaxMinor

\* BUG: a release leaves the operation reserved.
AfterPostingReserved(table, type, amount, o) ==
    CASE type = "booking_confirm" -> [table EXCEPT ![o].state = "captured"]
      [] type = "refund"          -> [table EXCEPT ![o].refunded = @ + amount]
      [] OTHER                    -> table

AfterPosting(table, type, amount, o) ==
    CASE type = "booking_confirm" -> [table EXCEPT ![o].state = "captured"]
      [] type = "hold_release"    -> [table EXCEPT ![o].state = "released"]
      [] type = "refund"          -> [table EXCEPT ![o].refunded = @ + amount]
      [] OTHER                    -> table

\* BUG: the balance after the entry is the one before it.
NewEntryStale(a, type, amount, o, key) ==
    [account |-> a, sequence |-> version[a] + 1, type |-> type,
     amount |-> amount, op |-> o, key |-> key,
     availableBefore |-> available[a], availableAfter |-> available[a],
     holdBefore |-> hold[a], holdAfter |-> hold[a]]

NewEntry(a, type, amount, o, key) ==
    [account |-> a, sequence |-> version[a] + 1, type |-> type,
     amount |-> amount, op |-> o, key |-> key,
     availableBefore |-> available[a],
     availableAfter |-> available[a] + AvailableDelta(type, amount),
     holdBefore |-> hold[a],
     holdAfter |-> hold[a] + HoldDelta(type, amount)]

\* "table" is wallet_operations as the enclosing transaction sees it: reserve
\* inserts its row before it posts.
Post(table, a, type, amount, o, key) ==
    LET nextAvailable == available[a] + AvailableDelta(type, amount)
        nextHold == hold[a] + HoldDelta(type, amount)
    IN  /\ a \in open
        /\ NotPosted(a, key)
        /\ ReservationAllows(table, a, type, amount, o)
        /\ OwnerAllows(a, type)
        /\ FundsAllow(nextAvailable, nextHold)
        /\ ledger' = ledger \cup {NewEntry(a, type, amount, o, key)}
        /\ available' = [available EXCEPT ![a] = nextAvailable]
        /\ hold' = [hold EXCEPT ![a] = nextHold]
        /\ version' = [version EXCEPT ![a] = @ + 1]
        /\ ops' = AfterPosting(table, type, amount, o)
        /\ UNCHANGED accountVars

-----------------------------------------------------------------------------
(* The callers *)

\* BUG: only a live reservation is found, so a settled subject is paid twice.
ReservedLive(s) == \E o \in OpIds : ops[o].subject = s /\ ops[o].state \in Live

\* core::reserve looks the subject up under the account lock, whatever id the
\* caller brings.  A second reservation of a subject returns the first one or
\* IDEMPOTENCY_KEY_REUSED; both change nothing.
Reserved(s) == \E o \in OpIds : ops[o].subject = s

Inserted(o, a, s, amount) ==
    [ops EXCEPT ![o] = [state |-> "reserved", account |-> a, subject |-> s,
                        amount |-> amount, refunded |-> 0]]

Reserve(o, a, s, amount) ==
    /\ ops[o].state = "none"
    /\ ~Reserved(s)
    /\ Post(Inserted(o, a, s, amount), a, "booking_hold", amount, o,
            <<"reserve", o>>)

\* core::settle: asking again for the outcome an operation already has is a
\* no-op, asking for the other one is WALLET_RESERVATION_MISMATCH.
Settle(o, target) ==
    /\ ops[o].state \in Live
    /\ Post(ops, ops[o].account,
            IF target = "captured" THEN "booking_confirm" ELSE "hold_release",
            ops[o].amount, o, <<target, o>>)

\* ticket::finalize without evidence: the hold waits for reconciliation.
MarkReconciliation(o) ==
    /\ ops[o].state = "reserved"
    /\ ops' = [ops EXCEPT ![o].state = "reconciliation"]
    /\ UNCHANGED <<accountVars, available, hold, version, ledger>>

\* workflows::review posts an approved deposit or adjustment.
PostRequest(a, type, amount, r) ==
    Post(ops, a, type, amount, NoOp, <<"request", r>>)

\* ticket_management settles a refund against the operation that paid.
PostRefund(o, amount, r) ==
    /\ ops[o].state # "none"
    /\ Post(ops, ops[o].account, "refund", amount, o, <<"refund", r>>)

LedgerNext ==
    \/ \E o \in OpIds, a \in Accounts, s \in Subjects, m \in Amounts :
          Reserve(o, a, s, m)
    \/ \E o \in OpIds, t \in Terminal : Settle(o, t)
    \/ \E o \in OpIds : MarkReconciliation(o)
    \/ \E o \in OpIds, m \in Amounts, r \in Refs : PostRefund(o, m, r)

RequestPostings ==
    \E a \in Accounts, t \in Credits \cup {"manual_debit"}, m \in Amounts,
       r \in Refs : PostRequest(a, t, m, r)

Next ==
    \/ AccountsNext /\ UNCHANGED balanceVars
    \/ LedgerNext
    \/ RequestPostings

Spec == Init /\ [][Next]_ledgerVars

-----------------------------------------------------------------------------
(* Properties *)

\* The types of the account, balance, operation and ledger rows.
TypeOK ==
    /\ AccountsTypeOK
    /\ available \in [Accounts -> 0..MaxMinor]
    /\ hold \in [Accounts -> 0..MaxMinor]
    /\ version \in [Accounts -> Nat]
    /\ ops \in [OpIds -> Operation \cup {Unused}]
    /\ ledger \subseteq Entry

\* Sums are counted in minor units <<row, i>>, so that a sum is the
\* cardinality of a set.
LiveUnits(a) ==
    {u \in OpIds \X (1..MaxMinor) :
        /\ ops[u[1]].account = a
        /\ ops[u[1]].state \in Live
        /\ u[2] <= ops[u[1]].amount}

KeptUnits(a) ==
    {u \in OpIds \X (1..MaxMinor) :
        /\ ops[u[1]].account = a
        /\ ops[u[1]].state = "captured"
        /\ ops[u[1]].refunded < u[2]
        /\ u[2] <= ops[u[1]].amount}

PostedUnits(a, types) ==
    {u \in ledger \X (1..MaxMinor) :
        u[1].account = a /\ u[1].type \in types /\ u[2] <= u[1].amount}

\* The hold balance of an account is the sum of its unsettled operations
\* (the second half of the wallet_account_integrity trigger): no posting
\* leaves money held for an operation that is settled, or the reverse.
HoldsMatchReservations ==
    \A a \in Accounts : hold[a] = Cardinality(LiveUnits(a))

\* What an account can spend, what it holds and what captures kept after
\* refunds is what was credited less what was debited.
Balanced(a) ==
    available[a] + hold[a] + Cardinality(KeptUnits(a)) =
        Cardinality(PostedUnits(a, Credits))
        - Cardinality(PostedUnits(a, {"manual_debit"}))

\* Money is neither created nor lost, nor does a balance run below zero or over
\* the limit of its column, which the types of the rows say.
MoneyConserved ==
    /\ TypeOK
    /\ \A a \in Accounts : Balanced(a)

BalancesExplained(a) ==
    /\ \A n \in 1..version[a] : \E e \in EntriesOf(a) : e.sequence = n
    /\ \A e \in EntriesOf(a) :
          /\ e.sequence <= version[a]
          /\ e.sequence = 1 => e.availableBefore = 0 /\ e.holdBefore = 0
          /\ e.sequence = version[a] =>
                e.availableAfter = available[a] /\ e.holdAfter = hold[a]
    /\ \A e, f \in EntriesOf(a) :
          /\ e.sequence = f.sequence => e = f
          /\ f.sequence = e.sequence + 1 =>
                /\ f.availableBefore = e.availableAfter
                /\ f.holdBefore = e.holdAfter

EntriesFor(o, type) == {e \in ledger : e.op = o /\ e.type = type}

RefundUnits(o) ==
    {u \in EntriesFor(o, "refund") \X (1..MaxMinor) : u[2] <= u[1].amount}

OperationExplained(o) ==
    /\ Cardinality(EntriesFor(o, "booking_hold")) =
          IF ops[o].state = "none" THEN 0 ELSE 1
    /\ Cardinality(EntriesFor(o, "booking_confirm")) =
          IF ops[o].state = "captured" THEN 1 ELSE 0
    /\ Cardinality(EntriesFor(o, "hold_release")) =
          IF ops[o].state = "released" THEN 1 ELSE 0
    /\ Cardinality(RefundUnits(o)) = ops[o].refunded

\* The ledger alone explains the balances (wallet_account_integrity): entries
\* are numbered without a gap, each starts from the balances the one before
\* it left, and the last one left the account's.  And it explains the
\* operations (wallet_operation_integrity, wallet_once_per_reservation): one
\* hold, a capture or a release but never both, and refunds that add up to
\* refunded_amount.
LedgerExplains ==
    /\ \A a \in Accounts : BalancesExplained(a)
    /\ \A o \in OpIds : OperationExplained(o)

\* Nothing is paid twice, whatever is retried: a subject is paid for by at most
\* one operation, under whichever ids the callers sent, and a posting that was
\* made is not made again (UNIQUE(subject_kind,subject_id),
\* UNIQUE(account,idempotency_key)).
PaidOnce ==
    /\ \A o, p \in OpIds :
          ops[o].subject = ops[p].subject /\ ops[o].state # "none" => o = p
    /\ \A e, f \in ledger : e.account = f.account /\ e.key = f.key => e = f

-----------------------------------------------------------------------------
(* WalletLedger implements WalletPromise *)

\* The purchase a subject is: the operation found for it, whichever id it has.
\* A hold that waits for reconciliation is still held.
PurchaseOf(s) ==
    IF Reserved(s)
    THEN LET row == ops[CHOOSE p \in OpIds : ops[p].subject = s]
         IN  [phase |-> CASE row.state \in Live -> "held"
                          [] row.state = "captured" -> "charged"
                          [] row.state = "released" -> "returned",
              account |-> row.account,
              cost |-> IF row.state = "released" THEN 0
                       ELSE row.amount - row.refunded]
    ELSE [phase |-> "none", account |-> NoAccount, cost |-> 0]

Promise == INSTANCE WalletPromise WITH
    Purchases <- Subjects,
    Nobody <- NoAccount,
    spendable <- available,
    frozen <- {a \in Accounts : status[OwnerOf[a]] = "frozen"},
    purchase <- [s \in Subjects |-> PurchaseOf(s)]

\* Keys, operation ids, reconciliation and the ledger are all in aid of the
\* promise: every step holds, charges, returns or refunds a purchase once, or
\* changes nothing the payer can see.
KeepsPromise == Promise!Spec

=============================================================================
