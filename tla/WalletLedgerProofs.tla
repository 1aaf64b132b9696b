------------------------- MODULE WalletLedgerProofs -------------------------
(***************************************************************************)
(* Theorems about WalletLedger, for any number of owners, accounts,         *)
(* operations, requests and amounts.                                       *)
(***************************************************************************)
EXTENDS WalletLedger, FiniteSetTheorems, TLAPS

\* The tables an enclosing transaction can show to wallet_apply_posting.
PostingArguments(table, a, type, amount, o, key) ==
    /\ table \in [OpIds -> Operation \cup {Unused}]
    /\ a \in Accounts
    /\ type \in TransactionTypes
    /\ amount \in 1..MaxMinor
    /\ o \in OpIds \cup {NoOp}
    /\ type \in SettlementTypes \cup {"refund"} => o \in OpIds
    /\ key \in Key

-----------------------------------------------------------------------------
(* Type correctness *)

\* The balances a posting computes stay in the range of their columns.
LEMMA DeltaTypes ==
    ASSUME NEW type \in TransactionTypes, NEW amount \in Nat
    PROVE  /\ AvailableDelta(type, amount) \in Int
           /\ HoldDelta(type, amount) \in Int
  BY DEF AvailableDelta, HoldDelta, TransactionTypes, Credits, SettlementTypes

\* wallet_apply_posting keeps every row well typed.
LEMMA PostTypeOK ==
    ASSUME TypeOK,
           NEW table, NEW a, NEW type, NEW amount, NEW o, NEW key,
           PostingArguments(table, a, type, amount, o, key),
           Post(table, a, type, amount, o, key)
    PROVE  TypeOK'
  <1> DEFINE nextAvailable == available[a] + AvailableDelta(type, amount)
             nextHold == hold[a] + HoldDelta(type, amount)
  <1> USE AmountsAssumption
  <1>1. /\ a \in Accounts /\ type \in TransactionTypes /\ amount \in 1..MaxMinor
        /\ amount \in Nat /\ available[a] \in Int /\ hold[a] \in Int
        /\ version[a] \in Nat
    BY DEF TypeOK, PostingArguments
  <1>2. nextAvailable \in Int /\ nextHold \in Int
    BY <1>1, DeltaTypes
  <1>3. nextAvailable \in 0..MaxMinor /\ nextHold \in 0..MaxMinor
    <2>1. nextAvailable >= 0 /\ nextHold >= 0 /\ nextAvailable + nextHold <= MaxMinor
      BY DEF Post, FundsAllow
    <2> QED BY <1>2, <2>1
  <1>4. AccountsTypeOK'
    BY DEF Post, TypeOK, AccountsTypeOK, accountVars
  <1>5. available' \in [Accounts -> 0..MaxMinor]
    <2>1. available' = [available EXCEPT ![a] = nextAvailable]
      BY DEF Post
    <2> HIDE DEF nextAvailable
    <2> QED BY <1>3, <2>1 DEF TypeOK
  <1>6. hold' \in [Accounts -> 0..MaxMinor]
    <2>1. hold' = [hold EXCEPT ![a] = nextHold]
      BY DEF Post
    <2> HIDE DEF nextHold
    <2> QED BY <1>3, <2>1 DEF TypeOK
  <1>7. version' \in [Accounts -> Nat]
    <2>1. version' = [version EXCEPT ![a] = @ + 1]
      BY DEF Post
    <2> QED BY <1>1, <2>1 DEF TypeOK
  <1>8. ledger' \subseteq Entry
    <2>1. NewEntry(a, type, amount, o, key) \in Entry
      <3> HIDE DEF nextAvailable, nextHold
      <3>1. NewEntry(a, type, amount, o, key) =
              [account |-> a, sequence |-> version[a] + 1, type |-> type,
               amount |-> amount, op |-> o, key |-> key,
               availableBefore |-> available[a], availableAfter |-> nextAvailable,
               holdBefore |-> hold[a], holdAfter |-> nextHold]
        BY DEF NewEntry, nextAvailable, nextHold
      <3>2. available[a] \in 0..MaxMinor /\ hold[a] \in 0..MaxMinor
        BY <1>1 DEF TypeOK
      <3>3. version[a] + 1 \in Nat \ {0}
        BY <1>1
      <3>4. o \in OpIds \cup {NoOp} /\ key \in Key
        BY DEF PostingArguments
      <3> HIDE AmountsAssumption
      <3> QED BY <1>1, <1>3, <3>1, <3>2, <3>3, <3>4 DEF Entry
    <2> QED BY <2>1 DEF Post, TypeOK
  <1>9. ops' \in [OpIds -> Operation \cup {Unused}]
    <2>1. ops' = AfterPosting(table, type, amount, o) /\ table \in [OpIds -> Operation \cup {Unused}]
      BY DEF Post, PostingArguments
    <2>2. CASE type \in {"booking_confirm", "hold_release"}
      <3>1. o \in OpIds /\ table[o].account = a
        BY <2>2 DEF Post, PostingArguments, ReservationAllows, SettlementTypes
      <3>2. table[o] \in Operation
        BY <1>1, <2>1, <3>1, NoAccountAssumption DEF Unused
      <3> QED BY <2>1, <2>2, <3>1, <3>2 DEF AfterPosting, Operation, Terminal
    <2>3. CASE type = "refund"
      <3>1. /\ o \in OpIds /\ table[o].account = a
            /\ amount <= table[o].amount - table[o].refunded
        BY <2>3 DEF Post, PostingArguments, ReservationAllows
      <3>2. table[o] \in Operation
        BY <1>1, <2>1, <3>1, NoAccountAssumption DEF Unused
      <3>3. table[o].refunded + amount \in 0..MaxMinor
        BY <1>1, <3>1, <3>2 DEF Operation
      <3> QED BY <2>1, <2>3, <3>1, <3>2, <3>3 DEF AfterPosting, Operation
    <2>4. CASE type \notin {"booking_confirm", "hold_release", "refund"}
      BY <2>1, <2>4 DEF AfterPosting
    <2> QED BY <2>2, <2>3, <2>4
  <1> QED BY <1>4, <1>5, <1>6, <1>7, <1>8, <1>9 DEF TypeOK

\* The initial tables are well typed.
LEMMA InitTypeOK == Init => TypeOK
  BY AmountsAssumption
     DEF Init, AccountsInit, BalancesInit, TypeOK, AccountsTypeOK, Operation,
         Unused

\* Provisioning, linking and freezing keep the rows well typed.
LEMMA AccountsTypeOKStep ==
    ASSUME TypeOK, AccountsNext, UNCHANGED balanceVars
    PROVE  TypeOK'
  <1>1. AccountsTypeOK'
    <2>1. AccountsTypeOK
      BY DEF TypeOK
    <2>2. ASSUME NEW a \in Accounts, Provision(a)
          PROVE  AccountsTypeOK'
      BY <2>1, <2>2 DEF Provision, AccountsTypeOK
    <2>3. ASSUME NEW c \in Clients, NEW a \in Accounts, LinkClient(c, a)
          PROVE  AccountsTypeOK'
      BY <2>1, <2>3, OwnerOfAssumption DEF LinkClient, AccountsTypeOK
    <2>4. ASSUME NEW w \in Owners, NEW s \in {"active", "frozen"}, SetStatus(w, s)
          PROVE  AccountsTypeOK'
      BY <2>1, <2>4 DEF SetStatus, AccountsTypeOK
    <2> QED BY <2>2, <2>3, <2>4 DEF AccountsNext
  <1> QED BY <1>1 DEF TypeOK, balanceVars

\* Each caller hands wallet_apply_posting arguments of the right types.
LEMMA ReserveArguments ==
    ASSUME TypeOK,
           NEW o \in OpIds, NEW a \in Accounts, NEW s \in Subjects,
           NEW m \in Amounts
    PROVE  PostingArguments(Inserted(o, a, s, m), a, "booking_hold", m, o,
                            <<"reserve", o>>)
  <1>1. m \in 1..MaxMinor /\ MaxMinor \in Nat
    BY AmountsAssumption
  <1>2. Inserted(o, a, s, m) \in [OpIds -> Operation \cup {Unused}]
    BY <1>1 DEF TypeOK, Inserted, Operation, Live
  <1> QED BY <1>1, <1>2 DEF PostingArguments, TransactionTypes, SettlementTypes, Key

\* A row that is not the placeholder of an unused id.
LEMMA OperationRow ==
    ASSUME TypeOK, NEW o \in OpIds, ops[o].state # "none"
    PROVE  /\ ops[o] \in Operation
           /\ ops[o].account \in Accounts
           /\ ops[o].amount \in 1..MaxMinor
  <1>1. ops[o] \in Operation
    BY DEF TypeOK, Unused
  <1> QED BY <1>1 DEF Operation

\* settle posts the amount of the operation row it locked.
LEMMA SettleArguments ==
    ASSUME TypeOK, NEW o \in OpIds, NEW t \in Terminal, ops[o].state \in Live
    PROVE  PostingArguments(ops, ops[o].account,
               IF t = "captured" THEN "booking_confirm" ELSE "hold_release",
               ops[o].amount, o, <<t, o>>)
  <1>1. ops[o].account \in Accounts /\ ops[o].amount \in 1..MaxMinor
    BY OperationRow DEF Live
  <1>2. <<t, o>> \in Key
    BY DEF Key, Terminal
  <1> QED BY <1>1, <1>2 DEF TypeOK, PostingArguments, TransactionTypes, SettlementTypes

\* A refund posts against an operation that exists.
LEMMA RefundArguments ==
    ASSUME TypeOK, NEW o \in OpIds, NEW m \in Amounts, NEW r \in Refs,
           ops[o].state # "none"
    PROVE  PostingArguments(ops, ops[o].account, "refund", m, o, <<"refund", r>>)
  <1>1. ops[o].account \in Accounts
    BY OperationRow
  <1>2. m \in 1..MaxMinor
    BY AmountsAssumption
  <1>3. <<"refund", r>> \in Key
    BY DEF Key
  <1> QED BY <1>1, <1>2, <1>3 DEF TypeOK, PostingArguments, TransactionTypes

\* workflows::review posts without an operation.
LEMMA RequestArguments ==
    ASSUME TypeOK, NEW a \in Accounts, NEW t \in Credits \cup {"manual_debit"},
           NEW m \in Amounts, NEW r \in Refs
    PROVE  PostingArguments(ops, a, t, m, NoOp, <<"request", r>>)
  <1>1. m \in 1..MaxMinor
    BY AmountsAssumption
  <1>2. <<"request", r>> \in Key
    BY DEF Key
  <1> QED BY <1>1, <1>2
          DEF TypeOK, PostingArguments, TransactionTypes, SettlementTypes, Credits

\* Every step of the ledger keeps the rows well typed.
LEMMA TypeOKStep ==
    ASSUME TypeOK, [Next]_ledgerVars
    PROVE  TypeOK'
  <1>1. CASE AccountsNext /\ UNCHANGED balanceVars
    BY <1>1, AccountsTypeOKStep
  <1>2. ASSUME NEW o \in OpIds, NEW a \in Accounts, NEW s \in Subjects,
               NEW m \in Amounts, Reserve(o, a, s, m)
        PROVE  TypeOK'
    BY <1>2, ReserveArguments, PostTypeOK DEF Reserve
  <1>3. ASSUME NEW o \in OpIds, NEW t \in Terminal, Settle(o, t)
        PROVE  TypeOK'
    BY <1>3, SettleArguments, PostTypeOK DEF Settle
  <1>4. ASSUME NEW o \in OpIds, MarkReconciliation(o)
        PROVE  TypeOK'
    <2>1. ops[o] \in Operation
      BY <1>4, OperationRow DEF MarkReconciliation
    <2>2. ops' \in [OpIds -> Operation \cup {Unused}]
      BY <1>4, <2>1 DEF MarkReconciliation, TypeOK, Operation, Live
    <2> QED BY <1>4, <2>2
            DEF MarkReconciliation, TypeOK, AccountsTypeOK, accountVars
  <1>5. ASSUME NEW o \in OpIds, NEW m \in Amounts, NEW r \in Refs, PostRefund(o, m, r)
        PROVE  TypeOK'
    BY <1>5, RefundArguments, PostTypeOK DEF PostRefund
  <1>6. ASSUME NEW a \in Accounts, NEW t \in Credits \cup {"manual_debit"},
               NEW m \in Amounts, NEW r \in Refs, PostRequest(a, t, m, r)
        PROVE  TypeOK'
    BY <1>6, RequestArguments, PostTypeOK DEF PostRequest
  <1>7. CASE UNCHANGED ledgerVars
    BY <1>7 DEF ledgerVars, accountVars, balanceVars, TypeOK, AccountsTypeOK
  <1> QED BY <1>1, <1>2, <1>3, <1>4, <1>5, <1>6, <1>7
          DEF Next, LedgerNext, RequestPostings

\* The rows of the wallet tables are always well typed: no posting drives a
\* balance below zero or the two balances above the limit of their columns.
THEOREM TypeCorrect == Spec => []TypeOK
  <1>1. Init => TypeOK
    BY InitTypeOK
  <1>2. TypeOK /\ [Next]_ledgerVars => TypeOK'
    BY TypeOKStep
  <1> QED BY <1>1, <1>2, PTL DEF Spec

-----------------------------------------------------------------------------
(* What each caller does to the balances and the operations *)

\* A reservation moves m from what is available to what is held.
LEMMA ReserveEffect ==
    ASSUME NEW o \in OpIds, NEW a \in Accounts, NEW s \in Subjects,
           NEW m \in Amounts, Reserve(o, a, s, m)
    PROVE  /\ ops[o].state = "none"
           /\ ops' = Inserted(o, a, s, m)
           /\ available' = [available EXCEPT ![a] = available[a] + (-m)]
           /\ hold' = [hold EXCEPT ![a] = hold[a] + m]
  BY DEF Reserve, Post, AfterPosting, AvailableDelta, HoldDelta, Credits

\* A settlement ends a live operation and gives up its hold.
LEMMA SettleEffect ==
    ASSUME NEW o \in OpIds, NEW t \in Terminal, Settle(o, t)
    PROVE  /\ ops[o].state \in Live
           /\ ops' = [ops EXCEPT ![o].state = t]
           /\ hold' = [hold EXCEPT ![ops[o].account] =
                          hold[ops[o].account] + (-ops[o].amount)]
           /\ t = "captured" =>
                available' = [available EXCEPT ![ops[o].account] =
                                available[ops[o].account] + 0]
           /\ t = "released" =>
                available' = [available EXCEPT ![ops[o].account] =
                                available[ops[o].account] + ops[o].amount]
  <1>1. CASE t = "captured"
    BY <1>1 DEF Settle, Post, AfterPosting, AvailableDelta, HoldDelta, Credits
  <1>2. CASE t = "released"
    BY <1>2 DEF Settle, Post, AfterPosting, AvailableDelta, HoldDelta, Credits
  <1> QED BY <1>1, <1>2 DEF Terminal

\* A refund gives back part of what a captured operation kept.
LEMMA RefundEffect ==
    ASSUME NEW o \in OpIds, NEW m \in Amounts, NEW r \in Refs, PostRefund(o, m, r)
    PROVE  /\ ops[o].state = "captured"
           /\ m <= ops[o].amount - ops[o].refunded
           /\ ops' = [ops EXCEPT ![o].refunded = ops[o].refunded + m]
           /\ available' = [available EXCEPT ![ops[o].account] =
                               available[ops[o].account] + m]
           /\ hold' = [hold EXCEPT ![ops[o].account] = hold[ops[o].account] + 0]
  BY DEF PostRefund, Post, ReservationAllows, AfterPosting, AvailableDelta, HoldDelta, Credits

\* An approved request touches neither holds nor operations.
LEMMA RequestEffect ==
    ASSUME NEW a \in Accounts, NEW t \in Credits \cup {"manual_debit"},
           NEW m \in Amounts, NEW r \in Refs, PostRequest(a, t, m, r)
    PROVE  /\ ops' = ops
           /\ hold' = [hold EXCEPT ![a] = hold[a] + 0]
           /\ available' = [available EXCEPT ![a] =
                               available[a] + (IF t \in Credits THEN m ELSE -m)]
  BY DEF PostRequest, Post, AfterPosting, AvailableDelta, HoldDelta, Credits

-----------------------------------------------------------------------------
(* Holds and reservations *)

\* The minor units of one row after the first k.
Strip(x, k, n) == {x} \X ((k + 1)..n)

\* A row of n minor units counts for n, less the k that are not counted.
LEMMA StripCardinality ==
    ASSUME NEW x, NEW k \in Nat, NEW n \in Nat, k <= n
    PROVE  IsFiniteSet(Strip(x, k, n)) /\ Cardinality(Strip(x, k, n)) = n - k
  <1> DEFINE I == (k + 1)..n
  <1>1. IsFiniteSet(I) /\ Cardinality(I) = n - k
    <2>1. k + 1 \in Int /\ n \in Int
      OBVIOUS
    <2>2. /\ IsFiniteSet(I)
          /\ Cardinality(I) = IF k + 1 > n THEN 0 ELSE n - (k + 1) + 1
      BY <2>1, FS_Interval
    <2> QED BY <2>2
  <1>2. IsFiniteSet({x}) /\ Cardinality({x}) = 1
    BY FS_Singleton
  <1> HIDE DEF I
  <1>3. IsFiniteSet({x} \X I) /\ Cardinality({x} \X I) = 1 * Cardinality(I)
    BY <1>1, <1>2, FS_Product
  <1>4. 1 * Cardinality(I) = n - k
    BY <1>1
  <1> QED BY <1>3, <1>4 DEF Strip, I

\* Adding a row that was not counted adds its amount to the sum.
LEMMA AddStrip ==
    ASSUME NEW S, IsFiniteSet(S), NEW x, NEW k \in Nat, NEW n \in Nat, k <= n,
           S \cap Strip(x, k, n) = {}
    PROVE  Cardinality(S \cup Strip(x, k, n)) = Cardinality(S) + (n - k)
  <1>1. IsFiniteSet(Strip(x, k, n)) /\ Cardinality(Strip(x, k, n)) = n - k
    BY StripCardinality
  <1>2. Cardinality(S) \in Nat /\ Cardinality(S \cap Strip(x, k, n)) = 0
    BY FS_CardinalityType, FS_EmptySet
  <1>3. Cardinality(S \cup Strip(x, k, n)) =
          Cardinality(S) + Cardinality(Strip(x, k, n)) - Cardinality(S \cap Strip(x, k, n))
    BY <1>1, FS_Union
  <1> QED BY <1>1, <1>2, <1>3

\* Removing a row that was counted takes its amount from the sum.
LEMMA RemoveStrip ==
    ASSUME NEW S, IsFiniteSet(S), NEW x, NEW k \in Nat, NEW n \in Nat, k <= n,
           Strip(x, k, n) \subseteq S
    PROVE  Cardinality(S \ Strip(x, k, n)) = Cardinality(S) - (n - k)
  <1>1. Cardinality(Strip(x, k, n)) = n - k
    BY StripCardinality
  <1>2. S \cap Strip(x, k, n) = Strip(x, k, n)
    OBVIOUS
  <1> QED BY <1>1, <1>2, FS_Difference

\* The reserved minor units of an account can be counted.
LEMMA LiveUnitsFinite ==
    ASSUME NEW a
    PROVE  IsFiniteSet(LiveUnits(a)) /\ Cardinality(LiveUnits(a)) \in Nat
  <1>1. IsFiniteSet(OpIds \X (1..MaxMinor))
    <2>1. IsFiniteSet(1..MaxMinor)
      BY AmountsAssumption, FS_Interval
    <2>2. IsFiniteSet(OpIds)
      BY OpIdsAssumption
    <2> QED BY <2>1, <2>2, FS_Product
  <1>2. LiveUnits(a) \in SUBSET (OpIds \X (1..MaxMinor))
    BY DEF LiveUnits
  <1> QED BY <1>1, <1>2, FS_Subset, FS_CardinalityType

HoldInvariant == TypeOK /\ HoldsMatchReservations

\* The inductive step of HoldsMatchReservations, one case per caller.
LEMMA HoldInvariantStep ==
    ASSUME HoldInvariant, [Next]_ledgerVars
    PROVE  HoldsMatchReservations'
  <1> SUFFICES ASSUME NEW b \in Accounts
               PROVE  hold'[b] = Cardinality(LiveUnits(b)')
    BY DEF HoldsMatchReservations
  <1> USE DEF HoldInvariant
  <1>0. /\ TypeOK
        /\ hold \in [Accounts -> 0..MaxMinor]
        /\ hold[b] = Cardinality(LiveUnits(b))
        /\ hold[b] \in Int
    BY AmountsAssumption DEF TypeOK, HoldsMatchReservations
  <1>1. ASSUME NEW o \in OpIds, NEW a \in Accounts, NEW s \in Subjects,
               NEW m \in Amounts, Reserve(o, a, s, m)
        PROVE  hold'[b] = Cardinality(LiveUnits(b)')
    <2>1. /\ ops[o].state = "none"
          /\ ops' = Inserted(o, a, s, m)
          /\ hold' = [hold EXCEPT ![a] = hold[a] + m]
      BY <1>1, ReserveEffect
    <2>2. m \in 1..MaxMinor /\ m \in Nat
      BY AmountsAssumption
    <2>3. CASE a = b
      <3>1. LiveUnits(b)' = LiveUnits(b) \cup Strip(o, 0, m)
        BY <1>0, <2>1, <2>2, <2>3, AmountsAssumption
           DEF LiveUnits, Strip, Inserted, Live, TypeOK
      <3>2. LiveUnits(b) \cap Strip(o, 0, m) = {}
        BY <2>1 DEF LiveUnits, Strip, Live
      <3>3. Cardinality(LiveUnits(b)') = Cardinality(LiveUnits(b)) + m
        BY <2>2, <3>1, <3>2, LiveUnitsFinite, AddStrip
      <3> QED BY <1>0, <2>1, <2>3, <3>3
    <2>4. CASE a # b
      <3>1. LiveUnits(b)' = LiveUnits(b)
        BY <1>0, <2>1, <2>4 DEF LiveUnits, Inserted, Live, TypeOK
      <3> QED BY <1>0, <2>1, <2>4, <3>1
    <2> QED BY <2>3, <2>4
  <1>2. ASSUME NEW o \in OpIds, NEW t \in Terminal, Settle(o, t)
        PROVE  hold'[b] = Cardinality(LiveUnits(b)')
    <2> DEFINE a == ops[o].account
               m == ops[o].amount
    <2>1. /\ ops[o].state \in Live
          /\ ops' = [ops EXCEPT ![o].state = t]
          /\ hold' = [hold EXCEPT ![a] = hold[a] + (-m)]
      BY <1>2, SettleEffect
    <2>2. ops[o] \in Operation /\ a \in Accounts /\ m \in 1..MaxMinor /\ m \in Nat
      BY <1>0, <2>1, OperationRow, AmountsAssumption DEF Live
    <2>3. t \notin Live
      BY DEF Terminal, Live
    <2>4. CASE a = b
      <3>1. LiveUnits(b)' = LiveUnits(b) \ Strip(o, 0, m)
        BY <1>0, <2>1, <2>2, <2>3, <2>4, AmountsAssumption
           DEF LiveUnits, Strip, Operation, TypeOK
      <3>2. Strip(o, 0, m) \subseteq LiveUnits(b)
        BY <2>1, <2>2, <2>4, AmountsAssumption DEF LiveUnits, Strip
      <3>3. Cardinality(LiveUnits(b)') = Cardinality(LiveUnits(b)) - m
        BY <2>2, <3>1, <3>2, LiveUnitsFinite, RemoveStrip
      <3>4. hold'[b] = hold[b] - m
        BY <1>0, <2>1, <2>2, <2>4
      <3> QED BY <1>0, <3>3, <3>4
    <2>5. CASE a # b
      <3>1. LiveUnits(b)' = LiveUnits(b)
        BY <1>0, <2>1, <2>2, <2>5 DEF LiveUnits, Operation, TypeOK
      <3> QED BY <1>0, <2>1, <2>2, <2>5, <3>1
    <2> QED BY <2>4, <2>5
  <1>3. ASSUME NEW o \in OpIds, MarkReconciliation(o)
        PROVE  hold'[b] = Cardinality(LiveUnits(b)')
    <2>1. LiveUnits(b)' = LiveUnits(b)
      BY <1>0, <1>3, OperationRow DEF MarkReconciliation, LiveUnits, Live, Operation, TypeOK
    <2> QED BY <1>0, <1>3, <2>1 DEF MarkReconciliation
  <1>4. ASSUME NEW o \in OpIds, NEW m \in Amounts, NEW r \in Refs, PostRefund(o, m, r)
        PROVE  hold'[b] = Cardinality(LiveUnits(b)')
    <2>1. /\ ops[o].state = "captured"
          /\ ops' = [ops EXCEPT ![o].refunded = ops[o].refunded + m]
          /\ hold' = [hold EXCEPT ![ops[o].account] = hold[ops[o].account] + 0]
      BY <1>4, RefundEffect
    <2>2. ops[o] \in Operation /\ ops[o].account \in Accounts
      BY <1>0, <2>1, OperationRow
    <2>3. LiveUnits(b)' = LiveUnits(b)
      BY <1>0, <2>1, <2>2 DEF LiveUnits, Operation, TypeOK
    <2>4. hold'[b] = hold[b]
      BY <1>0, <2>1, <2>2
    <2> QED BY <1>0, <2>3, <2>4
  <1>5. ASSUME NEW a \in Accounts, NEW t \in Credits \cup {"manual_debit"},
               NEW m \in Amounts, NEW r \in Refs, PostRequest(a, t, m, r)
        PROVE  hold'[b] = Cardinality(LiveUnits(b)')
    <2>1. ops' = ops /\ hold' = [hold EXCEPT ![a] = hold[a] + 0]
      BY <1>5, RequestEffect
    <2>2. hold'[b] = hold[b] /\ LiveUnits(b)' = LiveUnits(b)
      BY <1>0, <2>1 DEF LiveUnits
    <2> QED BY <1>0, <2>2
  <1>6. CASE UNCHANGED balanceVars
    BY <1>0, <1>6 DEF balanceVars, LiveUnits
  <1> QED BY <1>1, <1>2, <1>3, <1>4, <1>5, <1>6
          DEF Next, LedgerNext, RequestPostings, ledgerVars, balanceVars

\* Nothing is held at first.
LEMMA InitHolds == Init => HoldsMatchReservations
  <1> SUFFICES ASSUME Init, NEW a \in Accounts
               PROVE  hold[a] = Cardinality(LiveUnits(a))
    BY DEF HoldsMatchReservations
  <1>1. LiveUnits(a) = {}
    BY DEF Init, BalancesInit, LiveUnits, Unused, Live
  <1> QED BY <1>1, FS_EmptySet DEF Init, BalancesInit

\* The hold balance of every account is the sum of its unsettled operations,
\* whatever reservations, settlements and refunds competed: the deferred
\* trigger wallet_account_integrity never aborts a transaction of the code.
THEOREM HoldsCovered == Spec => []HoldsMatchReservations
  <1>1. Init => HoldInvariant
    BY InitTypeOK, InitHolds DEF HoldInvariant
  <1>2. HoldInvariant /\ [Next]_ledgerVars => HoldInvariant'
    BY TypeOKStep, HoldInvariantStep DEF HoldInvariant
  <1>3. HoldInvariant => HoldsMatchReservations
    BY DEF HoldInvariant
  <1> QED BY <1>1, <1>2, <1>3, PTL DEF Spec

-----------------------------------------------------------------------------
(* Postings and keys *)

Tables == [OpIds -> Operation \cup {Unused}]

\* A step that changes a balance or the ledger is one call of
\* wallet_apply_posting.
Posts ==
    \E table \in Tables, a \in Accounts, type \in TransactionTypes,
       amount \in 1..MaxMinor, o \in OpIds \cup {NoOp}, key \in Key :
          /\ PostingArguments(table, a, type, amount, o, key)
          /\ Post(table, a, type, amount, o, key)

LEMMA PostsIntro ==
    ASSUME NEW table, NEW a, NEW type, NEW amount, NEW o, NEW key,
           PostingArguments(table, a, type, amount, o, key),
           Post(table, a, type, amount, o, key)
    PROVE  Posts
  BY DEF Posts, PostingArguments, Tables

LEMMA StepPosts ==
    ASSUME TypeOK, [Next]_ledgerVars
    PROVE  UNCHANGED <<available, hold, version, ledger>> \/ Posts
  <1>1. CASE AccountsNext /\ UNCHANGED balanceVars
    BY <1>1 DEF balanceVars
  <1>2. ASSUME NEW o \in OpIds, NEW a \in Accounts, NEW s \in Subjects,
               NEW m \in Amounts, Reserve(o, a, s, m)
        PROVE  Posts
    BY <1>2, ReserveArguments, PostsIntro DEF Reserve
  <1>3. ASSUME NEW o \in OpIds, NEW t \in Terminal, Settle(o, t)
        PROVE  Posts
    BY <1>3, SettleArguments, PostsIntro DEF Settle
  <1>4. ASSUME NEW o \in OpIds, MarkReconciliation(o)
        PROVE  UNCHANGED <<available, hold, version, ledger>>
    BY <1>4 DEF MarkReconciliation
  <1>5. ASSUME NEW o \in OpIds, NEW m \in Amounts, NEW r \in Refs, PostRefund(o, m, r)
        PROVE  Posts
    BY <1>5, RefundArguments, PostsIntro DEF PostRefund
  <1>6. ASSUME NEW a \in Accounts, NEW t \in Credits \cup {"manual_debit"},
               NEW m \in Amounts, NEW r \in Refs, PostRequest(a, t, m, r)
        PROVE  Posts
    BY <1>6, RequestArguments, PostsIntro DEF PostRequest
  <1>7. CASE UNCHANGED ledgerVars
    BY <1>7 DEF ledgerVars, balanceVars
  <1> QED BY <1>1, <1>2, <1>3, <1>4, <1>5, <1>6, <1>7
          DEF Next, LedgerNext, RequestPostings

\* A posting enters one row, of a key its account had not used.
LEMMA PostEntry ==
    ASSUME NEW table, NEW a, NEW type, NEW amount, NEW o, NEW key,
           Post(table, a, type, amount, o, key)
    PROVE  LET n == NewEntry(a, type, amount, o, key) IN
           /\ ledger' = ledger \cup {n}
           /\ \A e \in ledger : ~(e.account = a /\ e.key = key)
           /\ n.account = a /\ n.key = key /\ n.type = type
           /\ n.amount = amount /\ n.op = o /\ n.sequence = version[a] + 1
           /\ n \notin ledger
  BY DEF Post, NotPosted, EntriesOf, NewEntry

SubjectsOnce ==
    \A o, p \in OpIds : ops[o].subject = ops[p].subject /\ ops[o].state # "none" => o = p

KeysOnce == \A e, f \in ledger : e.account = f.account /\ e.key = f.key => e = f

\* A posting that was made is not made again.
LEMMA KeysOnceStep ==
    ASSUME TypeOK, KeysOnce, [Next]_ledgerVars
    PROVE  KeysOnce'
  <1>1. CASE UNCHANGED <<available, hold, version, ledger>>
    BY <1>1 DEF KeysOnce
  <1>2. CASE Posts
    <2>1. PICK table, a, type, amount, o, key : Post(table, a, type, amount, o, key)
      BY <1>2 DEF Posts
    <2> DEFINE n == NewEntry(a, type, amount, o, key)
    <2>2. /\ ledger' = ledger \cup {n}
          /\ \A e \in ledger : ~(e.account = a /\ e.key = key)
          /\ n.account = a /\ n.key = key
      BY <2>1, PostEntry
    <2> HIDE DEF n
    <2> QED BY <2>2 DEF KeysOnce
  <1> QED BY <1>1, <1>2, StepPosts

\* A subject that has an operation gets no other: reserve looked it up under
\* the account lock.
LEMMA SubjectsOnceStep ==
    ASSUME TypeOK, SubjectsOnce, [Next]_ledgerVars
    PROVE  SubjectsOnce'
  <1>0. ops \in Tables
    BY DEF TypeOK, Tables
  <1>1. ASSUME NEW o \in OpIds, NEW a \in Accounts, NEW s \in Subjects,
               NEW m \in Amounts, Reserve(o, a, s, m)
        PROVE  SubjectsOnce'
    <2>1. ops' = Inserted(o, a, s, m)
      BY <1>1, ReserveEffect
    <2>2. \A p \in OpIds : ops[p].subject # s
      BY <1>1 DEF Reserve, Reserved
    <2>3. /\ ops'[o].subject = s
          /\ \A p \in OpIds \ {o} : ops'[p] = ops[p]
      BY <1>0, <2>1 DEF Inserted, Tables
    <2> QED BY <2>2, <2>3 DEF SubjectsOnce
  <1>2. ASSUME \A p \in OpIds : /\ ops'[p].subject = ops[p].subject
                                /\ ops'[p].state # "none" => ops[p].state # "none"
        PROVE  SubjectsOnce'
    BY <1>2 DEF SubjectsOnce
  <1>3. ASSUME NEW o \in OpIds, NEW t \in Terminal, Settle(o, t)
        PROVE  SubjectsOnce'
    <2>1. ops[o].state \in Live /\ ops' = [ops EXCEPT ![o].state = t]
      BY <1>3, SettleEffect
    <2>2. ops[o] \in Operation
      BY <2>1, OperationRow DEF Live
    <2> QED BY <1>0, <1>2, <2>1, <2>2 DEF Tables, Terminal, Live, Operation
  <1>4. ASSUME NEW o \in OpIds, MarkReconciliation(o)
        PROVE  SubjectsOnce'
    <2>1. ops[o].state = "reserved" /\ ops' = [ops EXCEPT ![o].state = "reconciliation"]
      BY <1>4 DEF MarkReconciliation
    <2>2. ops[o] \in Operation
      BY <2>1, OperationRow
    <2> QED BY <1>0, <1>2, <2>1, <2>2 DEF Tables, Operation
  <1>5. ASSUME NEW o \in OpIds, NEW m \in Amounts, NEW r \in Refs, PostRefund(o, m, r)
        PROVE  SubjectsOnce'
    <2>1. /\ ops[o].state = "captured"
          /\ ops' = [ops EXCEPT ![o].refunded = ops[o].refunded + m]
      BY <1>5, RefundEffect
    <2>2. ops[o] \in Operation
      BY <2>1, OperationRow
    <2> QED BY <1>0, <1>2, <2>1, <2>2 DEF Tables, Operation
  <1>6. ASSUME NEW a \in Accounts, NEW t \in Credits \cup {"manual_debit"},
               NEW m \in Amounts, NEW r \in Refs, PostRequest(a, t, m, r)
        PROVE  SubjectsOnce'
    BY <1>2, <1>6, RequestEffect
  <1>7. CASE UNCHANGED balanceVars
    BY <1>7 DEF balanceVars, SubjectsOnce
  <1> QED BY <1>1, <1>3, <1>4, <1>5, <1>6, <1>7
          DEF Next, LedgerNext, RequestPostings, ledgerVars, balanceVars

\* A subject is paid for by one operation and every posting is made once,
\* whichever ids and keys the callers retry with: the unique indexes of the
\* operations and of the ledger never abort a transaction of the code.
THEOREM NothingPaidTwice == Spec => []PaidOnce
  <1>1. Init => TypeOK /\ SubjectsOnce /\ KeysOnce
    <2>1. Init => SubjectsOnce /\ KeysOnce
      BY DEF Init, BalancesInit, SubjectsOnce, KeysOnce, Unused
    <2> QED BY <2>1, InitTypeOK
  <1>2. TypeOK /\ SubjectsOnce /\ KeysOnce /\ [Next]_ledgerVars
          => (TypeOK /\ SubjectsOnce /\ KeysOnce)'
    BY TypeOKStep, SubjectsOnceStep, KeysOnceStep
  <1>3. SubjectsOnce /\ KeysOnce => PaidOnce
    BY DEF SubjectsOnce, KeysOnce, PaidOnce
  <1> QED BY <1>1, <1>2, <1>3, PTL DEF Spec

-----------------------------------------------------------------------------
(* Conservation of money *)

RefundsWithin ==
    \A o \in OpIds : /\ ops[o].refunded <= ops[o].amount
                     /\ ops[o].state \in Live => ops[o].refunded = 0

\* A capture is refunded up to its amount, and nothing else is refunded.
LEMMA RefundsWithinStep ==
    ASSUME TypeOK, RefundsWithin, [Next]_ledgerVars
    PROVE  RefundsWithin'
  <1>0. ops \in Tables /\ MaxMinor \in Nat
    BY AmountsAssumption DEF TypeOK, Tables
  <1>1. ASSUME NEW o \in OpIds, NEW a \in Accounts, NEW s \in Subjects,
               NEW m \in Amounts, Reserve(o, a, s, m)
        PROVE  RefundsWithin'
    <2>1. ops' = Inserted(o, a, s, m) /\ m \in 1..MaxMinor
      BY <1>1, ReserveEffect, AmountsAssumption
    <2> QED BY <1>0, <2>1 DEF RefundsWithin, Inserted, Tables
  <1>2. ASSUME NEW o \in OpIds, NEW t \in Terminal, Settle(o, t)
        PROVE  RefundsWithin'
    <2>1. ops' = [ops EXCEPT ![o].state = t] /\ ops[o].state \in Live
      BY <1>2, SettleEffect
    <2>2. ops[o] \in Operation
      BY <2>1, OperationRow DEF Live
    <2> QED BY <1>0, <2>1, <2>2 DEF RefundsWithin, Tables, Operation, Terminal, Live
  <1>3. ASSUME NEW o \in OpIds, MarkReconciliation(o)
        PROVE  RefundsWithin'
    <2>1. ops' = [ops EXCEPT ![o].state = "reconciliation"] /\ ops[o].state = "reserved"
      BY <1>3 DEF MarkReconciliation
    <2>2. ops[o] \in Operation
      BY <2>1, OperationRow
    <2> QED BY <1>0, <2>1, <2>2 DEF RefundsWithin, Tables, Operation, Live
  <1>4. ASSUME NEW o \in OpIds, NEW m \in Amounts, NEW r \in Refs, PostRefund(o, m, r)
        PROVE  RefundsWithin'
    <2>1. /\ ops[o].state = "captured"
          /\ m <= ops[o].amount - ops[o].refunded
          /\ ops' = [ops EXCEPT ![o].refunded = ops[o].refunded + m]
      BY <1>4, RefundEffect
    <2>2. ops[o] \in Operation /\ m \in 1..MaxMinor
      BY <2>1, OperationRow, AmountsAssumption
    <2> QED BY <1>0, <2>1, <2>2 DEF RefundsWithin, Tables, Operation, Live
  <1>5. ASSUME NEW a \in Accounts, NEW t \in Credits \cup {"manual_debit"},
               NEW m \in Amounts, NEW r \in Refs, PostRequest(a, t, m, r)
        PROVE  RefundsWithin'
    BY <1>5, RequestEffect DEF RefundsWithin
  <1>6. CASE UNCHANGED balanceVars
    BY <1>6 DEF balanceVars, RefundsWithin
  <1> QED BY <1>1, <1>2, <1>3, <1>4, <1>5, <1>6
          DEF Next, LedgerNext, RequestPostings, ledgerVars, balanceVars

\* There are finitely many entries: a posting adds one.
LEMMA FiniteLedgerStep ==
    ASSUME TypeOK, IsFiniteSet(ledger), [Next]_ledgerVars
    PROVE  IsFiniteSet(ledger')
  <1>1. CASE UNCHANGED <<available, hold, version, ledger>>
    BY <1>1
  <1>2. CASE Posts
    <2>1. PICK table, a, type, amount, o, key : Post(table, a, type, amount, o, key)
      BY <1>2 DEF Posts
    <2>2. ledger' = ledger \cup {NewEntry(a, type, amount, o, key)}
      BY <2>1, PostEntry
    <2> QED BY <2>2, FS_AddElement
  <1> QED BY <1>1, <1>2, StepPosts

\* The minor units that captures kept can be counted.
LEMMA KeptUnitsFinite ==
    ASSUME NEW a
    PROVE  IsFiniteSet(KeptUnits(a)) /\ Cardinality(KeptUnits(a)) \in Nat
  <1>1. IsFiniteSet(OpIds \X (1..MaxMinor))
    <2>1. IsFiniteSet(1..MaxMinor)
      BY AmountsAssumption, FS_Interval
    <2>2. IsFiniteSet(OpIds)
      BY OpIdsAssumption
    <2> QED BY <2>1, <2>2, FS_Product
  <1>2. KeptUnits(a) \in SUBSET (OpIds \X (1..MaxMinor))
    BY DEF KeptUnits
  <1> QED BY <1>1, <1>2, FS_Subset, FS_CardinalityType

\* So can those that were posted.
LEMMA PostedUnitsFinite ==
    ASSUME IsFiniteSet(ledger), NEW a, NEW types
    PROVE  IsFiniteSet(PostedUnits(a, types)) /\ Cardinality(PostedUnits(a, types)) \in Nat
  <1>1. IsFiniteSet(ledger \X (1..MaxMinor))
    <2>1. IsFiniteSet(1..MaxMinor)
      BY AmountsAssumption, FS_Interval
    <2> QED BY <2>1, FS_Product
  <1>2. PostedUnits(a, types) \in SUBSET (ledger \X (1..MaxMinor))
    BY DEF PostedUnits
  <1> QED BY <1>1, <1>2, FS_Subset, FS_CardinalityType

\* A posting adds its amount to what was posted to its account under its type.
LEMMA PostedStep ==
    ASSUME TypeOK, IsFiniteSet(ledger),
           NEW table, NEW a, NEW type, NEW amount, NEW o, NEW key,
           PostingArguments(table, a, type, amount, o, key),
           Post(table, a, type, amount, o, key),
           NEW b, NEW types
    PROVE  Cardinality(PostedUnits(b, types)') =
              Cardinality(PostedUnits(b, types))
              + (IF a = b /\ type \in types THEN amount ELSE 0)
  <1> DEFINE n == NewEntry(a, type, amount, o, key)
  <1>1. /\ ledger' = ledger \cup {n} /\ n \notin ledger
        /\ n.account = a /\ n.type = type /\ n.amount = amount
    BY PostEntry
  <1>2. amount \in 1..MaxMinor /\ amount \in Nat /\ MaxMinor \in Nat
    BY AmountsAssumption DEF PostingArguments
  <1>3. Cardinality(PostedUnits(b, types)) \in Nat
    BY PostedUnitsFinite
  <1> HIDE DEF n
  <1>4. CASE a = b /\ type \in types
    <2>1. PostedUnits(b, types)' = PostedUnits(b, types) \cup Strip(n, 0, amount)
      BY <1>1, <1>2, <1>4 DEF PostedUnits, Strip
    <2>2. PostedUnits(b, types) \cap Strip(n, 0, amount) = {}
      BY <1>1 DEF PostedUnits, Strip
    <2>3. Cardinality(PostedUnits(b, types)') = Cardinality(PostedUnits(b, types)) + (amount - 0)
      BY <1>2, <2>1, <2>2, PostedUnitsFinite, AddStrip
    <2> QED BY <1>2, <1>3, <1>4, <2>3
  <1>5. CASE ~(a = b /\ type \in types)
    <2>1. PostedUnits(b, types)' = PostedUnits(b, types)
      BY <1>1, <1>5 DEF PostedUnits
    <2> QED BY <1>3, <1>5, <2>1
  <1> QED BY <1>4, <1>5

MoneyInvariant ==
    /\ TypeOK
    /\ RefundsWithin
    /\ IsFiniteSet(ledger)
    /\ \A a \in Accounts : Balanced(a)

\* The inductive step of Balanced, one case per caller.
LEMMA BalancedStep ==
    ASSUME MoneyInvariant, [Next]_ledgerVars, NEW b \in Accounts
    PROVE  Balanced(b)'
  <1> DEFINE kept == Cardinality(KeptUnits(b))
             credited == Cardinality(PostedUnits(b, Credits))
             debited == Cardinality(PostedUnits(b, {"manual_debit"}))
  <1>0. /\ TypeOK /\ RefundsWithin /\ IsFiniteSet(ledger)
        /\ ops \in Tables /\ MaxMinor \in Nat
        /\ available \in [Accounts -> Int] /\ hold \in [Accounts -> Int]
        /\ available[b] \in Int /\ hold[b] \in Int
    BY AmountsAssumption DEF MoneyInvariant, TypeOK, Tables
  <1>01. kept \in Nat /\ credited \in Nat /\ debited \in Nat
    BY <1>0, KeptUnitsFinite, PostedUnitsFinite
  <1>02. available[b] + hold[b] + kept = credited - debited
    BY DEF MoneyInvariant, Balanced
  <1>03. Balanced(b)' <=> available'[b] + hold'[b] + kept' = credited' - debited'
    BY DEF Balanced
  <1> HIDE DEF kept, credited, debited
  <1>1. ASSUME NEW o \in OpIds, NEW a \in Accounts, NEW s \in Subjects,
               NEW m \in Amounts, Reserve(o, a, s, m)
        PROVE  Balanced(b)'
    <2>1. /\ ops[o].state = "none"
          /\ ops' = Inserted(o, a, s, m)
          /\ available' = [available EXCEPT ![a] = available[a] + (-m)]
          /\ hold' = [hold EXCEPT ![a] = hold[a] + m]
          /\ m \in Nat
      BY <1>1, ReserveEffect, AmountsAssumption
    <2>2. available'[b] + hold'[b] = available[b] + hold[b]
      BY <1>0, <2>1
    <2>3. kept' = kept
      <3>1. KeptUnits(b)' = KeptUnits(b)
        BY <1>0, <2>1 DEF KeptUnits, Inserted, Tables
      <3> QED BY <3>1 DEF kept
    <2>4. credited' = credited /\ debited' = debited
      BY <1>0, <1>01, <1>1, ReserveArguments, PostedStep
         DEF Reserve, Credits, credited, debited
    <2> QED BY <1>02, <1>03, <2>2, <2>3, <2>4
  <1>2. ASSUME NEW o \in OpIds, NEW t \in Terminal, Settle(o, t)
        PROVE  Balanced(b)'
    <2> DEFINE a == ops[o].account
               m == ops[o].amount
    <2>1. /\ ops[o].state \in Live
          /\ ops' = [ops EXCEPT ![o].state = t]
          /\ hold' = [hold EXCEPT ![a] = hold[a] + (-m)]
          /\ t = "captured" => available' = [available EXCEPT ![a] = available[a] + 0]
          /\ t = "released" => available' = [available EXCEPT ![a] = available[a] + m]
      BY <1>2, SettleEffect
    <2>2. ops[o] \in Operation /\ a \in Accounts /\ m \in 1..MaxMinor /\ m \in Nat
      BY <1>0, <2>1, OperationRow DEF Live
    <2>3. ops[o].refunded = 0
      BY <1>0, <2>1 DEF RefundsWithin
    <2>4. credited' = credited /\ debited' = debited
      BY <1>0, <1>01, <1>2, <2>1, SettleArguments, PostedStep
         DEF Settle, Credits, credited, debited
    <2>5. CASE t = "captured" /\ a = b
      <3>1. KeptUnits(b)' = KeptUnits(b) \cup Strip(o, 0, m)
        BY <1>0, <2>1, <2>2, <2>3, <2>5 DEF KeptUnits, Strip, Operation, Tables
      <3>2. KeptUnits(b) \cap Strip(o, 0, m) = {}
        BY <2>1 DEF KeptUnits, Strip, Live
      <3>3. kept' = kept + (m - 0)
        BY <2>2, <3>1, <3>2, KeptUnitsFinite, AddStrip DEF kept
      <3>4. available'[b] + hold'[b] = available[b] + hold[b] - m
        BY <1>0, <2>1, <2>2, <2>5
      <3> QED BY <1>0, <1>01, <1>02, <1>03, <2>2, <2>4, <3>3, <3>4
    <2>6. CASE t = "released" \/ a # b
      <3>1. KeptUnits(b)' = KeptUnits(b)
        BY <1>0, <2>1, <2>2, <2>6 DEF KeptUnits, Operation, Tables, Live
      <3>2. kept' = kept
        BY <3>1 DEF kept
      <3>3. available'[b] + hold'[b] = available[b] + hold[b]
        BY <1>0, <2>1, <2>2, <2>6 DEF Terminal
      <3> QED BY <1>02, <1>03, <2>4, <3>2, <3>3
    <2> QED BY <2>5, <2>6 DEF Terminal
  <1>3. ASSUME NEW o \in OpIds, MarkReconciliation(o)
        PROVE  Balanced(b)'
    <2>1. /\ ops[o].state = "reserved"
          /\ ops' = [ops EXCEPT ![o].state = "reconciliation"]
          /\ UNCHANGED <<available, hold, ledger>>
      BY <1>3 DEF MarkReconciliation
    <2>2. ops[o] \in Operation
      BY <1>0, <2>1, OperationRow
    <2>3. KeptUnits(b)' = KeptUnits(b)
      BY <1>0, <2>1, <2>2 DEF KeptUnits, Operation, Tables
    <2>4. kept' = kept /\ credited' = credited /\ debited' = debited
      BY <2>1, <2>3 DEF kept, credited, debited, PostedUnits
    <2> QED BY <1>02, <1>03, <2>1, <2>4
  <1>4. ASSUME NEW o \in OpIds, NEW m \in Amounts, NEW r \in Refs, PostRefund(o, m, r)
        PROVE  Balanced(b)'
    <2> DEFINE a == ops[o].account
               k == ops[o].refunded
    <2>1. /\ ops[o].state = "captured"
          /\ m <= ops[o].amount - k
          /\ ops' = [ops EXCEPT ![o].refunded = k + m]
          /\ available' = [available EXCEPT ![a] = available[a] + m]
          /\ hold' = [hold EXCEPT ![a] = hold[a] + 0]
          /\ m \in 1..MaxMinor
      BY <1>4, RefundEffect, AmountsAssumption
    <2>2. ops[o] \in Operation /\ a \in Accounts /\ k \in Nat /\ k + m \in Nat
      BY <1>0, <2>1, OperationRow DEF Operation
    <2>3. credited' = credited /\ debited' = debited
      BY <1>0, <1>01, <1>4, RefundArguments, PostedStep
         DEF PostRefund, Credits, credited, debited
    <2>4. CASE a = b
      <3>1. KeptUnits(b)' = KeptUnits(b) \ Strip(o, k, k + m)
        BY <1>0, <2>1, <2>2, <2>4 DEF KeptUnits, Strip, Operation, Tables
      <3>2. Strip(o, k, k + m) \subseteq KeptUnits(b)
        BY <1>0, <2>1, <2>2, <2>4 DEF KeptUnits, Strip, Operation
      <3>3. kept' = kept - ((k + m) - k)
        BY <2>1, <2>2, <3>1, <3>2, KeptUnitsFinite, RemoveStrip DEF kept
      <3>4. available'[b] + hold'[b] = available[b] + hold[b] + m
        BY <1>0, <2>1, <2>2, <2>4
      <3> QED BY <1>0, <1>01, <1>02, <1>03, <2>1, <2>2, <2>3, <3>3, <3>4
    <2>5. CASE a # b
      <3>1. KeptUnits(b)' = KeptUnits(b)
        BY <1>0, <2>1, <2>2, <2>5 DEF KeptUnits, Operation, Tables
      <3>2. kept' = kept /\ available'[b] + hold'[b] = available[b] + hold[b]
        BY <1>0, <2>1, <2>2, <2>5, <3>1 DEF kept
      <3> QED BY <1>02, <1>03, <2>3, <3>2
    <2> QED BY <2>4, <2>5
  <1>5. ASSUME NEW a \in Accounts, NEW t \in Credits \cup {"manual_debit"},
               NEW m \in Amounts, NEW r \in Refs, PostRequest(a, t, m, r)
        PROVE  Balanced(b)'
    <2>1. /\ ops' = ops
          /\ hold' = [hold EXCEPT ![a] = hold[a] + 0]
          /\ available' = [available EXCEPT ![a] =
                              available[a] + (IF t \in Credits THEN m ELSE -m)]
          /\ m \in Nat
      BY <1>5, RequestEffect, AmountsAssumption
    <2>2. kept' = kept
      BY <2>1 DEF kept, KeptUnits
    <2>3. /\ credited' = credited + (IF a = b /\ t \in Credits THEN m ELSE 0)
          /\ debited' = debited + (IF a = b /\ t \in {"manual_debit"} THEN m ELSE 0)
      BY <1>0, <1>5, RequestArguments, PostedStep DEF PostRequest, credited, debited
    <2>4. t \in Credits <=> t # "manual_debit"
      BY DEF Credits
    <2>5. CASE a = b
      <3>1. available'[b] + hold'[b] =
              available[b] + hold[b] + (IF t \in Credits THEN m ELSE -m)
        BY <1>0, <2>1, <2>5
      <3> QED BY <1>0, <1>01, <1>02, <1>03, <2>1, <2>2, <2>3, <2>4, <2>5, <3>1
    <2>6. CASE a # b
      <3>1. available'[b] + hold'[b] = available[b] + hold[b]
        BY <1>0, <2>1, <2>6
      <3> QED BY <1>01, <1>02, <1>03, <2>2, <2>3, <2>6, <3>1
    <2> QED BY <2>5, <2>6
  <1>6. CASE UNCHANGED balanceVars
    BY <1>02, <1>03, <1>6
       DEF balanceVars, kept, credited, debited, KeptUnits, PostedUnits
  <1> QED BY <1>1, <1>2, <1>3, <1>4, <1>5, <1>6
          DEF Next, LedgerNext, RequestPostings, ledgerVars, balanceVars

\* Nothing was posted at first.
LEMMA InitMoney == Init => MoneyInvariant
  <1> SUFFICES ASSUME Init PROVE MoneyInvariant
    OBVIOUS
  <1>1. TypeOK
    BY InitTypeOK
  <1>2. RefundsWithin /\ IsFiniteSet(ledger)
    BY FS_EmptySet DEF Init, BalancesInit, RefundsWithin, Unused
  <1>3. ASSUME NEW a \in Accounts PROVE Balanced(a)
    <2>1. /\ KeptUnits(a) = {}
          /\ PostedUnits(a, Credits) = {} /\ PostedUnits(a, {"manual_debit"}) = {}
      BY DEF Init, BalancesInit, KeptUnits, PostedUnits, Unused
    <2>2. available[a] = 0 /\ hold[a] = 0
      BY DEF Init, BalancesInit
    <2> QED BY <2>1, <2>2, FS_EmptySet DEF Balanced
  <1> QED BY <1>1, <1>2, <1>3 DEF MoneyInvariant

\* Whatever is reserved, settled, refunded and reviewed in whichever order, what
\* an account has, holds and has paid for adds up to what was credited to it
\* less what was debited, and no balance leaves the range of its column.
THEOREM MoneyIsConserved == Spec => []MoneyConserved
  <1>1. Init => MoneyInvariant
    BY InitMoney
  <1>2. MoneyInvariant /\ [Next]_ledgerVars => MoneyInvariant'
    <2> SUFFICES ASSUME MoneyInvariant, [Next]_ledgerVars PROVE MoneyInvariant'
      OBVIOUS
    <2>1. TypeOK' /\ RefundsWithin' /\ IsFiniteSet(ledger')
      BY TypeOKStep, RefundsWithinStep, FiniteLedgerStep DEF MoneyInvariant
    <2>2. \A a \in Accounts : Balanced(a)'
      BY BalancedStep
    <2> QED BY <2>1, <2>2 DEF MoneyInvariant
  <1>3. MoneyInvariant => MoneyConserved
    BY DEF MoneyInvariant, MoneyConserved
  <1> QED BY <1>1, <1>2, <1>3, PTL DEF Spec

-----------------------------------------------------------------------------
(* The ledger explains balances and operations *)

\* An account without entries has no money; BalancesExplained does not say so.
EmptyAtFirst(a) == version[a] = 0 => available[a] = 0 /\ hold[a] = 0

\* An entry continues the one before it: it takes the next number of the version
\* and starts from the balances of the account row.
LEMMA BalancesExplainedStep ==
    ASSUME TypeOK, [Next]_ledgerVars, NEW b \in Accounts,
           BalancesExplained(b), EmptyAtFirst(b)
    PROVE  BalancesExplained(b)' /\ EmptyAtFirst(b)'
  <1>1. CASE UNCHANGED <<available, hold, version, ledger>>
    BY <1>1 DEF BalancesExplained, EntriesOf, EmptyAtFirst
  <1>2. CASE Posts
    <2>1. PICK table \in Tables, a \in Accounts, type \in TransactionTypes,
               amount \in 1..MaxMinor, o \in OpIds \cup {NoOp}, key \in Key :
             Post(table, a, type, amount, o, key)
      BY <1>2 DEF Posts
    <2> DEFINE n == NewEntry(a, type, amount, o, key)
    <2>2. /\ ledger' = ledger \cup {n} /\ n \notin ledger
          /\ n.account = a /\ n.sequence = version[a] + 1
      BY <2>1, PostEntry
    <2>3. /\ n.availableBefore = available[a] /\ n.holdBefore = hold[a]
          /\ available' = [available EXCEPT ![a] = n.availableAfter]
          /\ hold' = [hold EXCEPT ![a] = n.holdAfter]
          /\ version' = [version EXCEPT ![a] = version[a] + 1]
      BY <2>1 DEF Post, NewEntry
    <2> HIDE DEF n
    <2>4. /\ version \in [Accounts -> Nat]
          /\ available \in [Accounts -> 0..MaxMinor] /\ hold \in [Accounts -> 0..MaxMinor]
          /\ \A e \in ledger : e.sequence \in Nat \ {0}
      BY DEF TypeOK, Entry
    <2>5. CASE a # b
      <3>1. EntriesOf(b)' = EntriesOf(b)
        BY <2>2, <2>5 DEF EntriesOf
      <3>2. /\ version'[b] = version[b] /\ available'[b] = available[b]
            /\ hold'[b] = hold[b]
        BY <2>3, <2>4, <2>5
      <3> QED BY <3>1, <3>2 DEF BalancesExplained, EmptyAtFirst
    <2>6. CASE a = b
      <3> DEFINE v == version[b]
      <3>1. /\ EntriesOf(b)' = EntriesOf(b) \cup {n} /\ n.sequence = v + 1
            /\ version'[b] = v + 1 /\ v \in Nat
            /\ available'[b] = n.availableAfter /\ hold'[b] = n.holdAfter
        BY <2>2, <2>3, <2>4, <2>6 DEF EntriesOf
      <3>2. \A e \in EntriesOf(b) : e.sequence \in Nat \ {0} /\ e.sequence <= v
        BY <2>4 DEF EntriesOf, BalancesExplained
      <3>3. \A i \in 1..v : \E e \in EntriesOf(b) : e.sequence = i
        BY DEF BalancesExplained
      <3>4. \A i \in 1..(v + 1) : \E e \in EntriesOf(b)' : e.sequence = i
        <4> SUFFICES ASSUME NEW i \in 1..(v + 1)
                     PROVE  \E e \in EntriesOf(b)' : e.sequence = i
          OBVIOUS
        <4>1. CASE i = v + 1
          BY <3>1, <4>1
        <4>2. CASE i # v + 1
          <5>1. i \in 1..v
            BY <3>1, <4>2
          <5> QED BY <3>1, <3>3, <5>1
        <4> QED BY <4>1, <4>2
      <3>5. ASSUME NEW e \in EntriesOf(b)'
            PROVE  /\ e.sequence <= v + 1
                   /\ e.sequence = 1 => e.availableBefore = 0 /\ e.holdBefore = 0
                   /\ e.sequence = v + 1 =>
                         e.availableAfter = available'[b] /\ e.holdAfter = hold'[b]
        <4>1. CASE e = n
          <5>1. e.availableBefore = available[b] /\ e.holdBefore = hold[b]
            BY <2>3, <2>6, <4>1
          <5>2. v + 1 = 1 => available[b] = 0 /\ hold[b] = 0
            BY <3>1 DEF EmptyAtFirst
          <5> QED BY <3>1, <4>1, <5>1, <5>2
        <4>2. CASE e \in EntriesOf(b)
          <5>1. e.sequence = 1 => e.availableBefore = 0 /\ e.holdBefore = 0
            BY <4>2 DEF BalancesExplained
          <5>2. e.sequence \in Nat /\ e.sequence <= v
            BY <3>2, <4>2
          <5> QED BY <3>1, <5>1, <5>2
        <4> QED BY <3>1, <4>1, <4>2
      <3>6. ASSUME NEW e \in EntriesOf(b)', NEW f \in EntriesOf(b)'
            PROVE  /\ e.sequence = f.sequence => e = f
                   /\ f.sequence = e.sequence + 1 =>
                         /\ f.availableBefore = e.availableAfter
                         /\ f.holdBefore = e.holdAfter
        <4>1. CASE e \in EntriesOf(b) /\ f \in EntriesOf(b)
          BY <4>1 DEF BalancesExplained
        <4>2. CASE e = n /\ f = n
          BY <3>1, <4>2
        <4>3. CASE e = n /\ f \in EntriesOf(b)
          BY <3>1, <3>2, <4>3
        <4>4. CASE e \in EntriesOf(b) /\ f = n
          <5>1. e.sequence \in Nat /\ e.sequence <= v
            BY <3>2, <4>4
          <5>2. e.sequence = v => e.availableAfter = available[b] /\ e.holdAfter = hold[b]
            BY <4>4 DEF BalancesExplained
          <5>3. f.availableBefore = available[b] /\ f.holdBefore = hold[b]
            BY <2>3, <2>6, <4>4
          <5> QED BY <3>1, <4>4, <5>1, <5>2, <5>3
        <4> QED BY <3>1, <4>1, <4>2, <4>3, <4>4
      <3>7. BalancesExplained(b)'
        BY <3>1, <3>4, <3>5, <3>6 DEF BalancesExplained
      <3> QED BY <3>1, <3>7 DEF EmptyAtFirst
    <2> QED BY <2>5, <2>6
  <1> QED BY <1>1, <1>2, StepPosts

\* A posting counts once for its operation and its type.
LEMMA EntriesForStep ==
    ASSUME IsFiniteSet(ledger),
           NEW table, NEW a, NEW type, NEW amount, NEW o, NEW key,
           Post(table, a, type, amount, o, key), NEW p, NEW t
    PROVE  Cardinality(EntriesFor(p, t)') =
              Cardinality(EntriesFor(p, t)) + (IF o = p /\ type = t THEN 1 ELSE 0)
  <1> DEFINE n == NewEntry(a, type, amount, o, key)
  <1>1. ledger' = ledger \cup {n} /\ n \notin ledger /\ n.op = o /\ n.type = type
    BY PostEntry
  <1>2. IsFiniteSet(EntriesFor(p, t)) /\ Cardinality(EntriesFor(p, t)) \in Nat
    <2>1. EntriesFor(p, t) \in SUBSET ledger
      BY DEF EntriesFor
    <2> QED BY <2>1, FS_Subset, FS_CardinalityType
  <1> HIDE DEF n
  <1>3. CASE o = p /\ type = t
    <2>1. EntriesFor(p, t)' = EntriesFor(p, t) \cup {n} /\ n \notin EntriesFor(p, t)
      BY <1>1, <1>3 DEF EntriesFor
    <2>2. Cardinality(EntriesFor(p, t)') = Cardinality(EntriesFor(p, t)) + 1
      BY <1>2, <2>1, FS_AddElement
    <2> QED BY <1>3, <2>2
  <1>4. CASE ~(o = p /\ type = t)
    <2>1. EntriesFor(p, t)' = EntriesFor(p, t)
      BY <1>1, <1>4 DEF EntriesFor
    <2> QED BY <1>2, <1>4, <2>1
  <1> QED BY <1>3, <1>4

\* A refund adds its amount to what was refunded of its operation.
LEMMA RefundUnitsStep ==
    ASSUME IsFiniteSet(ledger),
           NEW table, NEW a, NEW type, NEW amount \in 1..MaxMinor, NEW o, NEW key,
           Post(table, a, type, amount, o, key), NEW p
    PROVE  Cardinality(RefundUnits(p)') =
              Cardinality(RefundUnits(p))
              + (IF o = p /\ type = "refund" THEN amount ELSE 0)
  <1> DEFINE n == NewEntry(a, type, amount, o, key)
  <1>1. /\ ledger' = ledger \cup {n} /\ n \notin ledger
        /\ n.op = o /\ n.type = type /\ n.amount = amount
    BY PostEntry
  <1>2. IsFiniteSet(RefundUnits(p)) /\ Cardinality(RefundUnits(p)) \in Nat
    <2>1. IsFiniteSet(ledger \X (1..MaxMinor))
      <3>1. IsFiniteSet(1..MaxMinor)
        BY AmountsAssumption, FS_Interval
      <3> QED BY <3>1, FS_Product
    <2>2. RefundUnits(p) \in SUBSET (ledger \X (1..MaxMinor))
      BY DEF RefundUnits, EntriesFor
    <2> QED BY <2>1, <2>2, FS_Subset, FS_CardinalityType
  <1>3. amount \in Nat /\ MaxMinor \in Nat
    BY AmountsAssumption
  <1> HIDE DEF n
  <1>4. CASE o = p /\ type = "refund"
    <2>1. RefundUnits(p)' = RefundUnits(p) \cup Strip(n, 0, amount)
      BY <1>1, <1>3, <1>4 DEF RefundUnits, EntriesFor, Strip
    <2>2. RefundUnits(p) \cap Strip(n, 0, amount) = {}
      BY <1>1 DEF RefundUnits, EntriesFor, Strip
    <2>3. Cardinality(RefundUnits(p)') = Cardinality(RefundUnits(p)) + (amount - 0)
      BY <1>2, <1>3, <2>1, <2>2, AddStrip
    <2> QED BY <1>2, <1>3, <1>4, <2>3
  <1>5. CASE ~(o = p /\ type = "refund")
    <2>1. RefundUnits(p)' = RefundUnits(p)
      BY <1>1, <1>5 DEF RefundUnits, EntriesFor
    <2> QED BY <1>2, <1>5, <2>1
  <1> QED BY <1>4, <1>5

\* The entries of an operation, counted: holds, captures, releases and what was
\* refunded.
HoldsOf(o) == Cardinality(EntriesFor(o, "booking_hold"))
CapturesOf(o) == Cardinality(EntriesFor(o, "booking_confirm"))
ReleasesOf(o) == Cardinality(EntriesFor(o, "hold_release"))
RefundedOf(o) == Cardinality(RefundUnits(o))

LEMMA CountsStep ==
    ASSUME IsFiniteSet(ledger),
           NEW table, NEW a, NEW type, NEW amount \in 1..MaxMinor, NEW o, NEW key,
           Post(table, a, type, amount, o, key), NEW p
    PROVE  /\ HoldsOf(p)' = HoldsOf(p) + (IF o = p /\ type = "booking_hold" THEN 1 ELSE 0)
           /\ CapturesOf(p)' =
                 CapturesOf(p) + (IF o = p /\ type = "booking_confirm" THEN 1 ELSE 0)
           /\ ReleasesOf(p)' =
                 ReleasesOf(p) + (IF o = p /\ type = "hold_release" THEN 1 ELSE 0)
           /\ RefundedOf(p)' =
                 RefundedOf(p) + (IF o = p /\ type = "refund" THEN amount ELSE 0)
  BY EntriesForStep, RefundUnitsStep DEF HoldsOf, CapturesOf, ReleasesOf, RefundedOf

LEMMA ExplainedCounts ==
    ASSUME NEW o
    PROVE  OperationExplained(o) <=>
              /\ HoldsOf(o) = IF ops[o].state = "none" THEN 0 ELSE 1
              /\ CapturesOf(o) = IF ops[o].state = "captured" THEN 1 ELSE 0
              /\ ReleasesOf(o) = IF ops[o].state = "released" THEN 1 ELSE 0
              /\ RefundedOf(o) = ops[o].refunded
  BY DEF OperationExplained, HoldsOf, CapturesOf, ReleasesOf, RefundedOf

\* One hold, then a capture or a release, and refunds that add up.
LEMMA OperationExplainedStep ==
    ASSUME TypeOK, IsFiniteSet(ledger), [Next]_ledgerVars,
           NEW p \in OpIds, OperationExplained(p)
    PROVE  OperationExplained(p)'
  <1>0. /\ ops \in Tables /\ MaxMinor \in Nat
        /\ HoldsOf(p) = IF ops[p].state = "none" THEN 0 ELSE 1
        /\ CapturesOf(p) = IF ops[p].state = "captured" THEN 1 ELSE 0
        /\ ReleasesOf(p) = IF ops[p].state = "released" THEN 1 ELSE 0
        /\ RefundedOf(p) = ops[p].refunded
        /\ ops[p].refunded \in Nat
    <2>1. ops \in Tables /\ MaxMinor \in Nat
      BY AmountsAssumption DEF TypeOK, Tables
    <2>2. ops[p].refunded \in Nat
      BY <2>1 DEF Tables, Operation, Unused
    <2> QED BY <2>1, <2>2, ExplainedCounts
  <1>01. OperationExplained(p)' <=>
            /\ HoldsOf(p)' = IF ops'[p].state = "none" THEN 0 ELSE 1
            /\ CapturesOf(p)' = IF ops'[p].state = "captured" THEN 1 ELSE 0
            /\ ReleasesOf(p)' = IF ops'[p].state = "released" THEN 1 ELSE 0
            /\ RefundedOf(p)' = ops'[p].refunded
    BY DEF OperationExplained, HoldsOf, CapturesOf, ReleasesOf, RefundedOf
  <1>1. ASSUME NEW o \in OpIds, NEW a \in Accounts, NEW s \in Subjects,
               NEW m \in Amounts, Reserve(o, a, s, m)
        PROVE  OperationExplained(p)'
    <2>1. ops[o].state = "none" /\ ops' = Inserted(o, a, s, m) /\ m \in 1..MaxMinor
      BY <1>1, ReserveEffect, AmountsAssumption
    <2>2. ops[o] = Unused
      BY <1>0, <2>1 DEF Tables, Operation, Live, Terminal
    <2>3. /\ HoldsOf(p)' = HoldsOf(p) + (IF o = p THEN 1 ELSE 0)
          /\ CapturesOf(p)' = CapturesOf(p) + 0
          /\ ReleasesOf(p)' = ReleasesOf(p) + 0
          /\ RefundedOf(p)' = RefundedOf(p) + 0
      <3> DEFINE table == Inserted(o, a, s, m)
                 key == <<"reserve", o>>
      <3>1. Post(table, a, "booking_hold", m, o, key)
        BY <1>1 DEF Reserve
      <3> HIDE DEF table, key
      <3>2. /\ HoldsOf(p)' = HoldsOf(p)
                    + (IF o = p /\ "booking_hold" = "booking_hold" THEN 1 ELSE 0)
            /\ CapturesOf(p)' = CapturesOf(p)
                    + (IF o = p /\ "booking_hold" = "booking_confirm" THEN 1 ELSE 0)
            /\ ReleasesOf(p)' = ReleasesOf(p)
                    + (IF o = p /\ "booking_hold" = "hold_release" THEN 1 ELSE 0)
            /\ RefundedOf(p)' = RefundedOf(p)
                    + (IF o = p /\ "booking_hold" = "refund" THEN m ELSE 0)
        BY <2>1, <3>1, CountsStep, ZenonT(90)
      <3> QED BY <3>2
    <2>4. CASE o = p
      <3>1. ops'[p].state = "reserved" /\ ops'[p].refunded = 0
        BY <1>0, <2>1, <2>4 DEF Inserted, Tables
      <3> QED BY <1>0, <1>01, <2>2, <2>3, <2>4, <3>1 DEF Unused
    <2>5. CASE o # p
      <3>1. ops'[p] = ops[p]
        BY <1>0, <2>1, <2>5 DEF Inserted, Tables
      <3> QED BY <1>0, <1>01, <2>3, <2>5, <3>1
    <2> QED BY <2>4, <2>5
  <1>2. ASSUME NEW o \in OpIds, NEW t \in Terminal, Settle(o, t)
        PROVE  OperationExplained(p)'
    <2> DEFINE type == IF t = "captured" THEN "booking_confirm" ELSE "hold_release"
    <2>1. ops[o].state \in Live /\ ops' = [ops EXCEPT ![o].state = t]
      BY <1>2, SettleEffect
    <2>2. ops[o] \in Operation /\ ops[o].amount \in 1..MaxMinor
      BY <2>1, OperationRow DEF Live
    <2>3. /\ HoldsOf(p)' = HoldsOf(p) + (IF o = p /\ type = "booking_hold" THEN 1 ELSE 0)
          /\ CapturesOf(p)' =
                CapturesOf(p) + (IF o = p /\ type = "booking_confirm" THEN 1 ELSE 0)
          /\ ReleasesOf(p)' =
                ReleasesOf(p) + (IF o = p /\ type = "hold_release" THEN 1 ELSE 0)
          /\ RefundedOf(p)' =
                RefundedOf(p) + (IF o = p /\ type = "refund" THEN ops[o].amount ELSE 0)
      <3> DEFINE key == <<t, o>>
      <3>1. Post(ops, ops[o].account, type, ops[o].amount, o, key)
        BY <1>2 DEF Settle
      <3> HIDE DEF key, type
      <3>2. PICK a \in Accounts, m \in 1..MaxMinor : a = ops[o].account /\ m = ops[o].amount
        BY <2>2 DEF Operation
      <3>3. Post(ops, a, type, m, o, key)
        BY <3>1, <3>2
      <3>4. /\ HoldsOf(p)' = HoldsOf(p) + (IF o = p /\ type = "booking_hold" THEN 1 ELSE 0)
            /\ CapturesOf(p)' =
                  CapturesOf(p) + (IF o = p /\ type = "booking_confirm" THEN 1 ELSE 0)
            /\ ReleasesOf(p)' =
                  ReleasesOf(p) + (IF o = p /\ type = "hold_release" THEN 1 ELSE 0)
            /\ RefundedOf(p)' =
                  RefundedOf(p) + (IF o = p /\ type = "refund" THEN m ELSE 0)
        BY <3>3, CountsStep
      <3> QED BY <3>2, <3>4
    <2>4. CASE o = p
      <3>1. ops'[p].state = t /\ ops'[p].refunded = ops[p].refunded
        BY <1>0, <2>1, <2>2, <2>4 DEF Tables, Operation
      <3> QED BY <1>0, <1>01, <2>1, <2>3, <2>4, <3>1 DEF Terminal, Live
    <2>5. CASE o # p
      <3>1. ops'[p] = ops[p]
        BY <1>0, <2>1, <2>5 DEF Tables
      <3> QED BY <1>0, <1>01, <2>3, <2>5, <3>1
    <2> QED BY <2>4, <2>5
  <1>3. ASSUME NEW o \in OpIds, MarkReconciliation(o)
        PROVE  OperationExplained(p)'
    <2>1. /\ ops[o].state = "reserved"
          /\ ops' = [ops EXCEPT ![o].state = "reconciliation"]
          /\ ledger' = ledger
      BY <1>3 DEF MarkReconciliation
    <2>2. ops[o] \in Operation
      BY <2>1, OperationRow
    <2>3. /\ ops'[p].refunded = ops[p].refunded
          /\ ops'[p].state = IF o = p THEN "reconciliation" ELSE ops[p].state
      BY <1>0, <2>1, <2>2 DEF Tables, Operation
    <2>4. /\ HoldsOf(p)' = HoldsOf(p) /\ CapturesOf(p)' = CapturesOf(p)
          /\ ReleasesOf(p)' = ReleasesOf(p) /\ RefundedOf(p)' = RefundedOf(p)
      BY <2>1 DEF HoldsOf, CapturesOf, ReleasesOf, RefundedOf, RefundUnits, EntriesFor
    <2> QED BY <1>0, <1>01, <2>1, <2>3, <2>4
  <1>4. ASSUME NEW o \in OpIds, NEW m \in Amounts, NEW r \in Refs, PostRefund(o, m, r)
        PROVE  OperationExplained(p)'
    <2>1. /\ ops[o].state = "captured"
          /\ ops' = [ops EXCEPT ![o].refunded = ops[o].refunded + m]
          /\ m \in 1..MaxMinor
      BY <1>4, RefundEffect, AmountsAssumption
    <2>2. ops[o] \in Operation
      BY <2>1, OperationRow
    <2>3. /\ HoldsOf(p)' = HoldsOf(p) + 0
          /\ CapturesOf(p)' = CapturesOf(p) + 0
          /\ ReleasesOf(p)' = ReleasesOf(p) + 0
          /\ RefundedOf(p)' = RefundedOf(p) + (IF o = p THEN m ELSE 0)
      BY <1>4, <2>1, CountsStep DEF PostRefund
    <2>4. /\ ops'[p].state = ops[p].state
          /\ ops'[p].refunded = IF o = p THEN ops[p].refunded + m ELSE ops[p].refunded
      BY <1>0, <2>1, <2>2 DEF Tables, Operation
    <2> QED BY <1>0, <1>01, <2>1, <2>3, <2>4
  <1>5. ASSUME NEW a \in Accounts, NEW t \in Credits \cup {"manual_debit"},
               NEW m \in Amounts, NEW r \in Refs, PostRequest(a, t, m, r)
        PROVE  OperationExplained(p)'
    <2>1. ops' = ops /\ m \in 1..MaxMinor /\ NoOp # p
      BY <1>5, RequestEffect, AmountsAssumption, OpIdsAssumption
    <2>2. /\ HoldsOf(p)' = HoldsOf(p) + 0
          /\ CapturesOf(p)' = CapturesOf(p) + 0
          /\ ReleasesOf(p)' = ReleasesOf(p) + 0
          /\ RefundedOf(p)' = RefundedOf(p) + 0
      <3> DEFINE key == <<"request", r>>
      <3>1. Post(ops, a, t, m, NoOp, key)
        BY <1>5 DEF PostRequest
      <3> HIDE DEF key
      <3>2. /\ HoldsOf(p)' = HoldsOf(p)
                    + (IF NoOp = p /\ t = "booking_hold" THEN 1 ELSE 0)
            /\ CapturesOf(p)' = CapturesOf(p)
                    + (IF NoOp = p /\ t = "booking_confirm" THEN 1 ELSE 0)
            /\ ReleasesOf(p)' = ReleasesOf(p)
                    + (IF NoOp = p /\ t = "hold_release" THEN 1 ELSE 0)
            /\ RefundedOf(p)' = RefundedOf(p)
                    + (IF NoOp = p /\ t = "refund" THEN m ELSE 0)
        BY <2>1, <3>1, CountsStep
      <3> QED BY <2>1, <3>2
    <2> QED BY <1>0, <1>01, <2>1, <2>2
  <1>6. CASE UNCHANGED balanceVars
    BY <1>6 DEF balanceVars, OperationExplained, RefundUnits, EntriesFor
  <1> QED BY <1>1, <1>2, <1>3, <1>4, <1>5, <1>6
          DEF Next, LedgerNext, RequestPostings, ledgerVars, balanceVars

ExplainInvariant ==
    /\ TypeOK
    /\ IsFiniteSet(ledger)
    /\ \A a \in Accounts : BalancesExplained(a) /\ EmptyAtFirst(a)
    /\ \A o \in OpIds : OperationExplained(o)

\* An empty ledger explains empty accounts.
LEMMA InitExplained == Init => ExplainInvariant
  <1> SUFFICES ASSUME Init PROVE ExplainInvariant
    OBVIOUS
  <1>1. TypeOK /\ IsFiniteSet(ledger)
    BY InitTypeOK, FS_EmptySet DEF Init, BalancesInit
  <1>2. ASSUME NEW a \in Accounts PROVE BalancesExplained(a) /\ EmptyAtFirst(a)
    <2>1. EntriesOf(a) = {} /\ version[a] = 0 /\ available[a] = 0 /\ hold[a] = 0
      BY DEF Init, BalancesInit, EntriesOf
    <2>2. 1..version[a] = {}
      BY <2>1
    <2> QED BY <2>1, <2>2 DEF BalancesExplained, EmptyAtFirst
  <1>3. ASSUME NEW o \in OpIds PROVE OperationExplained(o)
    <2>1. /\ \A t : EntriesFor(o, t) = {}
          /\ RefundUnits(o) = {} /\ ops[o] = Unused
      BY DEF Init, BalancesInit, EntriesFor, RefundUnits
    <2> QED BY <2>1, FS_EmptySet DEF OperationExplained, Unused
  <1> QED BY <1>1, <1>2, <1>3 DEF ExplainInvariant

\* The ledger alone accounts for every balance and every operation: the
\* deferred integrity triggers of the wallet tables never abort a transaction
\* of the code.
THEOREM LedgerIsComplete == Spec => []LedgerExplains
  <1>1. Init => ExplainInvariant
    BY InitExplained
  <1>2. ExplainInvariant /\ [Next]_ledgerVars => ExplainInvariant'
    <2> SUFFICES ASSUME ExplainInvariant, [Next]_ledgerVars PROVE ExplainInvariant'
      OBVIOUS
    <2>1. TypeOK' /\ IsFiniteSet(ledger')
      BY TypeOKStep, FiniteLedgerStep DEF ExplainInvariant
    <2>2. \A a \in Accounts : BalancesExplained(a)' /\ EmptyAtFirst(a)'
      BY BalancesExplainedStep DEF ExplainInvariant
    <2>3. \A o \in OpIds : OperationExplained(o)'
      BY OperationExplainedStep DEF ExplainInvariant
    <2> QED BY <2>1, <2>2, <2>3 DEF ExplainInvariant
  <1>3. ExplainInvariant => LedgerExplains
    BY DEF ExplainInvariant, LedgerExplains
  <1> QED BY <1>1, <1>2, <1>3, PTL DEF Spec

-----------------------------------------------------------------------------
(* WalletLedger implements WalletPromise *)

\* The purchase an operation row is to its payer.
View(row) ==
    [phase |-> CASE row.state \in Live -> "held"
                 [] row.state = "captured" -> "charged"
                 [] row.state = "released" -> "returned",
     account |-> row.account,
     cost |-> IF row.state = "released" THEN 0 ELSE row.amount - row.refunded]

NotStarted == [phase |-> "none", account |-> NoAccount, cost |-> 0]

\* PurchaseOf over any table of operations.
PurchaseIn(table, s) ==
    IF \E p \in OpIds : table[p].subject = s
    THEN View(table[CHOOSE p \in OpIds : table[p].subject = s])
    ELSE NotStarted

Once(table) ==
    \A o, p \in OpIds :
        table[o].subject = table[p].subject /\ table[o].state # "none" => o = p

Frozen == {a \in Accounts : status[OwnerOf[a]] = "frozen"}
PurchaseTable == [s \in Subjects |-> PurchaseIn(ops, s)]

\* The purchase table is the one the promise speaks of.
LEMMA PromisePurchases ==
    /\ [s \in Subjects |-> PurchaseOf(s)] = PurchaseTable
    /\ [s \in Subjects |-> PurchaseOf(s)]' = PurchaseTable'
  <1>1. \A s \in Subjects : PurchaseOf(s) = PurchaseIn(ops, s)
    BY DEF PurchaseOf, PurchaseIn, Reserved, View, NotStarted
  <1>2. \A s \in Subjects : PurchaseOf(s)' = PurchaseIn(ops, s)'
    BY DEF PurchaseOf, PurchaseIn, Reserved, View, NotStarted
  <1> QED BY <1>1, <1>2 DEF PurchaseTable

\* The initial states of the promise, and its stuttering steps.
LEMMA PromiseTerms ==
    /\ Promise!Init <=> /\ available = [a \in Accounts |-> 0]
                        /\ Frozen = {}
                        /\ PurchaseTable = [s \in Subjects |-> NotStarted]
    /\ UNCHANGED Promise!promiseVars
          <=> /\ available' = available /\ Frozen' = Frozen
              /\ PurchaseTable' = PurchaseTable
  BY PromisePurchases
     DEF Promise!Init, Promise!NotStarted, NotStarted, Frozen, Promise!promiseVars

\* A subject that an operation was reserved for is that operation.
LEMMA ViewOfSubject ==
    ASSUME NEW table \in Tables, Once(table), NEW o \in OpIds,
           table[o].state # "none"
    PROVE  /\ table[o] \in Operation /\ table[o].subject \in Subjects
           /\ PurchaseIn(table, table[o].subject) = View(table[o])
  <1>1. table[o] \in Operation /\ table[o].subject \in Subjects
    BY DEF Tables, Operation, Unused
  <1> DEFINE s == table[o].subject
             q == CHOOSE p \in OpIds : table[p].subject = s
  <1>2. \E p \in OpIds : table[p].subject = s
    OBVIOUS
  <1>3. q \in OpIds /\ table[q].subject = s
    BY <1>2
  <1>4. q = o
    BY <1>3 DEF Once
  <1> QED BY <1>1, <1>2, <1>4 DEF PurchaseIn

\* A change of one row changes one purchase.
LEMMA OtherPurchases ==
    ASSUME NEW table \in Tables, Once(table), NEW next \in Tables, Once(next),
           NEW o \in OpIds, next[o].state # "none",
           table[o].state # "none" => table[o].subject = next[o].subject,
           \A p \in OpIds \ {o} : next[p] = table[p],
           NEW s \in Subjects, s # next[o].subject
    PROVE  PurchaseIn(next, s) = PurchaseIn(table, s)
  <1>1. table[o].subject # s
    BY NoSubjectAssumption DEF Tables, Operation, Unused, Live, Terminal
  <1>2. CASE \E p \in OpIds : table[p].subject = s
    <2>1. PICK p \in OpIds : table[p].subject = s
      BY <1>2
    <2>2. p # o /\ next[p] = table[p] /\ table[p].state # "none"
      BY <1>1, <2>1, NoSubjectAssumption DEF Tables, Operation, Unused, Live, Terminal
    <2>3. PurchaseIn(table, s) = View(table[p]) /\ PurchaseIn(next, s) = View(next[p])
      BY <2>1, <2>2, ViewOfSubject
    <2> QED BY <2>2, <2>3
  <1>3. CASE ~\E p \in OpIds : table[p].subject = s
    <2>1. ~\E p \in OpIds : next[p].subject = s
      BY <1>3
    <2> QED BY <1>3, <2>1 DEF PurchaseIn
  <1> QED BY <1>2, <1>3

LEMMA PurchaseTableStep ==
    ASSUME TypeOK, TypeOK', SubjectsOnce, SubjectsOnce',
           NEW o \in OpIds, ops'[o].state # "none",
           ops[o].state # "none" => ops[o].subject = ops'[o].subject,
           \A p \in OpIds \ {o} : ops'[p] = ops[p]
    PROVE  /\ ops'[o].subject \in Subjects
           /\ PurchaseTable' = [PurchaseTable EXCEPT ![ops'[o].subject] = View(ops'[o])]
  <1>1. ops \in Tables /\ ops' \in Tables /\ Once(ops) /\ Once(ops')
    BY DEF TypeOK, Tables, SubjectsOnce, Once
  <1>2. ops'[o].subject \in Subjects /\ PurchaseIn(ops', ops'[o].subject) = View(ops'[o])
    BY <1>1, ViewOfSubject
  <1>3. \A s \in Subjects : s # ops'[o].subject => PurchaseIn(ops', s) = PurchaseIn(ops, s)
    BY <1>1, OtherPurchases
  <1>4. PurchaseTable' = [s \in Subjects |-> PurchaseIn(ops', s)]
    BY DEF PurchaseTable, PurchaseIn
  <1> QED BY <1>2, <1>3, <1>4 DEF PurchaseTable

\* Nobody paid and nothing is frozen at first.
LEMMA InitPromise == Init => Promise!Init
  <1> SUFFICES ASSUME Init PROVE Promise!Init
    OBVIOUS
  <1>1. available = [a \in Accounts |-> 0]
    BY DEF Init, BalancesInit
  <1>2. Frozen = {}
    BY OwnerOfAssumption DEF Init, AccountsInit, Frozen
  <1>3. PurchaseTable = [s \in Subjects |-> NotStarted]
    BY NoSubjectAssumption DEF Init, BalancesInit, PurchaseTable, PurchaseIn, Unused
  <1> QED BY <1>1, <1>2, <1>3, PromiseTerms

PromiseInvariant == TypeOK /\ SubjectsOnce /\ RefundsWithin

\* A reservation starts a purchase.
LEMMA ReserveHolds ==
    ASSUME PromiseInvariant, PromiseInvariant',
           NEW o \in OpIds, NEW a \in Accounts, NEW s \in Subjects, NEW m \in Amounts,
           Reserve(o, a, s, m)
    PROVE  Promise!Hold(s, a, m) /\ m \in Promise!Money
  <1>1. /\ ops[o].state = "none" /\ ops' = Inserted(o, a, s, m)
        /\ available' = [available EXCEPT ![a] = available[a] + (-m)]
    BY ReserveEffect
  <1>2. /\ m \in 1..MaxMinor /\ m \in Int /\ ops \in Tables
        /\ available[a] \in Int
    BY AmountsAssumption DEF PromiseInvariant, TypeOK, Tables
  <1>3. /\ ops'[o] = [state |-> "reserved", account |-> a, subject |-> s,
                      amount |-> m, refunded |-> 0]
        /\ \A p \in OpIds \ {o} : ops'[p] = ops[p]
    BY <1>1, <1>2 DEF Inserted, Tables
  <1>4. View(ops'[o]) = [phase |-> "held", account |-> a, cost |-> m]
    BY <1>2, <1>3 DEF View, Live
  <1>5. PurchaseTable' = [PurchaseTable EXCEPT ![s] = View(ops'[o])]
    BY <1>1, <1>3, PurchaseTableStep DEF PromiseInvariant
  <1>6. PurchaseTable[s] = NotStarted
    BY DEF Reserve, Reserved, PurchaseTable, PurchaseIn
  <1>7. a \notin Frozen /\ Frozen' = Frozen /\ m <= available[a]
    <2>1. /\ status[OwnerOf[a]] = "active" /\ status' = status
          /\ available[a] + (-m) >= 0
      BY DEF Reserve, Post, OwnerAllows, FundsAllow, AvailableDelta, Credits, accountVars
    <2> QED BY <1>2, <2>1 DEF Frozen
  <1>8. available' = [available EXCEPT ![a] = available[a] - m]
    BY <1>1, <1>2
  <1> QED BY <1>2, <1>4, <1>5, <1>6, <1>7, <1>8, PromisePurchases
          DEF Promise!Hold, Promise!NotStarted, NotStarted, Frozen, Promise!Money

\* A capture charges it.
LEMMA CaptureCharges ==
    ASSUME PromiseInvariant, PromiseInvariant', NEW o \in OpIds, Settle(o, "captured")
    PROVE  ops[o].subject \in Subjects /\ Promise!Charge(ops[o].subject)
  <1> DEFINE s == ops[o].subject
  <1>1. /\ ops[o].state \in Live /\ ops' = [ops EXCEPT ![o].state = "captured"]
        /\ available' = [available EXCEPT ![ops[o].account] =
                            available[ops[o].account] + 0]
    BY SettleEffect DEF Terminal
  <1>2. ops \in Tables /\ ops[o] \in Operation /\ Once(ops)
    BY <1>1, OperationRow DEF PromiseInvariant, TypeOK, Tables, Live, SubjectsOnce, Once
  <1>3. /\ ops'[o] = [ops[o] EXCEPT !.state = "captured"]
        /\ \A p \in OpIds \ {o} : ops'[p] = ops[p]
    BY <1>1, <1>2 DEF Tables
  <1>4. ops'[o].subject = s /\ ops'[o].state = "captured"
    BY <1>2, <1>3 DEF Operation
  <1>5. PurchaseTable' = [PurchaseTable EXCEPT ![s] = View(ops'[o])]
    BY <1>3, <1>4, PurchaseTableStep DEF PromiseInvariant
  <1>6. s \in Subjects /\ PurchaseTable[s] = View(ops[o])
    BY <1>1, <1>2, ViewOfSubject DEF PurchaseTable, Live
  <1>7. /\ View(ops[o]).phase = "held"
        /\ View(ops'[o]) = [View(ops[o]) EXCEPT !.phase = "charged"]
    BY <1>1, <1>2, <1>3 DEF View, Live, Operation
  <1>8. available' = available /\ Frozen' = Frozen
    <2>1. \A a \in Accounts : available[a] \in Int /\ available[a] + 0 = available[a]
      BY AmountsAssumption DEF PromiseInvariant, TypeOK
    <2>2. status' = status
      BY DEF Settle, Post, accountVars
    <2>3. ops[o].account \in Accounts /\ available \in [Accounts -> 0..MaxMinor]
      BY <1>2 DEF Operation, PromiseInvariant, TypeOK
    <2> QED BY <1>1, <2>1, <2>2, <2>3 DEF Frozen
  <1> HIDE DEF s
  <1>9. Promise!Charge(s)
    BY <1>5, <1>6, <1>7, <1>8, PromisePurchases DEF Promise!Charge, Frozen
  <1> QED BY <1>6, <1>9 DEF s

\* A release gives back what was held.
LEMMA ReleaseGivesBack ==
    ASSUME PromiseInvariant, PromiseInvariant', NEW o \in OpIds, Settle(o, "released")
    PROVE  ops[o].subject \in Subjects /\ Promise!GiveBack(ops[o].subject)
  <1> DEFINE s == ops[o].subject
  <1>1. /\ ops[o].state \in Live /\ ops' = [ops EXCEPT ![o].state = "released"]
        /\ available' = [available EXCEPT ![ops[o].account] =
                            available[ops[o].account] + ops[o].amount]
    BY SettleEffect DEF Terminal
  <1>2. ops \in Tables /\ ops[o] \in Operation /\ Once(ops)
    BY <1>1, OperationRow DEF PromiseInvariant, TypeOK, Tables, Live, SubjectsOnce, Once
  <1>3. /\ ops'[o] = [ops[o] EXCEPT !.state = "released"]
        /\ \A p \in OpIds \ {o} : ops'[p] = ops[p]
    BY <1>1, <1>2 DEF Tables
  <1>4. ops'[o].subject = s /\ ops'[o].state = "released"
    BY <1>2, <1>3 DEF Operation
  <1>5. PurchaseTable' = [PurchaseTable EXCEPT ![s] = View(ops'[o])]
    BY <1>3, <1>4, PurchaseTableStep DEF PromiseInvariant
  <1>6. s \in Subjects /\ PurchaseTable[s] = View(ops[o])
    BY <1>1, <1>2, ViewOfSubject DEF PurchaseTable, Live
  <1>7. View(ops'[o]) = [phase |-> "returned", account |-> ops[o].account, cost |-> 0]
    BY <1>2, <1>3 DEF View, Live, Operation
  <1>8. View(ops[o]) = [phase |-> "held", account |-> ops[o].account, cost |-> ops[o].amount]
    <2>1. ops[o].refunded = 0 /\ ops[o].amount \in 1..MaxMinor
      BY <1>1, <1>2 DEF PromiseInvariant, RefundsWithin, Operation
    <2>2. ops[o].amount - 0 = ops[o].amount
      BY <2>1, AmountsAssumption
    <2> QED BY <1>1, <2>1, <2>2 DEF View, Live
  <1>9. Frozen' = Frozen
    BY DEF Settle, Post, accountVars, Frozen
  <1> HIDE DEF s
  <1>10. Promise!GiveBack(s)
    <2>1. /\ PurchaseTable[s].phase = "held"
          /\ available' = [available EXCEPT ![PurchaseTable[s].account] =
                              @ + PurchaseTable[s].cost]
      BY <1>1, <1>6, <1>8
    <2>2. PurchaseTable' = [PurchaseTable EXCEPT ![s].phase = "returned", ![s].cost = 0]
      <3> DEFINE table == PurchaseTable
                 ended == [table EXCEPT ![s].phase = "returned"]
      <3>1. table = [p \in Subjects |-> table[p]] /\ s \in Subjects
        BY <1>6 DEF PurchaseTable
      <3>2. table[s] = [phase |-> "held", account |-> ops[o].account, cost |-> ops[o].amount]
        BY <1>6, <1>8
      <3>3. table' = [table EXCEPT ![s] =
                        [phase |-> "returned", account |-> ops[o].account, cost |-> 0]]
        BY <1>5, <1>7
      <3> HIDE DEF table
      <3>4. /\ ended[s] = [phase |-> "returned", account |-> ops[o].account,
                           cost |-> ops[o].amount]
            /\ \A p \in Subjects \ {s} : ended[p] = table[p]
            /\ ended = [p \in Subjects |-> ended[p]]
        BY <3>1, <3>2
      <3> HIDE DEF ended
      <3>5. [ended[s] EXCEPT !.cost = 0] =
              [phase |-> "returned", account |-> ops[o].account, cost |-> 0]
        BY <3>4
      <3>6. table' = [ended EXCEPT ![s] = [ended[s] EXCEPT !.cost = 0]]
        <4> DEFINE row == [ended[s] EXCEPT !.cost = 0]
        <4>1. table' = [table EXCEPT ![s] = row]
          BY <3>3, <3>5
        <4> HIDE DEF row
        <4>2. [table EXCEPT ![s] = row] = [ended EXCEPT ![s] = row]
          BY <3>1, <3>4
        <4> QED BY <4>1, <4>2 DEF row
      <3> QED BY <3>6 DEF table, ended
    <2> QED BY <1>9, <2>1, <2>2, PromisePurchases DEF Promise!GiveBack, Frozen
  <1> QED BY <1>6, <1>10 DEF s

\* A refund takes its amount off what the purchase costs.
LEMMA RefundGivesBack ==
    ASSUME PromiseInvariant, PromiseInvariant',
           NEW o \in OpIds, NEW m \in Amounts, NEW r \in Refs, PostRefund(o, m, r)
    PROVE  /\ ops[o].subject \in Subjects /\ m \in Promise!Money
           /\ Promise!Refund(ops[o].subject, m)
  <1> DEFINE s == ops[o].subject
  <1>1. /\ ops[o].state = "captured"
        /\ m <= ops[o].amount - ops[o].refunded
        /\ ops' = [ops EXCEPT ![o].refunded = ops[o].refunded + m]
        /\ available' = [available EXCEPT ![ops[o].account] =
                            available[ops[o].account] + m]
    BY RefundEffect
  <1>2. ops \in Tables /\ ops[o] \in Operation /\ Once(ops)
    BY <1>1, OperationRow DEF PromiseInvariant, TypeOK, Tables, SubjectsOnce, Once
  <1>3. /\ ops'[o] = [ops[o] EXCEPT !.refunded = ops[o].refunded + m]
        /\ \A p \in OpIds \ {o} : ops'[p] = ops[p]
    BY <1>1, <1>2 DEF Tables
  <1>4. ops'[o].subject = s /\ ops'[o].state = "captured"
    BY <1>1, <1>2, <1>3 DEF Operation
  <1>5. PurchaseTable' = [PurchaseTable EXCEPT ![s] = View(ops'[o])]
    BY <1>3, <1>4, PurchaseTableStep DEF PromiseInvariant
  <1>6. s \in Subjects /\ PurchaseTable[s] = View(ops[o])
    BY <1>1, <1>2, ViewOfSubject DEF PurchaseTable
  <1>7. View(ops[o]) = [phase |-> "charged", account |-> ops[o].account,
                        cost |-> ops[o].amount - ops[o].refunded]
    BY <1>1 DEF View, Live
  <1>8. View(ops'[o]) = [View(ops[o]) EXCEPT !.cost = @ - m]
    <2>1. View(ops'[o]) = [phase |-> "charged", account |-> ops[o].account,
                           cost |-> ops[o].amount - (ops[o].refunded + m)]
      BY <1>1, <1>2, <1>3 DEF View, Live, Operation
    <2>2. ops[o].amount - (ops[o].refunded + m) = (ops[o].amount - ops[o].refunded) - m
      BY <1>2, AmountsAssumption DEF Operation
    <2> QED BY <1>7, <2>1, <2>2
  <1>9. Frozen' = Frozen
    BY DEF PostRefund, Post, accountVars, Frozen
  <1>10. m \in Promise!Money
    BY AmountsAssumption DEF Promise!Money
  <1> HIDE DEF s
  <1>11. Promise!Refund(s, m)
    <2>1. /\ PurchaseTable[s].phase = "charged" /\ m <= PurchaseTable[s].cost
          /\ available' = [available EXCEPT ![PurchaseTable[s].account] = @ + m]
      BY <1>1, <1>6, <1>7
    <2>2. PurchaseTable' = [PurchaseTable EXCEPT ![s].cost = @ - m]
      BY <1>5, <1>6, <1>8
    <2> QED BY <1>9, <2>1, <2>2, PromisePurchases DEF Promise!Refund, Frozen
  <1> QED BY <1>6, <1>10, <1>11 DEF s

\* Every step of the ledger is a step of the promise, or none.
LEMMA StepPromise ==
    ASSUME PromiseInvariant, PromiseInvariant', [Next]_ledgerVars
    PROVE  [Promise!Next]_(Promise!promiseVars)
  <1>0. ops \in Tables /\ available \in [Accounts -> 0..MaxMinor] /\ MaxMinor \in Nat
    BY AmountsAssumption DEF PromiseInvariant, TypeOK, Tables
  <1>1. CASE AccountsNext /\ UNCHANGED balanceVars
    <2>1. available' = available /\ PurchaseTable' = PurchaseTable
      BY <1>1 DEF balanceVars, PurchaseTable, PurchaseIn
    <2>2. PICK A \in SUBSET Accounts : A = Frozen'
      BY DEF Frozen
    <2>3. Promise!Freeze(A)
      BY <2>1, <2>2, PromisePurchases DEF Promise!Freeze, Frozen
    <2> QED BY <2>3 DEF Promise!Next
  <1>2. ASSUME NEW o \in OpIds, NEW a \in Accounts, NEW s \in Subjects,
               NEW m \in Amounts, Reserve(o, a, s, m)
        PROVE  Promise!Next
    BY <1>2, ReserveHolds DEF Promise!Next
  <1>3. ASSUME NEW o \in OpIds, NEW t \in Terminal, Settle(o, t)
        PROVE  Promise!Next
    BY <1>3, CaptureCharges, ReleaseGivesBack DEF Terminal, Promise!Next
  <1>4. ASSUME NEW o \in OpIds, MarkReconciliation(o)
        PROVE  UNCHANGED Promise!promiseVars
    <2>1. /\ ops[o].state = "reserved" /\ ops' = [ops EXCEPT ![o].state = "reconciliation"]
          /\ available' = available /\ Frozen' = Frozen
      BY <1>4 DEF MarkReconciliation, accountVars, Frozen
    <2>2. ops[o] \in Operation
      BY <2>1, OperationRow DEF PromiseInvariant
    <2>3. /\ ops'[o] = [ops[o] EXCEPT !.state = "reconciliation"]
          /\ \A p \in OpIds \ {o} : ops'[p] = ops[p]
      BY <1>0, <2>1 DEF Tables
    <2>4. /\ ops'[o].state = "reconciliation" /\ ops'[o].subject = ops[o].subject
          /\ View(ops'[o]) = View(ops[o])
      BY <2>1, <2>2, <2>3 DEF View, Live, Operation
    <2>5. PurchaseTable' = [PurchaseTable EXCEPT ![ops[o].subject] = View(ops[o])]
      BY <2>3, <2>4, PurchaseTableStep DEF PromiseInvariant
    <2>6. ops[o].subject \in Subjects /\ PurchaseTable[ops[o].subject] = View(ops[o])
      BY <1>0, <2>1, ViewOfSubject DEF PurchaseTable, PromiseInvariant, SubjectsOnce, Once
    <2>7. PurchaseTable' = PurchaseTable
      BY <2>5, <2>6 DEF PurchaseTable
    <2> QED BY <2>1, <2>7, PromiseTerms
  <1>5. ASSUME NEW o \in OpIds, NEW m \in Amounts, NEW r \in Refs, PostRefund(o, m, r)
        PROVE  Promise!Next
    BY <1>5, RefundGivesBack DEF Promise!Next
  <1>6. ASSUME NEW a \in Accounts, NEW t \in Credits \cup {"manual_debit"},
               NEW m \in Amounts, NEW r \in Refs, PostRequest(a, t, m, r)
        PROVE  Promise!Next
    <2>1. /\ ops' = ops /\ status' = status
          /\ available' = [available EXCEPT ![a] = available[a] + (IF t \in Credits THEN m ELSE -m)]
      BY <1>6, RequestEffect DEF PostRequest, Post, accountVars
    <2>2. PurchaseTable' = PurchaseTable /\ Frozen' = Frozen /\ m \in Promise!Money
      BY <2>1, AmountsAssumption DEF PurchaseTable, PurchaseIn, Frozen, Promise!Money
    <2>3. CASE t \in Credits
      <3>1. Promise!Receive(a, m)
        BY <2>1, <2>2, <2>3, PromisePurchases DEF Promise!Receive, Frozen
      <3> QED BY <2>2, <3>1 DEF Promise!Next
    <2>4. CASE t = "manual_debit"
      <3>1. status[OwnerOf[a]] = "active" /\ available[a] + (-m) >= 0
        BY <1>6, <2>4 DEF PostRequest, Post, OwnerAllows, FundsAllow, AvailableDelta, Credits
      <3>2. available[a] \in Int /\ m \in Int /\ t \notin Credits
        BY <1>0, <2>2, <2>4 DEF Promise!Money, Credits
      <3>3. a \notin Frozen /\ m <= available[a]
        BY <3>1, <3>2 DEF Frozen
      <3>4. available' = [available EXCEPT ![a] = available[a] - m]
        BY <2>1, <3>2
      <3>5. Promise!Pay(a, m)
        BY <2>2, <3>3, <3>4, PromisePurchases DEF Promise!Pay, Frozen
      <3> QED BY <2>2, <3>5 DEF Promise!Next
    <2> QED BY <2>3, <2>4
  <1>7. CASE UNCHANGED ledgerVars
    <2>1. available' = available /\ Frozen' = Frozen /\ PurchaseTable' = PurchaseTable
      BY <1>7 DEF ledgerVars, accountVars, balanceVars, Frozen, PurchaseTable, PurchaseIn
    <2> QED BY <2>1, PromiseTerms
  <1> QED BY <1>1, <1>2, <1>3, <1>4, <1>5, <1>6, <1>7
          DEF Next, LedgerNext, RequestPostings

\* The ledger implements the promise of the wallet: whatever ids the callers
\* send and retry, each posting holds, charges, gives back or refunds one
\* purchase, a frozen account starts nothing, and a hold in reconciliation is
\* a hold.
THEOREM PromiseIsKept == Spec => KeepsPromise
  <1>1. Init => PromiseInvariant
    <2>1. Init => SubjectsOnce /\ RefundsWithin
      BY DEF Init, BalancesInit, SubjectsOnce, RefundsWithin, Unused
    <2> QED BY <2>1, InitTypeOK DEF PromiseInvariant
  <1>2. PromiseInvariant /\ [Next]_ledgerVars => PromiseInvariant'
    BY TypeOKStep, SubjectsOnceStep, RefundsWithinStep DEF PromiseInvariant
  <1>3. Init => Promise!Init
    BY InitPromise
  <1>4. PromiseInvariant /\ PromiseInvariant' /\ [Next]_ledgerVars
          => [Promise!Next]_(Promise!promiseVars)
    BY StepPromise
  <1> QED BY <1>1, <1>2, <1>3, <1>4, PTL DEF Spec, KeepsPromise, Promise!Spec

=============================================================================
