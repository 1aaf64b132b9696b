----------------------------- MODULE OutboxProofs -----------------------------
(***************************************************************************)
(* Theorems about the outboxes: the effects of identity changes at the      *)
(* provider (IdentityEffects), and the mail, wallet notifications and       *)
(* notices people are sent (Deliveries), for any number of rows, workers,   *)
(* tries and people.                                                        *)
(***************************************************************************)
EXTENDS IdentityEffects, Deliveries, SumTheorems, SequenceTheorems, TLAPS

-----------------------------------------------------------------------------
(***************************************************************************)
(* IdentityEffects: the effects of a user are worked on in order, and what  *)
(* is confirmed happened and is not undone.                                 *)
(***************************************************************************)

OperationStates == {"pending_effects", "needs_reconciliation", "completed"}

EffectRow ==
    [user: Users, kind: Kinds, version: Nat, active: BOOLEAN, operation: Nat,
     state: States, fence: Nat, attempts: 0..MaxAttempts]

ClaimRow ==
    [at: {"idle", "calling", "sent", "revoked", "finishing"}, effect: Nat, fence: Nat,
     task: {"none", "dispatch", "reconcile"},
     result: {"none", "confirmed", "unknown", "not_sent"}]

\* What a claim says once it was made: a reconciliation only reads, and only
\* a mirror is sent.
ClaimRight(c, table) ==
    /\ c.at = "idle" => c = Idle
    /\ c.at # "idle" => c.effect \in DOMAIN table /\ c.task # "none"
    /\ c.task = "reconcile" =>
          c.at \in {"calling", "finishing"} /\ c.result # "not_sent"
    /\ c.at = "sent" => table[c.effect].kind \in Mirrors

RowRight(x, table) ==
    /\ x.operation \in DOMAIN table
    /\ x.state = "retryable" => x.attempts < MaxAttempts
    /\ x.fence >= x.attempts

OutboxTypes ==
    /\ operations \in Seq(OperationStates)
    /\ effects \in Seq(EffectRow) /\ Len(effects) <= MaxEffects
    /\ \A e \in DOMAIN effects : RowRight(effects[e], operations)
    /\ lapsed \subseteq DOMAIN effects

Types ==
    /\ active \in [Users -> BOOLEAN] /\ version \in [Users -> Nat \ {0}]
    /\ OutboxTypes
    /\ claims \in [Workers -> ClaimRow]
    /\ \A w \in Workers : ClaimRight(claims[w], effects)
    /\ \A r \in inFlight : r[1] \in DOMAIN effects
    /\ shown \in [Users -> [Mirrors -> Nat]]
    /\ sessions \in [Users -> SUBSET Nat]

\* What the provider shows is of an effect of that user and kind.
ShownRight ==
    \A u \in Users, k \in Mirrors :
        shown[u][k] # 0 =>
            /\ shown[u][k] \in DOMAIN effects
            /\ effects[shown[u][k]].user = u /\ effects[shown[u][k]].kind = k

InOrder(e) ==
    effects[e].state # "pending" =>
        \A p \in 1..(e - 1) :
            effects[p].user = effects[e].user => effects[p].state \in Final

On(w, e) == claims[w].at # "idle" /\ claims[w].effect = e
Delivers(w, e) == On(w, e) /\ claims[w].task = "dispatch"
MaySend(e) == \E w \in Workers : Delivers(w, e) /\ claims[w].at = "calling"
Requested(e) == \E r \in inFlight : r[1] = e
Applied(e) == \E u \in Users, k \in Mirrors : shown[u][k] = e

\* What the provider will show or has done for ever: a later effect may have
\* replaced the mirror, but no request of this one can come any more.
Happened(e) ==
    IF effects[e].kind = "revoke_sessions"
    THEN \A s \in sessions[effects[e].user] : s >= e
    ELSE /\ shown[effects[e].user][effects[e].kind] >= e
         /\ ~Requested(e) /\ ~MaySend(e)

Waiting == {"pending", "retryable", "superseded"}

\* An effect that waits is nobody's and left no trace at the provider.
NotBegun(e) ==
    effects[e].state \in Waiting =>
        /\ \A w \in Workers : ~On(w, e)
        /\ ~Requested(e) /\ ~Applied(e)

\* It has one delivery at a time, and sends at most one request.
OneDelivery(e) ==
    /\ effects[e].state = "dispatching" => \A w \in Workers : On(w, e) => Delivers(w, e)
    /\ \A w, v \in Workers : Delivers(w, e) /\ Delivers(v, e) => w = v
    /\ \A w \in Workers :
          Delivers(w, e) /\ (claims[w].at = "calling" \/ claims[w].result = "not_sent") =>
              ~Requested(e) /\ ~Applied(e)
    /\ \A r, q \in inFlight : r[1] = e /\ q[1] = e => r = q
    /\ Requested(e) => /\ ~Applied(e) /\ effects[e].kind \in Mirrors
                       /\ effects[e].state \notin Final

\* What is confirmed, or about to be, happened.
Confirmed(e) ==
    /\ effects[e].state = "confirmed" => Happened(e)
    /\ \A w \in Workers : On(w, e) /\ claims[w].result = "confirmed" => Happened(e)

EffectsInvariant ==
    /\ Types /\ ShownRight
    /\ \A e \in DOMAIN effects :
          InOrder(e) /\ NotBegun(e) /\ OneDelivery(e) /\ Confirmed(e)

-----------------------------------------------------------------------------
(* Sequences and sets *)

LEMMA SetToSeqElements ==
    ASSUME NEW S, IsFiniteSet(S)
    PROVE  SetToSeq(S) \in Seq(S)
  <1>1. /\ Cardinality(S) \in Nat
        /\ ExistsBijection(1..Cardinality(S), S)
    BY FS_CardinalityType
  <1>2. \E f \in [1..Cardinality(S) -> S] : IsInjective(f)
    BY <1>1 DEF ExistsBijection, Bijection, Injection
  <1>3. SetToSeq(S) \in [1..Cardinality(S) -> S]
    BY <1>2 DEF SetToSeq
  <1> QED BY <1>1, <1>3

\* Every set of effects has a first one in the order of the queue.
LEMMA FirstOf ==
    ASSUME NEW S, S \subseteq Nat, S # {}
    PROVE  \E e \in S : \A f \in S : e <= f
  <1> DEFINE R == OpToRel(<, Nat)
  <1>1. IsWellFoundedOn(R, Nat)
    BY NatLessThanWellFounded
  <1>2. \A x, y \in Nat : x < y => <<x, y>> \in R
    BY DEF OpToRel
  <1> HIDE DEF R
  <1>3. PICK e \in S : \A f \in S : ~ (<<f, e>> \in R)
    BY <1>1, WFMin
  <1>4. ASSUME NEW f \in S
        PROVE  e <= f
    <2>1. e \in Nat /\ f \in Nat
      OBVIOUS
    <2>2. ~(f < e)
      BY <1>2, <1>3, <2>1
    <2> QED BY <2>1, <2>2
  <1> QED BY <1>4

LEMMA EffectsDomain ==
    ASSUME OutboxTypes
    PROVE  /\ Len(effects) \in Nat /\ DOMAIN effects = 1..Len(effects)
           /\ Len(operations) \in Nat /\ DOMAIN operations = 1..Len(operations)
           /\ \A e \in DOMAIN effects : effects[e] \in EffectRow
  <1>1. effects \in Seq(EffectRow) /\ operations \in Seq(OperationStates)
    BY DEF OutboxTypes
  <1>2. /\ Len(effects) \in Nat /\ DOMAIN effects = 1..Len(effects)
        /\ Len(operations) \in Nat /\ DOMAIN operations = 1..Len(operations)
    BY <1>1, LenProperties
  <1> QED BY <1>1, <1>2, ElementOfSeq

LEMMA TableSeq ==
    ASSUME NEW S, NEW n \in Nat, NEW f \in [1..n -> S]
    PROVE  f \in Seq(S) /\ Len(f) = n /\ DOMAIN f = 1..n
  OBVIOUS

-----------------------------------------------------------------------------
(* New effects *)

SameEffect(x, y) ==
    /\ x.user = y.user /\ x.kind = y.kind /\ x.version = y.version
    /\ x.active = y.active /\ x.operation = y.operation

\* The queue grows, and what was in it stays as it is.
QueueStep ==
    /\ OutboxTypes'
    /\ Len(effects') >= Len(effects)
    /\ \A e \in DOMAIN effects : e \in DOMAIN effects' /\ effects'[e] = effects[e]
    /\ \A e \in DOMAIN effects' \ DOMAIN effects :
          effects'[e].state = "pending"
    /\ UNCHANGED <<claims, providerVars>>

NewRow ==
    {x \in EffectRow : /\ x.state = "pending" /\ x.fence = 0 /\ x.attempts = 0
                       /\ x.operation = Len(operations) + 1}

LEMMA QueueEffects ==
    ASSUME Types, NEW new \in Seq(NewRow), Queue(new)
    PROVE  QueueStep
  <1>1. /\ Len(effects) \in Nat /\ DOMAIN effects = 1..Len(effects)
        /\ Len(operations) \in Nat /\ DOMAIN operations = 1..Len(operations)
        /\ effects \in Seq(EffectRow) /\ operations \in Seq(OperationStates)
        /\ \A e \in DOMAIN effects : RowRight(effects[e], operations)
        /\ lapsed \subseteq DOMAIN effects
    BY EffectsDomain DEF Types, OutboxTypes
  <1>2. new \in Seq(EffectRow)
    BY SeqMonotonic DEF NewRow
  <1>3. Len(new) \in Nat /\ \A i \in 1..Len(new) : new[i] \in NewRow
    BY LenProperties, ElementOfSeq
  <1>4. /\ Len(effects) + Len(new) <= MaxEffects
        /\ effects' = effects \o new
        /\ operations' = Append(operations, "pending_effects")
        /\ UNCHANGED <<lapsed, claims, providerVars>>
    BY DEF Queue
  <1>5. /\ effects' \in Seq(EffectRow) /\ Len(effects') = Len(effects) + Len(new)
        /\ \A i \in 1..(Len(effects) + Len(new)) :
              effects'[i] = IF i <= Len(effects) THEN effects[i] ELSE new[i - Len(effects)]
    BY <1>1, <1>2, <1>4, ConcatProperties
  <1>6. DOMAIN effects' = 1..(Len(effects) + Len(new))
    BY <1>5, LenProperties
  <1>7. /\ operations' \in Seq(OperationStates)
        /\ DOMAIN operations' = 1..(Len(operations) + 1)
    <2>1. operations' \in Seq(OperationStates) /\ Len(operations') = Len(operations) + 1
      BY <1>1, <1>4, AppendProperties DEF OperationStates
    <2> QED BY <2>1, LenProperties
  <1>8. \A e \in DOMAIN effects : e \in DOMAIN effects' /\ effects'[e] = effects[e]
    BY <1>1, <1>3, <1>5, <1>6
  <1>9. \A e \in DOMAIN effects' \ DOMAIN effects : effects'[e] \in NewRow
    BY <1>1, <1>3, <1>5, <1>6
  <1>10. \A e \in DOMAIN effects' : RowRight(effects'[e], operations')
    <2>1. ASSUME NEW e \in DOMAIN effects
          PROVE  RowRight(effects'[e], operations')
      <3>1. RowRight(effects[e], operations) /\ effects'[e] = effects[e]
        BY <1>1, <1>8
      <3> QED BY <1>1, <1>7, <3>1 DEF RowRight
    <2>2. ASSUME NEW e \in DOMAIN effects' \ DOMAIN effects
          PROVE  RowRight(effects'[e], operations')
      <3>1. effects'[e] \in NewRow
        BY <1>9
      <3> QED BY <1>1, <1>7, <3>1 DEF RowRight, NewRow
    <2> QED BY <2>1, <2>2
  <1>11. lapsed' \subseteq DOMAIN effects'
    BY <1>1, <1>4, <1>8
  <1>12. OutboxTypes'
    BY <1>4, <1>5, <1>7, <1>10, <1>11 DEF OutboxTypes
  <1> QED BY <1>1, <1>3, <1>4, <1>5, <1>8, <1>9, <1>12 DEF QueueStep, NewRow

LEMMA NewEffect ==
    ASSUME Types, NEW u \in Users, NEW kind \in Kinds, NEW v \in Nat, NEW a \in BOOLEAN
    PROVE  Effect(u, kind, v, a) \in NewRow
  <1>1. Len(operations) \in Nat
    BY EffectsDomain DEF Types
  <1> QED BY <1>1, BoundsAssumption DEF Effect, NewRow, EffectRow, States

-----------------------------------------------------------------------------
(* Claims *)

\* The effects are the same ones, whatever happened to them.
SameQueue ==
    /\ OutboxTypes'
    /\ DOMAIN effects' = DOMAIN effects
    /\ \A e \in DOMAIN effects : SameEffect(effects'[e], effects[e])

BeforeDone(e) ==
    \A p \in 1..(e - 1) :
        effects[p].user = effects[e].user => effects[p].state \in Final

\* What a claim does to the effects it passes over.
Sweeps(e) ==
    \/ effects'[e].state = effects[e].state
    \/ effects[e].state \in Claimed /\ effects'[e].state = "needs_reconciliation"
    \/ /\ effects[e].state \in {"pending", "retryable"}
       /\ effects'[e].state = "superseded"
       /\ BeforeDone(e)'

\* What it does to the one it takes.
Takes(w, e, task) ==
    /\ claims[w] = Idle
    /\ claims' = [claims EXCEPT ![w] =
          [at |-> "calling", effect |-> e, fence |-> effects[e].fence + 1,
           task |-> task, result |-> "none"]]
    /\ \/ /\ task = "dispatch" /\ effects[e].state \in {"pending", "retryable"}
          /\ effects'[e].state = "dispatching"
          /\ BeforeDone(e)'
       \/ /\ task = "reconcile"
          /\ effects[e].state \in Claimed \cup {"needs_reconciliation"}
          /\ effects'[e].state = "reconciling"

SweepStep ==
    /\ SameQueue
    /\ \A e \in DOMAIN effects : Sweeps(e)
    /\ UNCHANGED <<userVars, claims, providerVars>>

TakeStep(w, f, task) ==
    /\ SameQueue
    /\ \A e \in DOMAIN effects \ {f} : Sweeps(e)
    /\ Takes(w, f, task)
    /\ UNCHANGED <<userVars, providerVars>>

LEMMA RefreshedStates ==
    ASSUME NEW table, NEW changed, operations \in Seq(OperationStates)
    PROVE  /\ Refreshed(table, changed) \in Seq(OperationStates)
           /\ DOMAIN Refreshed(table, changed) = DOMAIN operations
  <1>1. Len(operations) \in Nat /\ DOMAIN operations = 1..Len(operations)
    BY LenProperties
  <1>2. ASSUME NEW n \in DOMAIN operations
        PROVE  /\ OperationState(table, n) \in OperationStates
               /\ operations[n] \in OperationStates
    <2>1. operations[n] \in OperationStates
      BY ElementOfSeq, <1>1
    <2>2. OperationState(table, n) \in OperationStates
      BY DEF OperationState, OperationStates
    <2> QED BY <2>1, <2>2
  <1>3. Refreshed(table, changed) \in [1..Len(operations) -> OperationStates]
    BY <1>1, <1>2 DEF Refreshed
  <1> QED BY <1>1, <1>3, TableSeq

\* Rows that are moved keep all but their state.
LEMMA MovedRows ==
    ASSUME NEW n \in Nat, NEW table \in [1..n -> EffectRow], NEW moved,
           NEW state \in States
    PROVE  /\ Moved(table, moved, state) \in [1..n -> EffectRow]
           /\ \A e \in 1..n :
                 /\ SameEffect(Moved(table, moved, state)[e], table[e])
                 /\ Moved(table, moved, state)[e].fence = table[e].fence
                 /\ Moved(table, moved, state)[e].attempts = table[e].attempts
                 /\ e \in moved => Moved(table, moved, state)[e].state = state
                 /\ e \notin moved => Moved(table, moved, state)[e] = table[e]
  <1>1. \A e \in 1..n : [table[e] EXCEPT !.state = state] \in EffectRow
    BY DEF EffectRow
  <1>2. DOMAIN table = 1..n
    OBVIOUS
  <1>3. Moved(table, moved, state) \in [1..n -> EffectRow]
    BY <1>1, <1>2 DEF Moved
  <1>4. \A e \in 1..n : Moved(table, moved, state)[e] =
                           IF e \in moved THEN [table[e] EXCEPT !.state = state]
                           ELSE table[e]
    BY <1>2 DEF Moved
  <1>5. \A e \in 1..n : table[e] \in EffectRow
    OBVIOUS
  <1> QED BY <1>3, <1>4, <1>5, SMTT(60) DEF EffectRow, SameEffect

\* A row that is taken has one more fence, and one more attempt when it is
\* to be delivered.
LEMMA TakenRows ==
    ASSUME NEW n \in Nat, NEW table \in [1..n -> EffectRow], NEW f \in 1..n,
           NEW state \in Claimed,
           state = "dispatching" => table[f].attempts < MaxAttempts
    PROVE  /\ Taken(table, f, state) \in [1..n -> EffectRow]
           /\ SameEffect(Taken(table, f, state)[f], table[f])
           /\ Taken(table, f, state)[f].state = state
           /\ Taken(table, f, state)[f].fence = table[f].fence + 1
           /\ Taken(table, f, state)[f].attempts <= table[f].attempts + 1
           /\ \A e \in (1..n) \ {f} : Taken(table, f, state)[e] = table[e]
  <1> DEFINE row == [[[table[f] EXCEPT !.state = state] EXCEPT !.fence = @ + 1]
                        EXCEPT !.attempts = IF state = "dispatching" THEN @ + 1 ELSE @]
  <1>1. table[f] \in EffectRow
    OBVIOUS
  <1>2. Taken(table, f, state) = [table EXCEPT ![f] = row]
    BY ZenonT(90) DEF Taken
  <1>3. /\ row \in EffectRow /\ SameEffect(row, table[f])
        /\ row.state = state /\ row.fence = table[f].fence + 1
        /\ row.attempts <= table[f].attempts + 1
    <2>1. CASE state = "dispatching"
      <3>1. row = [table[f] EXCEPT !.state = state, !.fence = table[f].fence + 1,
                                   !.attempts = table[f].attempts + 1]
        BY <1>1, <2>1 DEF EffectRow
      <3>2. table[f].attempts + 1 \in 0..MaxAttempts /\ table[f].fence + 1 \in Nat
        BY <1>1, <2>1, BoundsAssumption, SMTT(60) DEF EffectRow
      <3>3. state \in States
        BY DEF States
      <3> HIDE DEF row
      <3>4. PICK x : x = table[f]
        OBVIOUS
      <3>5. row = [x EXCEPT !.state = state, !.fence = x.fence + 1,
                            !.attempts = x.attempts + 1]
        BY <3>1, <3>4
      <3>6. row \in EffectRow
        BY <1>1, <3>2, <3>3, <3>4, <3>5 DEF EffectRow
      <3>7. /\ row.state = state /\ row.fence = x.fence + 1
            /\ row.attempts = x.attempts + 1
            /\ SameEffect(row, x)
        BY <1>1, <3>4, <3>5 DEF EffectRow, SameEffect
      <3> QED BY <3>2, <3>4, <3>6, <3>7
    <2>2. CASE state # "dispatching"
      <3>1. row = [table[f] EXCEPT !.state = state, !.fence = table[f].fence + 1]
        BY <1>1, <2>2 DEF EffectRow
      <3>2. table[f].fence + 1 \in Nat /\ table[f].attempts \in Nat
        BY <1>1, BoundsAssumption, SMTT(60) DEF EffectRow
      <3>3. state \in States
        BY DEF States
      <3> HIDE DEF row
      <3>4. PICK x : x = table[f]
        OBVIOUS
      <3>5. row = [x EXCEPT !.state = state, !.fence = x.fence + 1]
        BY <3>1, <3>4
      <3>6. row \in EffectRow
        BY <1>1, <3>2, <3>3, <3>4, <3>5 DEF EffectRow
      <3>7. /\ row.state = state /\ row.fence = x.fence + 1
            /\ row.attempts = x.attempts
            /\ SameEffect(row, x)
        BY <1>1, <3>4, <3>5 DEF EffectRow, SameEffect
      <3> QED BY <3>2, <3>4, <3>6, <3>7
    <2> QED BY <2>1, <2>2
  <1> HIDE DEF row
  <1> QED BY <1>2, <1>3

LEMMA QueueKept ==
    ASSUME OutboxTypes, NEW table, NEW changed,
           effects' \in [1..Len(effects) -> EffectRow],
           \A e \in DOMAIN effects : /\ SameEffect(effects'[e], effects[e])
                                     /\ RowRight(effects'[e], operations),
           operations' = Refreshed(table, changed),
           lapsed' \subseteq lapsed
    PROVE  SameQueue
  <1>1. Len(effects) \in Nat /\ DOMAIN effects = 1..Len(effects)
    BY EffectsDomain
  <1>2. /\ effects' \in Seq(EffectRow) /\ Len(effects') = Len(effects)
        /\ DOMAIN effects' = 1..Len(effects)
    BY <1>1, TableSeq
  <1>3. operations' \in Seq(OperationStates) /\ DOMAIN operations' = DOMAIN operations
    BY RefreshedStates DEF OutboxTypes
  <1>4. \A e \in DOMAIN effects' : RowRight(effects'[e], operations')
    BY <1>1, <1>2, <1>3 DEF RowRight
  <1>5. Len(effects') <= MaxEffects /\ lapsed' \subseteq DOMAIN effects'
    BY <1>1, <1>2 DEF OutboxTypes
  <1>6. OutboxTypes'
    BY <1>2, <1>3, <1>4, <1>5 DEF OutboxTypes
  <1> QED BY <1>1, <1>2, <1>6 DEF SameQueue

LEMMA RecoveredRows ==
    ASSUME OutboxTypes
    PROVE  /\ Recovered(effects) \in [1..Len(effects) -> EffectRow]
           /\ \A e \in DOMAIN effects :
                 /\ SameEffect(Recovered(effects)[e], effects[e])
                 /\ Recovered(effects)[e].fence = effects[e].fence
                 /\ Recovered(effects)[e].attempts = effects[e].attempts
                 /\ RowRight(Recovered(effects)[e], operations)
                 /\ \/ Recovered(effects)[e] = effects[e]
                    \/ /\ effects[e].state \in Claimed
                       /\ Recovered(effects)[e].state = "needs_reconciliation"
  <1>1. /\ Len(effects) \in Nat /\ DOMAIN effects = 1..Len(effects)
        /\ \A e \in DOMAIN effects : RowRight(effects[e], operations)
        /\ effects \in Seq(EffectRow)
    BY EffectsDomain DEF OutboxTypes
  <1>2. effects \in [1..Len(effects) -> EffectRow]
    BY <1>1
  <1>3. "needs_reconciliation" \in States
    BY DEF States
  <1> DEFINE table == Recovered(effects)
  <1>4. /\ table \in [1..Len(effects) -> EffectRow]
        /\ \A e \in 1..Len(effects) :
              /\ SameEffect(table[e], effects[e])
              /\ table[e].fence = effects[e].fence
              /\ table[e].attempts = effects[e].attempts
              /\ e \in Expired => table[e].state = "needs_reconciliation"
              /\ e \notin Expired => table[e] = effects[e]
    BY <1>1, <1>2, <1>3, MovedRows DEF Recovered
  <1> HIDE DEF table
  <1>5. \A e \in Expired : effects[e].state \in Claimed
    BY DEF Expired
  <1>6. \A e \in DOMAIN effects : RowRight(table[e], operations)
    BY <1>1, <1>4 DEF RowRight, SameEffect
  <1>7. QED BY <1>1, <1>4, <1>5, <1>6 DEF table

LEMMA QueryStep ==
    ASSUME Types, Query
    PROVE  SweepStep
  <1>1. OutboxTypes
    BY DEF Types
  <1>2. /\ effects' = Recovered(effects)
        /\ operations' = Refreshed(Recovered(effects), Expired)
        /\ lapsed' \subseteq lapsed
        /\ UNCHANGED <<userVars, claims, providerVars>>
    BY DEF Query
  <1>3. SameQueue
    BY <1>1, <1>2, RecoveredRows, QueueKept
  <1>4. \A e \in DOMAIN effects : Sweeps(e)
    BY <1>1, <1>2, RecoveredRows DEF Sweeps
  <1> QED BY <1>2, <1>3, <1>4 DEF SweepStep

LEMMA ReconcileStep ==
    ASSUME Types, NEW w \in Workers, NEW f \in DOMAIN effects, Reconcile(w, f)
    PROVE  TakeStep(w, f, "reconcile")
  <1> DEFINE table == Recovered(effects)
             n == Len(effects)
  <1>1. OutboxTypes
    BY DEF Types
  <1>2. n \in Nat /\ DOMAIN effects = 1..n /\ f \in 1..n
    BY <1>1, EffectsDomain
  <1>3. /\ claims[w] = Idle
        /\ table[f].state = "needs_reconciliation"
        /\ operations' = Refreshed(table, Expired)
        /\ effects' = Taken(table, f, "reconciling")
        /\ lapsed' \subseteq lapsed
        /\ TakenBy(w, table, f, "reconcile")
        /\ UNCHANGED <<userVars, providerVars>>
    BY DEF Reconcile
  <1>4. /\ table \in [1..n -> EffectRow]
        /\ \A e \in DOMAIN effects :
              /\ SameEffect(table[e], effects[e])
              /\ table[e].fence = effects[e].fence
              /\ table[e].attempts = effects[e].attempts
              /\ RowRight(table[e], operations)
              /\ \/ table[e] = effects[e]
                 \/ effects[e].state \in Claimed /\ table[e].state = "needs_reconciliation"
    BY <1>1, RecoveredRows
  <1> HIDE DEF table, n
  <1>5. "reconciling" \in Claimed /\ "reconciling" # "dispatching"
    BY DEF Claimed
  <1>6. /\ effects' \in [1..n -> EffectRow]
        /\ SameEffect(effects'[f], table[f])
        /\ effects'[f].state = "reconciling"
        /\ effects'[f].fence = table[f].fence + 1
        /\ effects'[f].attempts <= table[f].attempts + 1
        /\ \A e \in (1..n) \ {f} : effects'[e] = table[e]
    BY <1>2, <1>3, <1>4, <1>5, TakenRows
  <1>7. \A e \in DOMAIN effects : /\ SameEffect(effects'[e], effects[e])
                                  /\ RowRight(effects'[e], operations)
    <2>1. ASSUME NEW e \in (1..n) \ {f}
          PROVE  SameEffect(effects'[e], effects[e]) /\ RowRight(effects'[e], operations)
      BY <1>2, <1>4, <1>6
    <2>2. SameEffect(effects'[f], effects[f])
      BY <1>2, <1>4, <1>6 DEF SameEffect
    <2>3. table[f] \in EffectRow /\ effects'[f] \in EffectRow
      BY <1>2, <1>4, <1>6
    <2>4. RowRight(effects'[f], operations)
      BY <1>2, <1>4, <1>6, <2>3, BoundsAssumption DEF RowRight, SameEffect, EffectRow
    <2> QED BY <1>2, <2>1, <2>2, <2>4
  <1>8. SameQueue
    BY <1>1, <1>3, <1>6, <1>7, QueueKept DEF n
  <1>9. \A e \in DOMAIN effects \ {f} : Sweeps(e)
    BY <1>2, <1>4, <1>6 DEF Sweeps
  <1>10. Takes(w, f, "reconcile")
    BY <1>2, <1>3, <1>4, <1>6 DEF Takes, TakenBy
  <1> QED BY <1>3, <1>8, <1>9, <1>10 DEF TakeStep

\* A claim passes over effects that are obsolete, in order, and takes the
\* first that is not.
LEMMA ClaimStep ==
    ASSUME Types, NEW w \in Workers, Claim(w)
    PROVE  \/ SweepStep
           \/ \E f \in DOMAIN effects : TakeStep(w, f, "dispatch")
  <1> DEFINE table == Recovered(effects)
             n == Len(effects)
  <1>1. OutboxTypes
    BY DEF Types
  <1>2. n \in Nat /\ DOMAIN effects = 1..n
    BY <1>1, EffectsDomain
  <1>3. PICK due \in SUBSET {e \in DOMAIN effects : effects[e].state = "retryable"} :
          LET open == {e \in DOMAIN table : Ready(table, e, due)
                                             /\ Unblocked(table, e, due)}
              live == {e \in open : ~Obsolete(table, e, due)}
              first == CHOOSE e \in live : \A f \in live : e <= f
              dropped == {e \in open \ live : live # {} => e < first}
              left == Moved(table, dropped, "superseded")
          IN  /\ operations' = Refreshed(left, Expired \cup dropped)
              /\ IF live = {}
                 THEN /\ effects' = left
                      /\ lapsed' = lapsed \ Expired
                      /\ UNCHANGED claims
                 ELSE /\ effects' = Taken(left, first, "dispatching")
                      /\ lapsed' = lapsed \ (Expired \cup {first})
                      /\ TakenBy(w, left, first, "dispatch")
    BY DEF Claim
  <1> DEFINE open == {e \in DOMAIN table : Ready(table, e, due)
                                             /\ Unblocked(table, e, due)}
             live == {e \in open : ~Obsolete(table, e, due)}
             first == CHOOSE e \in live : \A f \in live : e <= f
             dropped == {e \in open \ live : live # {} => e < first}
             left == Moved(table, dropped, "superseded")
  <1>4. /\ operations' = Refreshed(left, Expired \cup dropped)
        /\ lapsed' \subseteq lapsed
        /\ live = {} => effects' = left /\ UNCHANGED claims
        /\ live # {} => /\ effects' = Taken(left, first, "dispatching")
                        /\ TakenBy(w, left, first, "dispatch")
    BY <1>3
  <1>5. claims[w] = Idle /\ UNCHANGED <<userVars, providerVars>>
    BY DEF Claim
  <1>6. /\ table \in [1..n -> EffectRow]
        /\ \A e \in DOMAIN effects :
              /\ SameEffect(table[e], effects[e])
              /\ table[e].fence = effects[e].fence
              /\ table[e].attempts = effects[e].attempts
              /\ RowRight(table[e], operations)
              /\ \/ table[e] = effects[e]
                 \/ effects[e].state \in Claimed /\ table[e].state = "needs_reconciliation"
    BY <1>1, RecoveredRows
  <1> HIDE DEF table, n
  <1>7. DOMAIN table = 1..n
    BY <1>6
  <1>8. \A e \in 1..n : Ready(table, e, due) =>
            /\ table[e].state \in {"pending", "retryable"}
            /\ table[e] = effects[e]
            /\ table[e].attempts < MaxAttempts
    BY <1>2, <1>6 DEF Ready
  <1>9. \A e \in 1..n : Obsolete(table, e, due) => Ready(table, e, due)
    BY DEF Obsolete
  \* What comes before an open effect is resolved, or dropped with it.
  <1>10. live # {} => first \in live /\ \A f \in live : first <= f
    <2> SUFFICES ASSUME live # {} PROVE first \in live /\ \A f \in live : first <= f
      OBVIOUS
    <2>1. live \subseteq Nat
      BY <1>2, <1>7
    <2> DEFINE L == live
    <2>2. L \subseteq Nat /\ L # {} /\ first = CHOOSE e \in L : \A f \in L : e <= f
      BY <2>1
    <2> HIDE DEF L
    <2>3. \E e \in L : \A f \in L : e <= f
      BY <2>2, FirstOf
    <2>4. first \in L /\ \A f \in L : first <= f
      BY <2>2, <2>3
    <2> QED BY <2>4 DEF L
  <1>11. ASSUME NEW e \in open, live # {} => e <= first, NEW p \in 1..(e - 1),
                effects[p].user = effects[e].user
         PROVE  p \in 1..n /\ (table[p].state \in Final \/ p \in dropped)
    <2>1. e \in 1..n /\ Unblocked(table, e, due)
      BY <1>7
    <2>2. p \in 1..n /\ p < e
      BY <1>2, <2>1
    <2>3. table[p].user = table[e].user
      BY <1>2, <1>6, <1>11, <2>1, <2>2 DEF SameEffect
    <2>4. table[p].state \in Final \/ Obsolete(table, p, due)
      BY <2>1, <2>3 DEF Unblocked
    <2>5. ASSUME Obsolete(table, p, due)
          PROVE  p \in dropped
      <3>1. Ready(table, p, due)
        BY <1>9, <2>2, <2>5
      <3>2. ASSUME NEW q \in 1..(p - 1), table[q].user = table[p].user
            PROVE  table[q].state \in Final \/ Obsolete(table, q, due)
        <4>1. q \in 1..(e - 1) /\ table[q].user = table[e].user
          BY <1>2, <2>1, <2>2, <2>3, <3>2
        <4> QED BY <2>1, <4>1 DEF Unblocked
      <3>3. p \in open \ live
        BY <1>7, <2>2, <2>5, <3>1, <3>2 DEF Unblocked
      <3>4. live # {} => p < first
        BY <1>2, <1>7, <1>10, <1>11, <2>1, <2>2
      <3> QED BY <3>3, <3>4
    <2> QED BY <2>2, <2>4, <2>5
  <1>12. "superseded" \in States /\ "superseded" \in Final
    BY DEF States, Final
  <1>13. \A e \in dropped : e \in open /\ e \notin live /\ Ready(table, e, due)
                            /\ e \in 1..n /\ (live # {} => e < first)
    BY <1>7
  <1>14. \A e \in live : e \in open /\ Ready(table, e, due) /\ e \in 1..n
    BY <1>7
  <1> HIDE DEF open, live, first, dropped
  <1>15. /\ left \in [1..n -> EffectRow]
         /\ \A e \in 1..n :
               /\ SameEffect(left[e], table[e])
               /\ left[e].fence = table[e].fence
               /\ left[e].attempts = table[e].attempts
               /\ e \in dropped => left[e].state = "superseded"
               /\ e \notin dropped => left[e] = table[e]
    BY <1>2, <1>6, <1>12, MovedRows
  <1> HIDE DEF left
  <1>16. ASSUME NEW e \in 1..n
         PROVE  /\ SameEffect(left[e], effects[e])
                /\ RowRight(left[e], operations)
    <2>1. SameEffect(left[e], effects[e])
      BY <1>2, <1>6, <1>15 DEF SameEffect
    <2>2. CASE e \in dropped
      BY <1>2, <1>6, <1>15, <2>2 DEF RowRight, SameEffect
    <2>3. CASE e \notin dropped
      BY <1>2, <1>6, <1>15, <2>3
    <2> QED BY <2>1, <2>2, <2>3
  <1>17. ASSUME NEW e \in open, live # {} => e <= first,
                \A p \in 1..n : p \in dropped \/ table[p].state \in Final =>
                                    effects'[p].state \in Final,
                \A p \in 1..n : SameEffect(effects'[p], effects[p]),
                e \in 1..n
         PROVE  BeforeDone(e)'
    <2> SUFFICES ASSUME NEW p \in 1..(e - 1), effects'[p].user = effects'[e].user
                 PROVE  effects'[p].state \in Final
      BY DEF BeforeDone
    <2>1. p \in 1..n
      BY <1>2, <1>17
    <2>2. effects[p].user = effects[e].user
      BY <1>17, <2>1 DEF SameEffect
    <2> QED BY <1>11, <1>17, <2>1, <2>2
  <1>18. CASE live = {}
    <2>1. effects' = left /\ UNCHANGED claims
      BY <1>4, <1>18
    <2>2. SameQueue
      BY <1>1, <1>2, <1>4, <1>15, <1>16, <2>1, QueueKept DEF n
    <2>3. ASSUME NEW e \in DOMAIN effects
          PROVE  Sweeps(e)
      <3>1. CASE e \in dropped
        <4>1. \A p \in 1..n : p \in dropped \/ table[p].state \in Final =>
                                  effects'[p].state \in Final
          BY <1>12, <1>15, <2>1
        <4>2. BeforeDone(e)'
          BY <1>2, <1>13, <1>16, <1>17, <1>18, <2>1, <3>1, <4>1
        <4>3. effects[e].state \in {"pending", "retryable"}
          BY <1>2, <1>8, <1>13, <3>1
        <4> QED BY <1>2, <1>15, <2>1, <3>1, <4>2, <4>3 DEF Sweeps
      <3>2. CASE e \notin dropped
        BY <1>2, <1>6, <1>15, <2>1, <3>2 DEF Sweeps
      <3> QED BY <3>1, <3>2
    <2> QED BY <1>5, <2>1, <2>2, <2>3 DEF SweepStep
  <1>19. CASE live # {}
    <2> PICK f : f = first
      OBVIOUS
    <2>1. /\ effects' = Taken(left, f, "dispatching")
          /\ TakenBy(w, left, f, "dispatch")
      BY <1>4, <1>19
    <2>2. /\ f \in live /\ f \in open /\ f \in 1..n
          /\ Ready(table, f, due) /\ f \notin dropped
      BY <1>10, <1>13, <1>14, <1>19
    <2>3. /\ effects[f].state \in {"pending", "retryable"}
          /\ table[f] = effects[f] /\ left[f] = table[f]
          /\ left[f].attempts < MaxAttempts
      BY <1>8, <1>15, <2>2
    <2>4. "dispatching" \in Claimed
      BY DEF Claimed
    <2>5. /\ effects' \in [1..n -> EffectRow]
          /\ SameEffect(effects'[f], left[f])
          /\ effects'[f].state = "dispatching"
          /\ effects'[f].fence = left[f].fence + 1
          /\ effects'[f].attempts <= left[f].attempts + 1
          /\ \A e \in (1..n) \ {f} : effects'[e] = left[e]
      BY <1>2, <1>15, <2>1, <2>2, <2>3, <2>4, TakenRows
    <2>6. ASSUME NEW e \in 1..n
          PROVE  SameEffect(effects'[e], effects[e]) /\ RowRight(effects'[e], operations)
      <3>1. CASE e # f
        BY <1>16, <2>5, <3>1
      <3>2. CASE e = f
        <4>1. SameEffect(effects'[e], effects[e])
          BY <2>3, <2>5, <3>2
        <4>2. left[e] \in EffectRow /\ effects'[e] \in EffectRow
          BY <1>15, <2>5
        <4>3. RowRight(effects'[e], operations)
          BY <1>16, <2>5, <3>2, <4>1, <4>2, BoundsAssumption, SMTT(60)
          DEF RowRight, SameEffect, EffectRow
        <4> QED BY <4>1, <4>3
      <3> QED BY <3>1, <3>2
    <2>7. SameQueue
      BY <1>1, <1>2, <1>4, <2>5, <2>6, QueueKept DEF n
    <2>8. \A p \in 1..n : p \in dropped \/ table[p].state \in Final =>
                              effects'[p].state \in Final
      <3>1. f \notin dropped /\ table[f].state \notin Final
        BY <2>2, <2>3 DEF Final
      <3> QED BY <1>12, <1>15, <2>5, <3>1
    <2>9. ASSUME NEW e \in DOMAIN effects \ {f}
          PROVE  Sweeps(e)
      <3>1. CASE e \in dropped
        <4>1. BeforeDone(e)'
          <5>1. e \in open /\ e \in 1..n /\ f \in Nat /\ e \in Nat /\ e < f
            BY <1>2, <1>13, <1>19, <2>2, <3>1
          <5>2. e <= f
            BY <5>1
          <5> QED BY <1>17, <2>6, <2>8, <5>1, <5>2
        <4>2. effects[e].state \in {"pending", "retryable"}
          BY <1>2, <1>8, <1>13, <3>1
        <4>3. effects'[e].state = "superseded"
          BY <1>2, <1>15, <2>5, <3>1
        <4> QED BY <4>1, <4>2, <4>3 DEF Sweeps
      <3>2. CASE e \notin dropped
        BY <1>2, <1>6, <1>15, <2>5, <3>2 DEF Sweeps
      <3> QED BY <3>1, <3>2
    <2>10. BeforeDone(f)'
      <3>1. f <= f
        BY <1>2, <2>2
      <3> QED BY <1>17, <2>2, <2>6, <2>8, <3>1
    <2>11. Takes(w, f, "dispatch")
      BY <1>5, <2>1, <2>3, <2>5, <2>10 DEF Takes, TakenBy
    <2> QED BY <1>2, <1>5, <2>2, <2>7, <2>9, <2>11 DEF TakeStep
  <1> QED BY <1>18, <1>19

-----------------------------------------------------------------------------
(* Decisions queue effects *)

LEMMA SetAccessStep ==
    ASSUME Types, NEW u \in Users, SetAccess(u)
    PROVE  /\ QueueStep
           /\ active' \in [Users -> BOOLEAN] /\ version' \in [Users -> Nat \ {0}]
  <1>1. /\ active' = [active EXCEPT ![u] = ~@]
        /\ version' = [x \in Users |-> IF x \in {u} \cup SubsOf[u]
                                       THEN version[x] + 1 ELSE version[x]]
    BY DEF SetAccess
  <1>2. /\ active' \in [Users -> BOOLEAN] /\ version' \in [Users -> Nat \ {0}]
        /\ active \in [Users -> BOOLEAN]
    <2>1. /\ active \in [Users -> BOOLEAN] /\ version \in [Users -> Nat \ {0}]
      BY DEF Types
    <2>2. \A x \in Users : version[x] + 1 \in Nat \ {0}
      BY <2>1
    <2> QED BY <1>1, <2>1, <2>2
  <1> DEFINE E == {Effect(s, "revoke_sessions", version'[s], active[s]) : s \in SubsOf[u]}
             two == <<Effect(u, "revoke_sessions", version'[u], active'[u]),
                      Effect(u, "mirror_metadata", version'[u], active'[u])>>
             new == two \o SetToSeq(E)
  <1>3. SubsOf[u] \subseteq Users /\ IsFiniteSet(SubsOf[u])
    BY SubsAssumption
  <1>4. \A x \in Users, k \in Kinds, a \in BOOLEAN : Effect(x, k, version'[x], a) \in NewRow
    <2>1. \A x \in Users : version'[x] \in Nat
      BY <1>2
    <2> QED BY <2>1, NewEffect
  <1>5. "revoke_sessions" \in Kinds /\ "mirror_metadata" \in Kinds
    BY DEF Kinds, Mirrors
  <1>6. E \subseteq NewRow
    BY <1>2, <1>3, <1>4, <1>5
  <1>7. IsFiniteSet(E)
    <2>1. [s \in SubsOf[u] |-> Effect(s, "revoke_sessions", version'[s], active[s])]
             \in Surjection(SubsOf[u], E)
      BY DEF Surjection
    <2> HIDE DEF E
    <2> QED BY <1>3, <2>1, FS_Surjection
  <1>8. two \in Seq(NewRow)
    BY <1>2, <1>4, <1>5
  <1>9. Queue(new)
    BY DEF SetAccess
  <1> HIDE DEF E, two
  <1>10. SetToSeq(E) \in Seq(NewRow)
    BY <1>6, <1>7, SetToSeqElements, SeqMonotonic
  <1>11. new \in Seq(NewRow)
    BY <1>8, <1>10, ConcatProperties
  <1> HIDE DEF new
  <1> QED BY <1>2, <1>9, <1>11, QueueEffects

LEMMA RenameStep ==
    ASSUME Types, NEW o \in Users, NEW s \in Users, Rename(o, s)
    PROVE  QueueStep /\ UNCHANGED userVars
  <1> DEFINE x == Effect(s, "mirror_name", version[s], active[s])
             new == <<x>>
  <1>1. Queue(new) /\ UNCHANGED userVars
    BY DEF Rename
  <1>2. x \in NewRow
    <2>1. version[s] \in Nat /\ active[s] \in BOOLEAN /\ "mirror_name" \in Kinds
      BY DEF Types, Kinds, Mirrors
    <2> QED BY <2>1, NewEffect
  <1> HIDE DEF x
  <1>3. new \in Seq(NewRow)
    BY <1>2
  <1> HIDE DEF new
  <1> QED BY <1>1, <1>3, QueueEffects

\* Nobody works on an effect that was just queued, and nothing was sent.
LEMMA QueueKeeps ==
    ASSUME EffectsInvariant, QueueStep,
           active' \in [Users -> BOOLEAN], version' \in [Users -> Nat \ {0}]
    PROVE  EffectsInvariant'
  <1>1. /\ Len(effects) \in Nat /\ DOMAIN effects = 1..Len(effects)
        /\ \A e \in DOMAIN effects : effects[e] \in EffectRow
    BY EffectsDomain DEF EffectsInvariant, Types
  <1>2. /\ OutboxTypes'
        /\ Len(effects') >= Len(effects)
        /\ \A e \in DOMAIN effects : e \in DOMAIN effects' /\ effects'[e] = effects[e]
        /\ \A e \in DOMAIN effects' \ DOMAIN effects : effects'[e].state = "pending"
        /\ claims' = claims /\ inFlight' = inFlight /\ shown' = shown /\ sessions' = sessions
    BY DEF QueueStep, providerVars
  <1>3. 0 \notin DOMAIN effects'
    <2>1. effects' \in Seq(EffectRow)
      BY <1>2 DEF OutboxTypes
    <2> QED BY <2>1, LenProperties
  <1>4. /\ claims \in [Workers -> ClaimRow]
        /\ \A w \in Workers : ClaimRight(claims[w], effects)
        /\ \A r \in inFlight : r[1] \in DOMAIN effects
        /\ shown \in [Users -> [Mirrors -> Nat]]
        /\ sessions \in [Users -> SUBSET Nat]
    BY DEF EffectsInvariant, Types
  <1>5. \A w \in Workers : ClaimRight(claims'[w], effects')
    BY <1>2, <1>4 DEF ClaimRight
  <1>6. Types'
    <2>1. \A r \in inFlight' : r[1] \in DOMAIN effects'
      BY <1>2, <1>4
    <2> QED BY <1>2, <1>4, <1>5, <2>1 DEF Types
  <1>7. ShownRight'
    BY <1>2 DEF ShownRight, EffectsInvariant
  <1>8. ASSUME NEW e \in DOMAIN effects
        PROVE  (InOrder(e) /\ NotBegun(e) /\ OneDelivery(e) /\ Confirmed(e))'
    <2>1. InOrder(e) /\ NotBegun(e) /\ OneDelivery(e) /\ Confirmed(e)
      BY DEF EffectsInvariant
    <2>2. effects'[e] = effects[e]
      BY <1>2
    <2>3. InOrder(e)'
      BY <1>1, <1>2, <2>1, SMTT(60) DEF InOrder
    <2>4. NotBegun(e)'
      BY <1>2, <2>1 DEF NotBegun, On, Requested, Applied
    <2>5. OneDelivery(e)'
      BY <1>2, <2>1 DEF OneDelivery, Delivers, On, Requested, Applied
    <2>6. Confirmed(e)'
      BY <1>2, <2>1 DEF Confirmed, Happened, On, MaySend, Delivers, Requested
    <2> QED BY <2>3, <2>4, <2>5, <2>6
  <1>9. ASSUME NEW e \in DOMAIN effects' \ DOMAIN effects
        PROVE  (InOrder(e) /\ NotBegun(e) /\ OneDelivery(e) /\ Confirmed(e))'
    <2>1. effects'[e].state = "pending"
      BY <1>2
    <2>2. \A w \in Workers : ~On(w, e)'
      BY <1>2, <1>4 DEF On, ClaimRight
    <2>3. ~Requested(e)'
      BY <1>2, <1>4 DEF Requested
    <2>4. ~Applied(e)'
      <3>1. \A u \in Users, k \in Mirrors : shown[u][k] # 0 => shown[u][k] \in DOMAIN effects
        BY DEF ShownRight, EffectsInvariant
      <3>2. e # 0
        BY <1>3
      <3> QED BY <1>2, <3>1, <3>2 DEF Applied
    <2>5. InOrder(e)' /\ NotBegun(e)'
      BY <2>1, <2>2, <2>3, <2>4 DEF InOrder, NotBegun
    <2>6. OneDelivery(e)'
      BY <2>1, <2>2, <2>3 DEF OneDelivery, Delivers, Requested
    <2>7. Confirmed(e)'
      BY <2>1, <2>2 DEF Confirmed
    <2> QED BY <2>5, <2>6, <2>7
  <1> QED BY <1>6, <1>7, <1>8, <1>9 DEF EffectsInvariant

-----------------------------------------------------------------------------
(* Claims keep the invariant *)

\* What is resolved stays so.
FinalStays ==
    \A e \in DOMAIN effects : effects[e].state \in Final => effects'[e].state \in Final

LEMMA SweptEffect ==
    ASSUME EffectsInvariant, SameQueue, FinalStays, NEW e \in DOMAIN effects, Sweeps(e),
           \A w \in Workers : claims'[w] = claims[w] \/ ~On(w, e)',
           UNCHANGED providerVars
    PROVE  (InOrder(e) /\ NotBegun(e) /\ OneDelivery(e) /\ Confirmed(e))'
  <1>1. InOrder(e) /\ NotBegun(e) /\ OneDelivery(e) /\ Confirmed(e)
    BY DEF EffectsInvariant
  <1>2. /\ Len(effects) \in Nat /\ DOMAIN effects = 1..Len(effects)
    BY EffectsDomain DEF EffectsInvariant, Types
  <1>3. inFlight' = inFlight /\ shown' = shown /\ sessions' = sessions
    BY DEF providerVars
  <1>4. \A p \in DOMAIN effects : effects'[p].user = effects[p].user
                                  /\ effects'[p].kind = effects[p].kind
    BY DEF SameQueue, SameEffect
  <1>5. \A w \in Workers : On(w, e)' => On(w, e) /\ claims'[w] = claims[w]
    BY DEF On
  <1>6. \/ effects'[e].state = effects[e].state
        \/ effects[e].state \in Claimed /\ effects'[e].state = "needs_reconciliation"
        \/ /\ effects[e].state \in {"pending", "retryable"}
           /\ effects'[e].state = "superseded"
           /\ BeforeDone(e)'
    BY DEF Sweeps
  <1>7. InOrder(e)'
    <2> SUFFICES ASSUME effects'[e].state # "pending"
                 PROVE  BeforeDone(e)'
      BY DEF InOrder, BeforeDone
    <2>1. CASE effects[e].state = "pending"
      BY <1>6, <2>1 DEF Claimed
    <2>2. CASE effects[e].state # "pending"
      BY <1>1, <1>2, <1>4, <2>2 DEF InOrder, BeforeDone, FinalStays
    <2> QED BY <2>1, <2>2
  <1>8. NotBegun(e)'
    <2>1. effects'[e].state \in Waiting => effects[e].state \in Waiting
      BY <1>6 DEF Waiting
    <2> QED BY <1>1, <1>3, <1>5, <2>1 DEF NotBegun, Requested, Applied
  <1>9. OneDelivery(e)'
    <2>1. effects'[e].state = "dispatching" => effects[e].state = "dispatching"
      BY <1>6
    <2>2. \A w \in Workers : Delivers(w, e)' => Delivers(w, e)
      BY <1>5 DEF Delivers
    <2>3. ASSUME Requested(e)'
          PROVE  effects'[e].state \notin Final
      <3>1. effects[e].state \notin Waiting /\ effects[e].state \notin Final
        BY <1>1, <1>3, <2>3 DEF NotBegun, OneDelivery, Requested
      <3> QED BY <1>6, <3>1 DEF Waiting, Final
    <2> QED BY <1>1, <1>3, <1>4, <1>5, <2>1, <2>2, <2>3
            DEF OneDelivery, Requested, Applied, Delivers
  <1>10. Confirmed(e)'
    <2>1. effects'[e].state = "confirmed" => effects[e].state = "confirmed"
      BY <1>6
    <2>2. Happened(e) => Happened(e)'
      BY <1>3, <1>4, <1>5 DEF Happened, MaySend, Delivers, Requested
    <2> QED BY <1>1, <1>5, <2>1, <2>2 DEF Confirmed
  <1> QED BY <1>7, <1>8, <1>9, <1>10

\* The effects are the same ones: what the provider shows is still of one.
LEMMA SameQueueKeeps ==
    ASSUME EffectsInvariant, SameQueue, UNCHANGED <<userVars, providerVars>>,
           claims' \in [Workers -> ClaimRow],
           \A w \in Workers : claims'[w] = claims[w] \/ ClaimRight(claims'[w], effects)
    PROVE  Types' /\ ShownRight'
  <1>1. /\ OutboxTypes' /\ DOMAIN effects' = DOMAIN effects
        /\ \A e \in DOMAIN effects : effects'[e].user = effects[e].user
                                     /\ effects'[e].kind = effects[e].kind
    BY DEF SameQueue, SameEffect
  <1>2. \A w \in Workers : ClaimRight(claims'[w], effects')
    <2>1. \A w \in Workers : ClaimRight(claims'[w], effects)
      BY DEF EffectsInvariant, Types
    <2> QED BY <1>1, <2>1 DEF ClaimRight, Idle
  <1>3. Types'
    BY <1>1, <1>2 DEF EffectsInvariant, Types, userVars, providerVars
  <1>4. ShownRight'
    BY <1>1 DEF EffectsInvariant, ShownRight, providerVars
  <1> QED BY <1>3, <1>4

LEMMA SweepKeeps ==
    ASSUME EffectsInvariant, SweepStep
    PROVE  EffectsInvariant'
  <1>1. /\ SameQueue /\ UNCHANGED <<userVars, claims, providerVars>>
        /\ \A e \in DOMAIN effects : Sweeps(e)
    BY DEF SweepStep
  <1>2. FinalStays
    BY <1>1 DEF FinalStays, Sweeps, Final, Claimed
  <1>3. Types' /\ ShownRight'
    BY <1>1, SameQueueKeeps DEF EffectsInvariant, Types
  <1>4. \A e \in DOMAIN effects : (InOrder(e) /\ NotBegun(e) /\ OneDelivery(e) /\ Confirmed(e))'
    BY <1>1, <1>2, SweptEffect
  <1>5. DOMAIN effects' = DOMAIN effects
    BY <1>1 DEF SameQueue
  <1> QED BY <1>3, <1>4, <1>5 DEF EffectsInvariant

LEMMA TakeKeeps ==
    ASSUME EffectsInvariant, NEW w \in Workers, NEW f \in DOMAIN effects,
           NEW task \in {"dispatch", "reconcile"}, TakeStep(w, f, task)
    PROVE  EffectsInvariant'
  <1>1. /\ SameQueue /\ UNCHANGED <<userVars, providerVars>>
        /\ \A e \in DOMAIN effects \ {f} : Sweeps(e)
        /\ Takes(w, f, task)
    BY DEF TakeStep
  <1>2. /\ Len(effects) \in Nat /\ DOMAIN effects = 1..Len(effects)
        /\ effects[f] \in EffectRow
    BY EffectsDomain DEF EffectsInvariant, Types
  <1> DEFINE c == [at |-> "calling", effect |-> f, fence |-> effects[f].fence + 1,
                   task |-> task, result |-> "none"]
  <1>3. /\ claims[w] = Idle /\ claims' = [claims EXCEPT ![w] = c]
        /\ claims \in [Workers -> ClaimRow]
    BY <1>1 DEF Takes, EffectsInvariant, Types
  <1>4. c \in ClaimRow /\ ClaimRight(c, effects)
    BY <1>2 DEF ClaimRow, ClaimRight, EffectRow
  <1>5. c.at = "calling" /\ c.effect = f /\ c.task = task /\ c.result = "none"
    OBVIOUS
  <1> HIDE DEF c
  <1>6. /\ claims' \in [Workers -> ClaimRow] /\ claims'[w] = c
        /\ \A v \in Workers \ {w} : claims'[v] = claims[v]
    BY <1>3, <1>4
  <1>7. inFlight' = inFlight /\ shown' = shown /\ sessions' = sessions
    BY <1>1 DEF providerVars
  <1>8. \/ /\ task = "dispatch" /\ effects[f].state \in {"pending", "retryable"}
           /\ effects'[f].state = "dispatching"
           /\ BeforeDone(f)'
        \/ /\ task = "reconcile"
           /\ effects[f].state \in Claimed \cup {"needs_reconciliation"}
           /\ effects'[f].state = "reconciling"
    BY <1>1 DEF Takes
  <1>9. FinalStays
    <2>1. effects[f].state \notin Final
      BY <1>8 DEF Final, Claimed
    <2>2. \A e \in DOMAIN effects \ {f} :
              effects[e].state \in Final => effects'[e].state \in Final
      BY <1>1 DEF Sweeps, Final, Claimed
    <2> QED BY <2>1, <2>2 DEF FinalStays
  <1>10. Types' /\ ShownRight'
    BY <1>1, <1>4, <1>6, SameQueueKeeps
  <1>11. ASSUME NEW e \in DOMAIN effects \ {f}
         PROVE  (InOrder(e) /\ NotBegun(e) /\ OneDelivery(e) /\ Confirmed(e))'
    <2>1. \A v \in Workers : claims'[v] = claims[v] \/ ~On(v, e)'
      BY <1>5, <1>6 DEF On
    <2> QED BY <1>1, <1>9, <2>1, SweptEffect
  <1>12. InOrder(f) /\ NotBegun(f) /\ OneDelivery(f) /\ Confirmed(f)
    BY DEF EffectsInvariant
  <1>13. ~On(w, f) /\ On(w, f)'
    BY <1>3, <1>5, <1>6 DEF On, Idle
  <1>14. \A v \in Workers \ {w} : On(v, f)' <=> On(v, f)
    BY <1>6 DEF On
  <1>15. InOrder(f)'
    <2>1. CASE task = "dispatch"
      BY <1>8, <2>1 DEF InOrder, BeforeDone
    <2>2. CASE task = "reconcile"
      <3>1. effects[f].state # "pending"
        BY <1>8, <2>2 DEF Claimed
      <3>2. \A p \in DOMAIN effects : effects'[p].user = effects[p].user
        BY <1>1 DEF SameQueue, SameEffect
      <3> QED BY <1>2, <1>9, <1>12, <3>1, <3>2 DEF InOrder, FinalStays
    <2> QED BY <2>1, <2>2
  <1>16. NotBegun(f)'
    BY <1>8 DEF NotBegun, Waiting
  <1>17. CASE task = "dispatch"
    <2>1. /\ \A v \in Workers : ~On(v, f)
          /\ ~Requested(f) /\ ~Applied(f)
      BY <1>8, <1>12, <1>17 DEF NotBegun, Waiting
    <2>2. \A v \in Workers : On(v, f)' => v = w
      BY <1>14, <2>1
    <2>3. ~Requested(f)' /\ ~Applied(f)'
      BY <1>7, <2>1 DEF Requested, Applied
    <2>4. Delivers(w, f)'
      BY <1>5, <1>6, <1>13, <1>17 DEF Delivers
    <2>5. OneDelivery(f)'
      BY <2>2, <2>3, <2>4 DEF OneDelivery, Delivers, Requested
    <2>6. Confirmed(f)'
      BY <1>5, <1>6, <1>8, <1>17, <2>2 DEF Confirmed
    <2> QED BY <1>1, <1>10, <1>11, <1>15, <1>16, <2>5, <2>6 DEF EffectsInvariant, SameQueue
  <1>18. CASE task = "reconcile"
    <2>1. ~Delivers(w, f)'
      BY <1>5, <1>6, <1>18 DEF Delivers
    <2>2. \A v \in Workers : Delivers(v, f)' => v # w /\ Delivers(v, f) /\ claims'[v] = claims[v]
      BY <1>6, <1>14, <2>1 DEF Delivers
    <2>3. OneDelivery(f)'
      <3>1. effects'[f].state \notin Final /\ effects'[f].state # "dispatching"
        BY <1>8, <1>18 DEF Final
      <3>2. effects'[f].kind = effects[f].kind
        BY <1>1 DEF SameQueue, SameEffect
      <3> QED BY <1>7, <1>12, <2>2, <3>1, <3>2 DEF OneDelivery, Requested, Applied
    <2>4. Confirmed(f)'
      <3>1. effects'[f].user = effects[f].user /\ effects'[f].kind = effects[f].kind
        BY <1>1 DEF SameQueue, SameEffect
      <3>2. Happened(f) => Happened(f)'
        BY <1>7, <2>2, <3>1 DEF Happened, MaySend, Requested
      <3> QED BY <1>5, <1>6, <1>8, <1>12, <1>14, <1>18, <3>2 DEF Confirmed
    <2> QED BY <1>1, <1>10, <1>11, <1>15, <1>16, <2>3, <2>4 DEF EffectsInvariant, SameQueue
  <1> QED BY <1>17, <1>18

-----------------------------------------------------------------------------
(* A worker at the provider *)

Ats == {"sent", "revoked", "finishing"}
Results == {"none", "confirmed", "unknown", "not_sent"}

\* A worker that moves on stays on its effect, with its task.
Moves(w, at, result) ==
    /\ claims[w].at # "idle"
    /\ At(w, at, result)
    /\ claims[w].task = "reconcile" => at = "finishing" /\ result # "not_sent"
    /\ at = "sent" => effects[claims[w].effect].kind \in Mirrors

LEMMA MovesClaim ==
    ASSUME EffectsInvariant, NEW w \in Workers, NEW at \in Ats, NEW result \in Results,
           Moves(w, at, result)
    PROVE  /\ claims' \in [Workers -> ClaimRow]
           /\ claims[w].effect \in DOMAIN effects
           /\ claims'[w].at = at /\ claims'[w].result = result
           /\ claims'[w].effect = claims[w].effect /\ claims'[w].task = claims[w].task
           /\ \A v \in Workers \ {w} : claims'[v] = claims[v]
           /\ \A v \in Workers : ClaimRight(claims'[v], effects)
           /\ \A v \in Workers, e \in DOMAIN effects :
                 /\ On(v, e)' <=> On(v, e)
                 /\ Delivers(v, e)' <=> Delivers(v, e)
           /\ \A e \in DOMAIN effects : MaySend(e)' => MaySend(e)
  <1>1. /\ claims \in [Workers -> ClaimRow]
        /\ \A v \in Workers : ClaimRight(claims[v], effects)
    BY DEF EffectsInvariant, Types
  <1> DEFINE c == [[claims[w] EXCEPT !.at = at] EXCEPT !.result = result]
  <1>2. /\ claims' = [claims EXCEPT ![w] = c]
        /\ claims[w].at # "idle"
        /\ claims[w].task = "reconcile" => at = "finishing" /\ result # "not_sent"
        /\ at = "sent" => effects[claims[w].effect].kind \in Mirrors
    BY DEF Moves, At
  <1>3. PICK x : x = claims[w]
    OBVIOUS
  <1>4. /\ c \in ClaimRow /\ c.at = at /\ c.result = result
        /\ c.effect = claims[w].effect /\ c.task = claims[w].task
    <2>1. x \in ClaimRow /\ c = [[x EXCEPT !.at = at] EXCEPT !.result = result]
      BY <1>1, <1>3
    <2> QED BY <1>3, <2>1, ZenonT(90) DEF ClaimRow, Ats, Results
  <1> HIDE DEF c
  <1>5. /\ claims' \in [Workers -> ClaimRow] /\ claims'[w] = c
        /\ \A v \in Workers \ {w} : claims'[v] = claims[v]
    BY <1>1, <1>2, <1>4
  <1>6. claims[w].effect \in DOMAIN effects
    BY <1>1, <1>2 DEF ClaimRight
  <1>7. \A v \in Workers : ClaimRight(claims'[v], effects)
    <2>1. ClaimRight(c, effects)
      BY <1>1, <1>2, <1>4, <1>6 DEF ClaimRight, Ats
    <2> QED BY <1>1, <1>5, <2>1
  <1>8. \A v \in Workers, e \in DOMAIN effects :
            On(v, e)' <=> On(v, e)
    BY <1>2, <1>4, <1>5 DEF On, Ats
  <1>9. \A v \in Workers, e \in DOMAIN effects :
            Delivers(v, e)' <=> Delivers(v, e)
    BY <1>4, <1>5, <1>8 DEF Delivers
  <1>10. \A e \in DOMAIN effects : MaySend(e)' => MaySend(e)
    <2> SUFFICES ASSUME NEW e \in DOMAIN effects, NEW v \in Workers,
                        Delivers(v, e)', claims'[v].at = "calling"
                 PROVE  MaySend(e)
      BY DEF MaySend
    <2>1. v # w
      BY <1>4, <1>5 DEF Ats
    <2> QED BY <1>5, <1>9, <2>1 DEF MaySend
  <1> QED BY <1>4, <1>5, <1>6, <1>7, <1>8, <1>9, <1>10

\* It reports what the provider shows, or that it does not know.
LEMMA ReportKeeps ==
    ASSUME EffectsInvariant, NEW w \in Workers, NEW at \in Ats, NEW result \in Results,
           Moves(w, at, result),
           result = "confirmed" => Happened(claims[w].effect),
           result = "not_sent" => claims[w].at = "calling",
           UNCHANGED <<userVars, outboxVars, providerVars>>
    PROVE  EffectsInvariant'
  <1>1. /\ claims' \in [Workers -> ClaimRow]
        /\ claims'[w].at = at /\ claims'[w].result = result
        /\ claims'[w].effect = claims[w].effect /\ claims'[w].task = claims[w].task
        /\ \A v \in Workers \ {w} : claims'[v] = claims[v]
        /\ \A v \in Workers : ClaimRight(claims'[v], effects)
        /\ \A v \in Workers, e \in DOMAIN effects :
              /\ On(v, e)' <=> On(v, e)
              /\ Delivers(v, e)' <=> Delivers(v, e)
        /\ \A e \in DOMAIN effects : MaySend(e)' => MaySend(e)
    BY MovesClaim
  <1>2. /\ UNCHANGED userVars /\ operations' = operations /\ effects' = effects
        /\ lapsed' = lapsed /\ inFlight' = inFlight /\ shown' = shown
        /\ sessions' = sessions
    BY DEF outboxVars, providerVars
  <1>3. Types' /\ ShownRight'
    BY <1>1, <1>2 DEF EffectsInvariant, Types, OutboxTypes, ShownRight, userVars
  <1>4. ASSUME NEW e \in DOMAIN effects
        PROVE  (InOrder(e) /\ NotBegun(e) /\ OneDelivery(e) /\ Confirmed(e))'
    <2>1. InOrder(e) /\ NotBegun(e) /\ OneDelivery(e) /\ Confirmed(e)
      BY DEF EffectsInvariant
    <2>2. InOrder(e)'
      BY <1>2, <2>1 DEF InOrder
    <2>3. (Requested(e)' <=> Requested(e)) /\ (Applied(e)' <=> Applied(e))
      BY <1>2 DEF Requested, Applied
    <2>4. NotBegun(e)'
      BY <1>1, <1>2, <2>1, <2>3 DEF NotBegun
    <2>5. OneDelivery(e)'
      <3>1. ASSUME NEW v \in Workers, Delivers(v, e)',
                   claims'[v].at = "calling" \/ claims'[v].result = "not_sent"
            PROVE  ~Requested(e) /\ ~Applied(e)
        <4>1. Delivers(v, e)
          BY <1>1, <3>1
        <4>2. claims[v].at = "calling" \/ claims[v].result = "not_sent"
          BY <1>1, <3>1 DEF Ats
        <4> QED BY <2>1, <4>1, <4>2 DEF OneDelivery
      <3>2. \A r, q \in inFlight' : r[1] = e /\ q[1] = e => r = q
        BY <1>2, <2>1 DEF OneDelivery
      <3> QED BY <1>1, <1>2, <2>1, <2>3, <3>1, <3>2 DEF OneDelivery
    <2>6. Happened(e) => Happened(e)'
      BY <1>1, <1>2, <2>3 DEF Happened
    <2>7. Confirmed(e)'
      <3>1. ASSUME NEW v \in Workers, On(v, e)', claims'[v].result = "confirmed"
            PROVE  Happened(e)
        <4>1. CASE v = w
          BY <1>1, <3>1, <4>1 DEF On
        <4>2. CASE v # w
          BY <1>1, <2>1, <3>1, <4>2 DEF Confirmed
        <4> QED BY <4>1, <4>2
      <3> QED BY <1>2, <2>1, <2>6, <3>1 DEF Confirmed
    <2> QED BY <2>2, <2>4, <2>5, <2>7
  <1> QED BY <1>2, <1>3, <1>4 DEF EffectsInvariant

LEMMA NotSentKeeps ==
    ASSUME EffectsInvariant, NEW w \in Workers, NotSent(w)
    PROVE  EffectsInvariant'
  <1>1. Moves(w, "finishing", "not_sent")
    BY DEF NotSent, Moves, Delivering
  <1>2. claims[w].at = "calling" /\ UNCHANGED <<userVars, outboxVars, providerVars>>
    BY DEF NotSent, Delivering
  <1> QED BY <1>1, <1>2, ReportKeeps DEF Ats, Results

LEMMA TimeOutKeeps ==
    ASSUME EffectsInvariant, NEW w \in Workers, TimeOut(w)
    PROVE  EffectsInvariant'
  <1>1. claims[w].at # "idle"
    BY DEF TimeOut, Observing
  <1>2. Moves(w, "finishing", "unknown")
    BY <1>1 DEF TimeOut, Moves
  <1>3. UNCHANGED <<userVars, outboxVars, providerVars>>
    BY DEF TimeOut
  <1> QED BY <1>2, <1>3, ReportKeeps DEF Ats, Results

\* A mirror the provider shows was applied, and is not sent again.
LEMMA ShownHappened ==
    ASSUME EffectsInvariant, NEW e \in DOMAIN effects, effects[e].kind \in Mirrors,
           shown[effects[e].user][effects[e].kind] = e
    PROVE  Happened(e)
  <1>1. e \in Nat /\ effects[e] \in EffectRow
    <2>1. DOMAIN effects = 1..Len(effects) /\ Len(effects) \in Nat
          /\ effects[e] \in EffectRow
      BY EffectsDomain DEF EffectsInvariant, Types
    <2> QED BY <2>1
  <1>2. Applied(e)
    BY <1>1 DEF Applied, EffectRow
  <1>3. ~Requested(e) /\ ~MaySend(e)
    BY <1>2 DEF EffectsInvariant, OneDelivery, MaySend
  <1>4. shown[effects[e].user][effects[e].kind] >= e /\ effects[e].kind # "revoke_sessions"
    BY <1>1 DEF Mirrors
  <1> QED BY <1>3, <1>4 DEF Happened

LEMMA AnsweredKeeps ==
    ASSUME EffectsInvariant, NEW w \in Workers, Answered(w)
    PROVE  EffectsInvariant'
  <1>1. claims[w].at = "sent" /\ claims[w].task = "dispatch"
    BY DEF Answered, Delivering
  <1>2. Moves(w, "finishing", "confirmed")
    BY <1>1 DEF Answered, Moves
  <1>3. UNCHANGED <<userVars, outboxVars, providerVars>>
    BY DEF Answered
  <1>4. claims[w].effect \in DOMAIN effects /\ effects[claims[w].effect].kind \in Mirrors
    BY <1>1 DEF EffectsInvariant, Types, ClaimRight
  <1>5. Happened(claims[w].effect)
    <2>1. shown[effects[claims[w].effect].user][effects[claims[w].effect].kind]
             = claims[w].effect
      BY DEF Answered, Claiming
    <2> QED BY <1>4, <2>1, ShownHappened
  <1> QED BY <1>2, <1>3, <1>5, ReportKeeps DEF Ats, Results

LEMMA ReadKeeps ==
    ASSUME EffectsInvariant, NEW w \in Workers, Read(w)
    PROVE  EffectsInvariant'
  <1> DEFINE result == IF Shows(claims[w].effect) THEN "confirmed" ELSE "unknown"
  <1>1. PICK e : e = claims[w].effect
    OBVIOUS
  <1>2. claims[w].at # "idle" /\ At(w, "finishing", result)
        /\ UNCHANGED <<userVars, outboxVars, providerVars>>
    BY DEF Read, Delivering, Observing
  <1>3. e \in DOMAIN effects
    BY <1>1, <1>2 DEF EffectsInvariant, Types, ClaimRight
  <1>4. result \in {"confirmed", "unknown"} /\ (result = "confirmed" => Shows(e))
    BY <1>1
  <1>5. Moves(w, "finishing", result)
    BY <1>2, <1>4 DEF Moves
  <1> HIDE DEF result
  <1>6. Shows(e) => Happened(e)
    <2>1. effects[e] \in EffectRow
      BY <1>3, EffectsDomain DEF EffectsInvariant, Types
    <2>2. sessions[effects[e].user] = {} /\ effects[e].kind = "revoke_sessions"
             => Happened(e)
      BY DEF Happened
    <2>3. effects[e].kind = "mirror_metadata"
             /\ shown[effects[e].user]["mirror_metadata"] = e => Happened(e)
      BY <1>3, ShownHappened DEF Mirrors
    <2>4. effects[e].kind \in {"revoke_sessions", "mirror_metadata", "mirror_name"}
      BY <2>1 DEF EffectRow, Kinds, Mirrors
    <2> QED BY <2>2, <2>3, <2>4 DEF Shows
  <1> QED BY <1>1, <1>2, <1>4, <1>5, <1>6, ReportKeeps DEF Ats, Results

\* The one request of the delivery leaves.
LEMMA SendKeeps ==
    ASSUME EffectsInvariant, NEW w \in Workers, SendMirror(w)
    PROVE  EffectsInvariant'
  <1> DEFINE f == claims[w].effect
  <1>1. PICK g : g = f
    OBVIOUS
  <1>2. PICK r : r = <<claims[w].effect, claims[w].fence>>
    OBVIOUS
  <1>3. /\ Delivering(w, "calling") /\ effects[g].kind \in Mirrors
        /\ inFlight' = inFlight \cup {r}
        /\ At(w, "sent", "none")
        /\ UNCHANGED <<userVars, outboxVars, shown, sessions>>
        /\ r[1] = g
    BY <1>1, <1>2 DEF SendMirror, Claiming
  <1>4. Moves(w, "sent", "none")
    BY <1>1, <1>3 DEF Moves, Delivering
  <1>5. "sent" \in Ats /\ "none" \in Results
    BY DEF Ats, Results
  <1>6. /\ claims' \in [Workers -> ClaimRow]
        /\ g \in DOMAIN effects
        /\ claims'[w].at = "sent" /\ claims'[w].result = "none"
        /\ \A v \in Workers \ {w} : claims'[v] = claims[v]
        /\ \A v \in Workers : ClaimRight(claims'[v], effects)
        /\ \A v \in Workers, e \in DOMAIN effects :
              /\ On(v, e)' <=> On(v, e)
              /\ Delivers(v, e)' <=> Delivers(v, e)
        /\ \A e \in DOMAIN effects : MaySend(e)' => MaySend(e)
    BY <1>1, <1>4, <1>5, MovesClaim
  <1>7. /\ UNCHANGED userVars /\ operations' = operations /\ effects' = effects
        /\ lapsed' = lapsed /\ shown' = shown /\ sessions' = sessions
    BY <1>3 DEF outboxVars
  <1>8. \A q \in inFlight' : q \in inFlight \/ q = r
    BY <1>3
  <1>9. Types' /\ ShownRight'
    <2>1. \A q \in inFlight' : q[1] \in DOMAIN effects'
      BY <1>3, <1>6, <1>7, <1>8 DEF EffectsInvariant, Types
    <2> QED BY <1>6, <1>7, <2>1
            DEF EffectsInvariant, Types, OutboxTypes, ShownRight, userVars
  <1>10. /\ Delivers(w, g) /\ On(w, g) /\ MaySend(g)
         /\ claims[w].at = "calling"
    BY <1>1, <1>3 DEF Delivering, Delivers, On, MaySend
  <1>11. InOrder(g) /\ NotBegun(g) /\ OneDelivery(g) /\ Confirmed(g)
    BY <1>6 DEF EffectsInvariant
  <1>12. /\ ~Requested(g) /\ ~Applied(g)
         /\ effects[g].state \notin Waiting
    BY <1>10, <1>11 DEF NotBegun, OneDelivery
  <1>13. ~Happened(g)
    BY <1>3, <1>10 DEF Happened, Mirrors
  <1>14. effects[g].state \notin Final
    BY <1>11, <1>12, <1>13 DEF Confirmed, Final, Waiting
  <1>15. ASSUME NEW e \in DOMAIN effects
         PROVE  (InOrder(e) /\ NotBegun(e) /\ OneDelivery(e) /\ Confirmed(e))'
    <2>1. InOrder(e) /\ NotBegun(e) /\ OneDelivery(e) /\ Confirmed(e)
      BY DEF EffectsInvariant
    <2>2. InOrder(e)'
      BY <1>7, <2>1 DEF InOrder
    <2>3. Applied(e)' <=> Applied(e)
      BY <1>7 DEF Applied
    <2>4. CASE e = g
      <3>1. NotBegun(e)'
        BY <1>7, <1>12, <2>4 DEF NotBegun
      <3>2. \A v \in Workers : Delivers(v, e)' => v = w
        BY <1>6, <1>10, <2>1, <2>4 DEF OneDelivery
      <3>3. \A p, q \in inFlight' : p[1] = e /\ q[1] = e => p = q
        BY <1>3, <1>8, <1>12, <2>4 DEF Requested
      <3>4. OneDelivery(e)'
        BY <1>3, <1>6, <1>7, <1>12, <1>14, <2>1, <2>3, <2>4, <3>2, <3>3 DEF OneDelivery
      <3>5. ASSUME NEW v \in Workers, On(v, e)'
            PROVE  claims'[v].result # "confirmed"
        BY <1>6, <1>13, <2>1, <2>4, <3>5 DEF Confirmed
      <3>6. Confirmed(e)'
        BY <1>7, <1>14, <2>4, <3>5 DEF Confirmed, Final
      <3> QED BY <2>2, <3>1, <3>4, <3>6
    <2>5. CASE e # g
      <3>1. Requested(e)' <=> Requested(e)
        BY <1>3, <1>8, <2>5 DEF Requested
      <3>2. NotBegun(e)'
        BY <1>6, <1>7, <2>1, <2>3, <3>1 DEF NotBegun
      <3>3. \A v \in Workers : On(v, e) => v # w
        BY <1>1, <2>5 DEF On
      <3>4. \A p, q \in inFlight' : p[1] = e /\ q[1] = e => p = q
        BY <1>3, <1>8, <2>1, <2>5 DEF OneDelivery
      <3>5. OneDelivery(e)'
        <4>1. \A v \in Workers : Delivers(v, e) => claims'[v] = claims[v]
          BY <1>6, <3>3 DEF Delivers
        <4> QED BY <1>6, <1>7, <2>1, <2>3, <3>1, <3>4, <4>1 DEF OneDelivery
      <3>6. Happened(e) => Happened(e)'
        BY <1>6, <1>7, <3>1 DEF Happened
      <3>7. Confirmed(e)'
        BY <1>6, <1>7, <2>1, <3>3, <3>6 DEF Confirmed
      <3> QED BY <2>2, <3>2, <3>5, <3>7
    <2> QED BY <2>4, <2>5
  <1> QED BY <1>7, <1>9, <1>15 DEF EffectsInvariant

\* Fewer sessions are left: what was confirmed stays true.
LEMMA RevokeKeeps ==
    ASSUME EffectsInvariant, NEW w \in Workers, RevokeSessions(w)
    PROVE  EffectsInvariant'
  <1>1. claims[w].at = "calling" /\ claims[w].task = "dispatch" /\ At(w, "revoked", "none")
        /\ UNCHANGED <<userVars, outboxVars, inFlight, shown>>
    BY DEF RevokeSessions, Delivering
  <1>2. Moves(w, "revoked", "none")
    BY <1>1 DEF Moves
  <1>3. "revoked" \in Ats /\ "none" \in Results
    BY DEF Ats, Results
  <1>4. /\ claims' \in [Workers -> ClaimRow]
        /\ claims'[w].at = "revoked" /\ claims'[w].result = "none"
        /\ \A v \in Workers \ {w} : claims'[v] = claims[v]
        /\ \A v \in Workers : ClaimRight(claims'[v], effects)
        /\ \A v \in Workers, e \in DOMAIN effects :
              /\ On(v, e)' <=> On(v, e)
              /\ Delivers(v, e)' <=> Delivers(v, e)
        /\ \A e \in DOMAIN effects : MaySend(e)' => MaySend(e)
    BY <1>2, <1>3, MovesClaim
  <1>5. /\ UNCHANGED userVars /\ operations' = operations /\ effects' = effects
        /\ lapsed' = lapsed /\ shown' = shown /\ inFlight' = inFlight
    BY <1>1 DEF outboxVars
  <1>6. \E u : \E left \in SUBSET sessions[u] : sessions' = [sessions EXCEPT ![u] = left]
    BY DEF RevokeSessions
  <1>7. sessions \in [Users -> SUBSET Nat]
    BY DEF EffectsInvariant, Types
  <1>8. /\ sessions' \in [Users -> SUBSET Nat]
        /\ \A x \in Users : sessions'[x] \subseteq sessions[x]
    BY <1>6, <1>7
  <1>9. Types' /\ ShownRight'
    BY <1>4, <1>5, <1>8 DEF EffectsInvariant, Types, OutboxTypes, ShownRight, userVars
  <1>10. ASSUME NEW e \in DOMAIN effects
         PROVE  (InOrder(e) /\ NotBegun(e) /\ OneDelivery(e) /\ Confirmed(e))'
    <2>1. InOrder(e) /\ NotBegun(e) /\ OneDelivery(e) /\ Confirmed(e)
      BY DEF EffectsInvariant
    <2>2. InOrder(e)'
      BY <1>5, <2>1 DEF InOrder
    <2>3. (Requested(e)' <=> Requested(e)) /\ (Applied(e)' <=> Applied(e))
      BY <1>5 DEF Requested, Applied
    <2>4. NotBegun(e)'
      BY <1>4, <1>5, <2>1, <2>3 DEF NotBegun
    <2>5. OneDelivery(e)'
      <3>1. \A v \in Workers :
               claims'[v].at = "calling" \/ claims'[v].result = "not_sent" =>
                  claims'[v] = claims[v]
        BY <1>4
      <3>2. \A r, q \in inFlight' : r[1] = e /\ q[1] = e => r = q
        BY <1>5, <2>1 DEF OneDelivery
      <3> QED BY <1>4, <1>5, <2>1, <2>3, <3>1, <3>2 DEF OneDelivery
    <2>6. effects[e].user \in Users
      BY EffectsDomain DEF EffectsInvariant, Types, EffectRow
    <2>7. Happened(e) => Happened(e)'
      BY <1>4, <1>5, <1>8, <2>3, <2>6 DEF Happened
    <2>8. Confirmed(e)'
      BY <1>4, <1>5, <2>1, <2>7 DEF Confirmed
    <2> QED BY <2>2, <2>4, <2>5, <2>8
  <1> QED BY <1>5, <1>9, <1>10 DEF EffectsInvariant

\* A worker that stops leaves what it had claimed to the end of the lease.
LEMMA StopKeeps ==
    ASSUME EffectsInvariant, NEW w \in Workers,
           claims' = [claims EXCEPT ![w] = Idle],
           UNCHANGED <<userVars, outboxVars, providerVars>>
    PROVE  EffectsInvariant'
  <1>1. /\ UNCHANGED userVars /\ operations' = operations /\ effects' = effects
        /\ lapsed' = lapsed /\ shown' = shown /\ inFlight' = inFlight
        /\ sessions' = sessions
    BY DEF outboxVars, providerVars
  <1>2. claims \in [Workers -> ClaimRow] /\ Idle \in ClaimRow
    BY DEF EffectsInvariant, Types, Idle, ClaimRow
  <1>3. /\ claims' \in [Workers -> ClaimRow] /\ claims'[w] = Idle
        /\ \A v \in Workers \ {w} : claims'[v] = claims[v]
    BY <1>2
  <1>4. Types' /\ ShownRight'
    <2>1. ClaimRight(Idle, effects)
      BY DEF ClaimRight, Idle
    <2>2. \A v \in Workers : ClaimRight(claims'[v], effects')
      BY <1>1, <1>3, <2>1 DEF EffectsInvariant, Types
    <2> QED BY <1>1, <1>3, <2>2 DEF EffectsInvariant, Types, OutboxTypes, ShownRight, userVars
  <1>5. ASSUME NEW e \in DOMAIN effects
        PROVE  (InOrder(e) /\ NotBegun(e) /\ OneDelivery(e) /\ Confirmed(e))'
    <2>1. InOrder(e) /\ NotBegun(e) /\ OneDelivery(e) /\ Confirmed(e)
      BY DEF EffectsInvariant
    <2>2. \A v \in Workers : On(v, e)' => On(v, e) /\ claims'[v] = claims[v]
      BY <1>3 DEF On, Idle
    <2>3. \A v \in Workers : Delivers(v, e)' => Delivers(v, e)
      BY <2>2 DEF Delivers
    <2>4. (Requested(e)' <=> Requested(e)) /\ (Applied(e)' <=> Applied(e))
      BY <1>1 DEF Requested, Applied
    <2>5. InOrder(e)' /\ NotBegun(e)'
      BY <1>1, <2>1, <2>2, <2>4 DEF InOrder, NotBegun
    <2>6. OneDelivery(e)'
      BY <1>1, <2>1, <2>2, <2>3, <2>4 DEF OneDelivery, Delivers
    <2>7. Happened(e) => Happened(e)'
      BY <1>1, <2>2, <2>3, <2>4 DEF Happened, MaySend, Delivers
    <2>8. Confirmed(e)'
      BY <1>1, <2>1, <2>2, <2>7 DEF Confirmed
    <2> QED BY <2>5, <2>6, <2>8
  <1> QED BY <1>1, <1>4, <1>5 DEF EffectsInvariant

\* A report under a current claim settles the effect: what could not be sent
\* may be tried again, since nothing of it is left at the provider.
LEMMA FinishKeeps ==
    ASSUME EffectsInvariant, NEW w \in Workers, Finish(w)
    PROVE  EffectsInvariant'
  <1>1. PICK f : f = claims[w].effect
    OBVIOUS
  <1>2. claims[w].at = "finishing" /\ UNCHANGED <<userVars, lapsed, providerVars>>
        /\ claims' = [claims EXCEPT ![w] = Idle]
    BY DEF Finish
  <1>3. CASE ~Current(w)
    <2>1. UNCHANGED outboxVars
      BY <1>2, <1>3 DEF Finish, outboxVars
    <2> QED BY <1>2, <2>1, StopKeeps
  <1>4. CASE Current(w)
    <2> DEFINE result == claims[w].result
               state == NextState(f, result)
    <2>1. PICK s : s = state
      OBVIOUS
    <2>2. /\ effects' = Moved(effects, {f}, s)
          /\ operations' = Refreshed(effects', {f})
      BY <1>1, <1>4, <2>1 DEF Finish
    <2>3. /\ Len(effects) \in Nat /\ DOMAIN effects = 1..Len(effects)
          /\ \A e \in DOMAIN effects : effects[e] \in EffectRow /\ RowRight(effects[e], operations)
          /\ effects \in Seq(EffectRow)
      BY EffectsDomain DEF EffectsInvariant, Types, OutboxTypes
    <2>4. f \in DOMAIN effects /\ On(w, f)
          /\ (claims[w].task # "dispatch" => claims[w].task = "reconcile" /\ result # "not_sent")
      BY <1>1, <1>2 DEF EffectsInvariant, Types, ClaimRight, On, ClaimRow
    <2>5. /\ effects[f].state \in Claimed
          /\ claims[w].task = "dispatch" => effects[f].state = "dispatching"
      BY <1>1, <1>4 DEF Current, Claimed
    <2>6. /\ s \in {"confirmed", "retryable", "needs_reconciliation"}
          /\ s = "confirmed" => result = "confirmed"
          /\ s = "retryable" => result = "not_sent" /\ effects[f].attempts < MaxAttempts
      BY <2>1 DEF NextState
    <2> HIDE DEF state
    <2>7. s \in States
      BY <2>6 DEF States, Final
    <2>8. effects \in [1..Len(effects) -> EffectRow]
      BY <2>3
    <2>9. /\ effects' \in [1..Len(effects) -> EffectRow]
          /\ \A e \in 1..Len(effects) :
                /\ SameEffect(effects'[e], effects[e])
                /\ effects'[e].fence = effects[e].fence
                /\ effects'[e].attempts = effects[e].attempts
                /\ e = f => effects'[e].state = s
                /\ e # f => effects'[e] = effects[e]
      BY <2>2, <2>3, <2>7, <2>8, MovedRows
    <2>10. \A e \in DOMAIN effects : RowRight(effects'[e], operations)
      <3> SUFFICES ASSUME NEW e \in DOMAIN effects PROVE RowRight(effects'[e], operations)
        OBVIOUS
      <3>1. CASE e = f
        BY <2>3, <2>6, <2>9, <3>1 DEF RowRight, SameEffect
      <3>2. CASE e # f
        BY <2>3, <2>9, <3>2
      <3> QED BY <3>1, <3>2
    <2>11. SameQueue
      <3>1. OutboxTypes /\ lapsed' \subseteq lapsed
        BY <1>2 DEF EffectsInvariant, Types
      <3> QED BY <2>2, <2>3, <2>9, <2>10, <3>1, QueueKept
    <2>12. /\ claims' \in [Workers -> ClaimRow] /\ claims'[w] = Idle
           /\ \A v \in Workers \ {w} : claims'[v] = claims[v]
           /\ \A v \in Workers : claims'[v] = claims[v] \/ ClaimRight(claims'[v], effects)
      <3>1. claims \in [Workers -> ClaimRow] /\ Idle \in ClaimRow
        BY DEF EffectsInvariant, Types, Idle, ClaimRow
      <3>2. ClaimRight(Idle, effects)
        BY DEF ClaimRight, Idle
      <3> QED BY <1>2, <3>1, <3>2
    <2>13. UNCHANGED <<userVars, providerVars>>
      BY <1>2
    <2>14. Types' /\ ShownRight'
      BY <2>11, <2>12, <2>13, SameQueueKeeps
    <2>15. FinalStays
      BY <2>3, <2>5, <2>9 DEF FinalStays, Final, Claimed
    <2>16. ASSUME NEW e \in DOMAIN effects \ {f}
           PROVE  (InOrder(e) /\ NotBegun(e) /\ OneDelivery(e) /\ Confirmed(e))'
      <3>1. Sweeps(e)
        BY <2>3, <2>9 DEF Sweeps
      <3>2. \A v \in Workers : claims'[v] = claims[v] \/ ~On(v, e)'
        BY <2>12 DEF On, Idle
      <3> QED BY <2>11, <2>13, <2>15, <3>1, <3>2, SweptEffect
    <2>17. InOrder(f) /\ NotBegun(f) /\ OneDelivery(f) /\ Confirmed(f)
      BY <2>4 DEF EffectsInvariant
    <2>18. /\ inFlight' = inFlight /\ shown' = shown /\ sessions' = sessions
           /\ effects'[f].user = effects[f].user /\ effects'[f].kind = effects[f].kind
           /\ effects'[f].state = s
      BY <2>3, <2>4, <2>9, <2>13 DEF providerVars, SameEffect
    <2>19. \A v \in Workers : On(v, f)' => On(v, f) /\ claims'[v] = claims[v] /\ v # w
      BY <2>12 DEF On, Idle
    <2>20. \A v \in Workers : Delivers(v, f)' => Delivers(v, f)
      BY <2>19 DEF Delivers
    <2>21. (Requested(f)' <=> Requested(f)) /\ (Applied(f)' <=> Applied(f))
      BY <2>18 DEF Requested, Applied
    <2>22. InOrder(f)'
      <3>1. effects[f].state # "pending"
        BY <2>5 DEF Claimed
      <3>2. \A p \in 1..(f - 1) : p \in DOMAIN effects
        BY <2>3, <2>4
      <3>3. \A p \in DOMAIN effects : effects'[p].user = effects[p].user
        BY <2>11 DEF SameQueue, SameEffect
      <3> QED BY <2>4, <2>15, <2>17, <3>1, <3>2, <3>3 DEF InOrder, FinalStays
    <2>23. NotBegun(f)'
      <3> SUFFICES ASSUME effects'[f].state \in Waiting
                   PROVE  /\ \A v \in Workers : ~On(v, f)'
                          /\ ~Requested(f)' /\ ~Applied(f)'
        BY DEF NotBegun
      <3>1. s = "retryable"
        BY <2>6, <2>18 DEF Waiting
      <3>2. result = "not_sent" /\ claims[w].task = "dispatch" /\ Delivers(w, f)
            /\ effects[f].state = "dispatching"
        BY <2>4, <2>5, <2>6, <3>1 DEF Delivers
      <3>3. ~Requested(f) /\ ~Applied(f)
        BY <2>17, <3>2 DEF OneDelivery
      <3>4. \A v \in Workers : On(v, f) => v = w
        BY <2>17, <3>2 DEF OneDelivery
      <3> QED BY <2>19, <2>21, <3>3, <3>4
    <2>24. OneDelivery(f)'
      <3>1. effects'[f].state # "dispatching"
        BY <2>6, <2>18
      <3>2. ASSUME Requested(f)
            PROVE  effects'[f].state \notin Final
        <4>1. effects[f].kind \in Mirrors
          BY <2>17, <3>2 DEF OneDelivery
        <4>2. ~Happened(f)
          BY <3>2, <4>1 DEF Happened, Mirrors
        <4>3. s # "confirmed"
          BY <2>4, <2>6, <2>17, <4>2 DEF Confirmed
        <4> QED BY <2>6, <2>18, <4>3 DEF Final
      <3> QED BY <2>17, <2>18, <2>19, <2>20, <2>21, <3>1, <3>2 DEF OneDelivery, Delivers
    <2>25. Confirmed(f)'
      <3>1. Happened(f) => Happened(f)'
        BY <2>18, <2>19, <2>20, <2>21 DEF Happened, MaySend, Delivers
      <3>2. s = "confirmed" => Happened(f)
        BY <2>4, <2>6, <2>17 DEF Confirmed
      <3> QED BY <2>17, <2>18, <2>19, <3>1, <3>2 DEF Confirmed
    <2> QED BY <2>11, <2>14, <2>16, <2>22, <2>23, <2>24, <2>25
            DEF EffectsInvariant, SameQueue
  <1> QED BY <1>3, <1>4

-----------------------------------------------------------------------------
(* Leases and the provider *)

LEMMA LapseKeeps ==
    ASSUME EffectsInvariant, NEW f \in DOMAIN effects, Lapse(f)
    PROVE  EffectsInvariant'
  <1>1. /\ UNCHANGED userVars /\ operations' = operations /\ effects' = effects
        /\ claims' = claims /\ UNCHANGED providerVars
        /\ lapsed' = lapsed \cup {f}
    BY DEF Lapse
  <1>2. inFlight' = inFlight /\ shown' = shown /\ sessions' = sessions
    BY <1>1 DEF providerVars
  <1>3. Types'
    BY <1>1, <1>2 DEF EffectsInvariant, Types, OutboxTypes, userVars
  <1>4. ShownRight'
    BY <1>1, <1>2 DEF EffectsInvariant, ShownRight
  <1>5. ASSUME NEW e \in DOMAIN effects
        PROVE  (InOrder(e) /\ NotBegun(e) /\ OneDelivery(e) /\ Confirmed(e))'
    BY <1>1, <1>2 DEF EffectsInvariant, InOrder, NotBegun, OneDelivery, Confirmed,
                      Happened, MaySend, Delivers, On, Requested, Applied
  <1> QED BY <1>1, <1>3, <1>4, <1>5 DEF EffectsInvariant

\* A sign-in begins after everything that was queued.
LEMMA SignInKeeps ==
    ASSUME EffectsInvariant, NEW u \in Users, SignIn(u)
    PROVE  EffectsInvariant'
  <1>1. /\ UNCHANGED userVars /\ operations' = operations /\ effects' = effects
        /\ claims' = claims /\ lapsed' = lapsed /\ inFlight' = inFlight
        /\ shown' = shown
        /\ sessions' = [sessions EXCEPT ![u] = @ \cup {Len(effects)}]
    BY DEF SignIn, outboxVars
  <1>2. /\ Len(effects) \in Nat /\ DOMAIN effects = 1..Len(effects)
        /\ sessions \in [Users -> SUBSET Nat]
    BY EffectsDomain, SMTT(60) DEF EffectsInvariant, Types
  <1>3. /\ sessions' \in [Users -> SUBSET Nat]
        /\ \A x \in Users : \A s \in sessions'[x] : s \in sessions[x] \/ s = Len(effects)
    BY <1>1, <1>2
  <1>4. Types'
    BY <1>1, <1>3 DEF EffectsInvariant, Types, OutboxTypes, userVars
  <1>5. ShownRight'
    BY <1>1 DEF EffectsInvariant, ShownRight
  <1>6. ASSUME NEW e \in DOMAIN effects
        PROVE  (InOrder(e) /\ NotBegun(e) /\ OneDelivery(e) /\ Confirmed(e))'
    <2>1. InOrder(e) /\ NotBegun(e) /\ OneDelivery(e) /\ Confirmed(e)
      BY DEF EffectsInvariant
    <2>2. InOrder(e)' /\ NotBegun(e)' /\ OneDelivery(e)'
      BY <1>1, <2>1 DEF InOrder, NotBegun, OneDelivery, Delivers, On, Requested, Applied
    <2>3. effects[e].user \in Users /\ e <= Len(effects) /\ e \in Nat
      BY <1>2, EffectsDomain, SMTT(60) DEF EffectsInvariant, Types, EffectRow
    <2>4. Happened(e) => Happened(e)'
      BY <1>1, <1>2, <1>3, <2>3, Zenon DEF Happened, MaySend, Delivers, On, Requested
    <2>5. Confirmed(e)'
      BY <1>1, <2>1, <2>4 DEF Confirmed, On
    <2> QED BY <2>2, <2>5
  <1> QED BY <1>1, <1>4, <1>5, <1>6 DEF EffectsInvariant

\* A request that is lost or applied is no longer on its way.
LEMMA LoseKeeps ==
    ASSUME EffectsInvariant, NEW r \in inFlight, Lose(r)
    PROVE  EffectsInvariant'
  <1>1. /\ UNCHANGED userVars /\ operations' = operations /\ effects' = effects
        /\ claims' = claims /\ lapsed' = lapsed /\ inFlight' \subseteq inFlight
        /\ shown' = shown /\ sessions' = sessions
    BY DEF Lose, outboxVars
  <1>2. Types'
    BY <1>1 DEF EffectsInvariant, Types, OutboxTypes, userVars
  <1>3. ShownRight'
    BY <1>1 DEF EffectsInvariant, ShownRight
  <1>4. ASSUME NEW e \in DOMAIN effects
        PROVE  (InOrder(e) /\ NotBegun(e) /\ OneDelivery(e) /\ Confirmed(e))'
    <2>1. InOrder(e) /\ NotBegun(e) /\ OneDelivery(e) /\ Confirmed(e)
      BY DEF EffectsInvariant
    <2>2. Requested(e)' => Requested(e)
      BY <1>1 DEF Requested
    <2>3. InOrder(e)' /\ NotBegun(e)'
      BY <1>1, <2>1, <2>2 DEF InOrder, NotBegun, On, Applied
    <2>4. OneDelivery(e)'
      <3>1. \A p, q \in inFlight' : p[1] = e /\ q[1] = e => p = q
        BY <1>1, <2>1 DEF OneDelivery
      <3> QED BY <1>1, <2>1, <2>2, <3>1 DEF OneDelivery, Delivers, On, Applied
    <2>5. Confirmed(e)'
      BY <1>1, <2>1, <2>2 DEF Confirmed, Happened, MaySend, Delivers, On
    <2> QED BY <2>3, <2>4, <2>5
  <1> QED BY <1>1, <1>2, <1>3, <1>4 DEF EffectsInvariant

\* What a late request overwrites is of an earlier effect: a later one of the
\* same user would not have been started before this one was resolved.
LEMMA AppliesForward ==
    ASSUME EffectsInvariant, NEW r \in inFlight, NEW f, f = r[1]
    PROVE  /\ f \in DOMAIN effects /\ f \in Nat
           /\ effects[f].user \in Users /\ effects[f].kind \in Mirrors
           /\ shown[effects[f].user][effects[f].kind] <= f
  <1>1. /\ Len(effects) \in Nat /\ DOMAIN effects = 1..Len(effects)
        /\ f \in DOMAIN effects /\ effects[f] \in EffectRow
    BY EffectsDomain DEF EffectsInvariant, Types
  <1>2. Requested(f) /\ OneDelivery(f) /\ f \in Nat
    BY <1>1 DEF Requested, EffectsInvariant
  <1>3. effects[f].kind \in Mirrors /\ effects[f].state \notin Final
    BY <1>2 DEF OneDelivery
  <1>4. PICK u \in Users, k \in Mirrors : u = effects[f].user /\ k = effects[f].kind
    BY <1>1, <1>3 DEF EffectRow
  <1>5. PICK g \in Nat : g = shown[u][k]
    BY DEF EffectsInvariant, Types
  <1>6. ASSUME g > f
        PROVE  FALSE
    <2>1. /\ g \in DOMAIN effects /\ effects[g].user = u
      BY <1>2, <1>5, <1>6 DEF EffectsInvariant, ShownRight
    <2>2. Applied(g)
      BY <1>5 DEF Applied
    <2>3. effects[g].state # "pending"
      BY <2>1, <2>2 DEF EffectsInvariant, NotBegun, Waiting
    <2>4. f \in 1..(g - 1)
      BY <1>1, <1>6
    <2>5. effects[f].state \in Final
      BY <1>4, <2>1, <2>3, <2>4 DEF EffectsInvariant, InOrder
    <2> QED BY <1>3, <2>5
  <1> QED BY <1>1, <1>2, <1>3, <1>4, <1>5, <1>6 DEF EffectRow

LEMMA ApplyKeeps ==
    ASSUME EffectsInvariant, NEW r \in inFlight, Apply(r)
    PROVE  EffectsInvariant' /\ ProviderNeverGoesBack
  <1>1. PICK f : f = r[1]
    OBVIOUS
  <1>2. /\ f \in DOMAIN effects /\ f \in Nat
        /\ effects[f].user \in Users /\ effects[f].kind \in Mirrors
        /\ shown[effects[f].user][effects[f].kind] <= f
    BY <1>1, AppliesForward
  <1>3. PICK u \in Users, k \in Mirrors : u = effects[f].user /\ k = effects[f].kind
    BY <1>2
  <1>4. /\ UNCHANGED userVars /\ operations' = operations /\ effects' = effects
        /\ claims' = claims /\ lapsed' = lapsed /\ inFlight' = inFlight \ {r}
        /\ shown' = [shown EXCEPT ![u][k] = f] /\ sessions' = sessions
    BY <1>1, <1>3 DEF Apply, outboxVars
  <1>5. shown \in [Users -> [Mirrors -> Nat]]
    BY DEF EffectsInvariant, Types
  <1>6. /\ shown' \in [Users -> [Mirrors -> Nat]] /\ shown'[u][k] = f
        /\ \A x \in Users, m \in Mirrors :
              shown'[x][m] = shown[x][m] \/ (x = u /\ m = k)
    BY <1>2, <1>4, <1>5
  <1>7. \A x \in Users, m \in Mirrors : shown'[x][m] >= shown[x][m]
    BY <1>2, <1>3, <1>5, <1>6
  <1>8. Types'
    BY <1>4, <1>6 DEF EffectsInvariant, Types, OutboxTypes, userVars
  <1>9. ShownRight'
    BY <1>2, <1>3, <1>4, <1>6 DEF EffectsInvariant, ShownRight
  <1>10. /\ Requested(f) /\ NotBegun(f) /\ OneDelivery(f)
         /\ effects[f].state \notin Waiting
    BY <1>1, <1>2 DEF Requested, EffectsInvariant, NotBegun
  <1>11. ~Requested(f)'
    BY <1>1, <1>4, <1>10 DEF Requested, OneDelivery
  <1>12. ASSUME NEW e \in DOMAIN effects
         PROVE  (InOrder(e) /\ NotBegun(e) /\ OneDelivery(e) /\ Confirmed(e))'
    <2>1. InOrder(e) /\ NotBegun(e) /\ OneDelivery(e) /\ Confirmed(e)
      BY DEF EffectsInvariant
    <2>2. Requested(e)' => Requested(e)
      BY <1>4 DEF Requested
    <2>3. e # f => (Applied(e)' => Applied(e))
      BY <1>6 DEF Applied
    <2>4. InOrder(e)'
      BY <1>4, <2>1 DEF InOrder
    <2>5. NotBegun(e)'
      BY <1>4, <1>10, <2>1, <2>2, <2>3 DEF NotBegun, On
    <2>6. OneDelivery(e)'
      <3>1. \A p, q \in inFlight' : p[1] = e /\ q[1] = e => p = q
        BY <1>4, <2>1 DEF OneDelivery
      <3>2. CASE e = f
        BY <1>4, <1>10, <1>11, <2>1, <3>1, <3>2 DEF OneDelivery, Delivers, On
      <3>3. CASE e # f
        BY <1>4, <2>1, <2>2, <2>3, <3>1, <3>3 DEF OneDelivery, Delivers, On
      <3> QED BY <3>2, <3>3
    <2>7. Happened(e) => Happened(e)'
      <3>1. effects[e] \in EffectRow /\ e \in Nat
        BY EffectsDomain DEF EffectsInvariant, Types
      <3>2. effects[e].kind # "revoke_sessions" => effects[e].kind \in Mirrors
        BY <3>1 DEF EffectRow, Kinds
      <3>3. effects[e].kind \in Mirrors =>
               (shown[effects[e].user][effects[e].kind] >= e =>
                shown'[effects[e].user][effects[e].kind] >= e)
        BY <1>5, <1>6, <1>7, <3>1 DEF EffectRow
      <3>4. MaySend(e)' => MaySend(e)
        BY <1>4 DEF MaySend, Delivers, On
      <3> QED BY <1>4, <2>2, <3>2, <3>3, <3>4 DEF Happened
    <2>8. Confirmed(e)'
      BY <1>4, <2>1, <2>7 DEF Confirmed, On
    <2> QED BY <2>4, <2>5, <2>6, <2>8
  <1> QED BY <1>4, <1>7, <1>8, <1>9, <1>12 DEF EffectsInvariant, ProviderNeverGoesBack

-----------------------------------------------------------------------------
(* Every step *)

LEMMA InitInvariant ==
    ASSUME Init
    PROVE  EffectsInvariant
  <1>1. /\ effects = <<>> /\ operations = <<>> /\ lapsed = {} /\ inFlight = {}
        /\ claims = [w \in Workers |-> Idle]
        /\ active = [u \in Users |-> TRUE] /\ version = [u \in Users |-> 1]
        /\ shown = [u \in Users |-> [k \in Mirrors |-> 0]]
        /\ sessions = [u \in Users |-> {0}]
    BY DEF Init
  <1>2. DOMAIN effects = {} /\ Len(effects) = 0
    BY <1>1
  <1>3. OutboxTypes
    BY <1>1, <1>2, BoundsAssumption DEF OutboxTypes
  <1>4. claims \in [Workers -> ClaimRow] /\ \A w \in Workers : ClaimRight(claims[w], effects)
    BY <1>1 DEF Idle, ClaimRow, ClaimRight
  <1>5. Types
    BY <1>1, <1>3, <1>4 DEF Types
  <1>6. ShownRight
    BY <1>1 DEF ShownRight
  <1> QED BY <1>2, <1>5, <1>6 DEF EffectsInvariant

LEMMA UnchangedKeeps ==
    ASSUME EffectsInvariant, UNCHANGED vars
    PROVE  EffectsInvariant'
  <1>1. /\ active' = active /\ version' = version /\ operations' = operations
        /\ effects' = effects /\ lapsed' = lapsed /\ claims' = claims
        /\ inFlight' = inFlight /\ shown' = shown /\ sessions' = sessions
    BY DEF vars, userVars, outboxVars, providerVars
  <1>2. Types' /\ ShownRight'
    BY <1>1 DEF EffectsInvariant, Types, OutboxTypes, ShownRight
  <1>3. ASSUME NEW e \in DOMAIN effects
        PROVE  (InOrder(e) /\ NotBegun(e) /\ OneDelivery(e) /\ Confirmed(e))'
    BY <1>1 DEF EffectsInvariant, InOrder, NotBegun, OneDelivery, Confirmed,
                Happened, MaySend, Delivers, On, Requested, Applied
  <1> QED BY <1>1, <1>2, <1>3 DEF EffectsInvariant

LEMMA WorkerKeeps ==
    ASSUME EffectsInvariant, NEW w \in Workers, WorkerStep(w)
    PROVE  EffectsInvariant' /\ UNCHANGED shown
  <1>1. Types
    BY DEF EffectsInvariant
  <1>2. ASSUME Claim(w)
        PROVE  EffectsInvariant' /\ UNCHANGED shown
    <2>1. UNCHANGED shown
      BY <1>2 DEF Claim, providerVars
    <2>2. SweepStep \/ \E f \in DOMAIN effects : TakeStep(w, f, "dispatch")
      BY <1>1, <1>2, ClaimStep
    <2> QED BY <2>1, <2>2, SweepKeeps, TakeKeeps
  <1>3. ASSUME NEW f \in DOMAIN effects, Reconcile(w, f)
        PROVE  EffectsInvariant' /\ UNCHANGED shown
    <2>1. UNCHANGED shown
      BY <1>3 DEF Reconcile, providerVars
    <2>2. TakeStep(w, f, "reconcile")
      BY <1>1, <1>3, ReconcileStep
    <2> QED BY <2>1, <2>2, TakeKeeps
  <1>4. ASSUME NotSent(w) \/ SendMirror(w) \/ Answered(w) \/ RevokeSessions(w)
        PROVE  EffectsInvariant' /\ UNCHANGED shown
    <2>1. UNCHANGED shown
      BY <1>4 DEF NotSent, SendMirror, Answered, RevokeSessions, providerVars
    <2> QED BY <1>4, <2>1, NotSentKeeps, SendKeeps, AnsweredKeeps, RevokeKeeps
  <1>5. ASSUME Read(w) \/ TimeOut(w) \/ Finish(w)
        PROVE  EffectsInvariant' /\ UNCHANGED shown
    <2>1. UNCHANGED shown
      BY <1>5 DEF Read, TimeOut, Finish, providerVars
    <2> QED BY <1>5, <2>1, ReadKeeps, TimeOutKeeps, FinishKeeps
  <1>6. ASSUME Stop(w)
        PROVE  EffectsInvariant' /\ UNCHANGED shown
    <2>1. /\ claims' = [claims EXCEPT ![w] = Idle]
          /\ UNCHANGED <<userVars, outboxVars, providerVars>>
      BY <1>6 DEF Stop
    <2> QED BY <2>1, StopKeeps DEF providerVars
  <1> QED BY <1>2, <1>3, <1>4, <1>5, <1>6 DEF WorkerStep

LEMMA EveryStepKeeps ==
    ASSUME EffectsInvariant, [Next]_vars
    PROVE  EffectsInvariant' /\ ProviderNeverGoesBack
  <1>1. Types /\ active \in [Users -> BOOLEAN] /\ version \in [Users -> Nat \ {0}]
    BY DEF EffectsInvariant, Types
  <1>2. UNCHANGED shown => ProviderNeverGoesBack
    BY <1>1 DEF Types, ProviderNeverGoesBack
  <1>3. ASSUME UNCHANGED vars
        PROVE  EffectsInvariant' /\ ProviderNeverGoesBack
    BY <1>2, <1>3, UnchangedKeeps DEF vars, providerVars
  <1>4. ASSUME NEW u \in Users, SetAccess(u)
        PROVE  EffectsInvariant' /\ ProviderNeverGoesBack
    <2>1. QueueStep /\ active' \in [Users -> BOOLEAN] /\ version' \in [Users -> Nat \ {0}]
      BY <1>1, <1>4, SetAccessStep
    <2> QED BY <1>2, <2>1, QueueKeeps DEF QueueStep, providerVars
  <1>5. ASSUME NEW o \in Users, NEW s \in Users, Rename(o, s)
        PROVE  EffectsInvariant' /\ ProviderNeverGoesBack
    <2>1. QueueStep /\ active' = active /\ version' = version
      BY <1>1, <1>5, RenameStep DEF userVars
    <2> QED BY <1>1, <1>2, <2>1, QueueKeeps DEF QueueStep, providerVars
  <1>6. ASSUME NEW u \in Users, SignIn(u)
        PROVE  EffectsInvariant' /\ ProviderNeverGoesBack
    BY <1>2, <1>6, SignInKeeps DEF SignIn
  <1>7. ASSUME NEW w \in Workers, WorkerStep(w)
        PROVE  EffectsInvariant' /\ ProviderNeverGoesBack
    BY <1>2, <1>7, WorkerKeeps
  <1>8. ASSUME NEW e \in DOMAIN effects, Lapse(e)
        PROVE  EffectsInvariant' /\ ProviderNeverGoesBack
    BY <1>2, <1>8, LapseKeeps DEF Lapse, providerVars
  <1>9. ASSUME NEW r \in inFlight, Apply(r) \/ Lose(r)
        PROVE  EffectsInvariant' /\ ProviderNeverGoesBack
    BY <1>2, <1>9, ApplyKeeps, LoseKeeps DEF Lose
  <1>10. ASSUME Query
         PROVE  EffectsInvariant' /\ ProviderNeverGoesBack
    BY <1>1, <1>2, <1>10, QueryStep, SweepKeeps DEF Query, providerVars
  <1> QED BY <1>3, <1>4, <1>5, <1>6, <1>7, <1>8, <1>9, <1>10 DEF Next

-----------------------------------------------------------------------------
(* Theorems *)

\* The inductive invariant holds of every run of the outbox.
THEOREM OutboxInvariant == Spec => []EffectsInvariant
  <1>1. Init => EffectsInvariant
    BY InitInvariant
  <1>2. EffectsInvariant /\ [Next]_vars => EffectsInvariant'
    BY EveryStepKeeps
  <1> QED BY <1>1, <1>2, PTL DEF Spec

\* claim starts an effect of a user only when everything queued before it for
\* that user is resolved, and it stays so: whatever is not pending has all of
\* its predecessors confirmed or superseded, however claims, expiries, late
\* reports and reconciliations interleave.
THEOREM EffectsInOrder == Spec => []StartedInOrder
  <1>1. EffectsInvariant => StartedInOrder
    <2> SUFFICES ASSUME EffectsInvariant PROVE StartedInOrder
      OBVIOUS
    <2>1. /\ Len(effects) \in Nat /\ DOMAIN effects = 1..Len(effects)
          /\ DOMAIN operations = 1..Len(operations)
          /\ \A e \in DOMAIN effects : effects[e] \in EffectRow
                                       /\ RowRight(effects[e], operations)
      BY EffectsDomain DEF EffectsInvariant, Types, OutboxTypes
    <2>2. \A n \in DOMAIN operations : operations[n] \in OperationStates
      <3>1. operations \in Seq(OperationStates)
        BY DEF EffectsInvariant, Types, OutboxTypes
      <3> QED BY <2>1, <3>1, ElementOfSeq
    <2>3. \A r \in inFlight : r[1] \in DOMAIN effects /\ effects[r[1]].kind \in Mirrors
      <3> SUFFICES ASSUME NEW r \in inFlight
                   PROVE  r[1] \in DOMAIN effects /\ effects[r[1]].kind \in Mirrors
        OBVIOUS
      <3>1. PICK e : e = r[1]
        OBVIOUS
      <3> QED BY <3>1, AppliesForward
    <2>4. \A u \in Users, k \in Mirrors : shown[u][k] \in 0..Len(effects)
      BY <2>1 DEF EffectsInvariant, Types, ShownRight
    <2>5. EffectsTypeOK
      BY <2>1, <2>2, <2>3, <2>4
         DEF EffectsTypeOK, EffectsInvariant, Types, OutboxTypes, OperationStates,
             EffectRow, RowRight
    <2> QED BY <2>5 DEF StartedInOrder, EffectsInvariant, InOrder
  <1> QED BY <1>1, OutboxInvariant, PTL

\* An effect the outbox calls confirmed happened at the provider: its mirror was
\* applied, or no session that began before the revocation is left.
THEOREM ConfirmedDidHappen == Spec => []ConfirmedHappened
  <1>1. EffectsInvariant => ConfirmedHappened
    BY DEF EffectsInvariant, Confirmed, Happened, ConfirmedHappened
  <1> QED BY <1>1, OutboxInvariant, PTL

\* A PATCH that arrives after its worker gave up, or died, never undoes what a
\* later change wrote: the provider's data only move on to later effects.
THEOREM ProviderMovesOn == Spec => ProviderNeverGoesBackAlways
  <1>1. EffectsInvariant /\ [Next]_vars => [ProviderNeverGoesBack]_vars
    BY EveryStepKeeps
  <1> QED BY <1>1, OutboxInvariant, PTL DEF Spec, ProviderNeverGoesBackAlways

-----------------------------------------------------------------------------
(***************************************************************************)
(* Deliveries: of the attempts of one mail, one notice, or one generation   *)
(* of a wallet delivery, all but the last were refused, and the last is the *)
(* one its row tells of; so nothing is sent twice.                          *)
(***************************************************************************)

\* The provider's copies of an attempt are what its answer says.
Counts(a) == a.copies = IF a.answer = "accepted" THEN 1 ELSE 0

\* The attempts of a row: only the last may not have been refused.
Tried(T) ==
    /\ T \in Seq(Attempt)
    /\ \A i \in DOMAIN T : Counts(T[i]) /\ (i < Len(T) => T[i].answer = "refused")

AllRefused(T) == \A i \in DOMAIN T : T[i].answer = "refused"
LastAccepted(T) == Len(T) > 0 /\ T[Len(T)].answer = "accepted"

\* A transport has no answer before it is started.
Unstarted(T) == \A i \in DOMAIN T : ~T[i].started => T[i].answer = "no"

MailInOrder(row, T) ==
    /\ row \in MailRows /\ Tried(T) /\ Unstarted(T)
    /\ row.state = "absent" => T = << >>
    /\ row.state = "pending" => AllRefused(T)
    /\ row.state = "sending" => Len(T) > 0
    /\ row.state = "sent" => LastAccepted(T)

NoticeInOrder(state, T) ==
    /\ state \in DeliveryStates /\ Tried(T)
    /\ state = "absent" => T = << >>
    /\ state \in {"pending", "failed", "suppressed"} => AllRefused(T)
    /\ state = "sending" => Len(T) > 0
    /\ state = "sent" => LastAccepted(T)

MailsInOrder ==
    /\ mail \in [Mails -> MailRows] /\ tries \in [Mails -> Seq(Attempt)]
    /\ \A m \in Mails : MailInOrder(mail[m], tries[m])

NoticesInOrder ==
    /\ notices \in [Notices -> DeliveryStates] /\ efforts \in [Notices -> Seq(Attempt)]
    /\ \A n \in Notices : NoticeInOrder(notices[n], efforts[n])

-----------------------------------------------------------------------------
(* Attempts *)

LEMMA CopiesSum ==
    ASSUME NEW T, NEW S, IsFiniteSet(S)
    PROVE  MapThenSumSet(LAMBDA i : T[i].copies, S) = SumOf([i \in S |-> T[i].copies])
  <1> DEFINE f == [i \in S |-> T[i].copies]
             Unfolds(h) == h = [s \in SUBSET S |->
                                IF s = {} THEN 0 ELSE T[OneOf(s)].copies + h[s \ {OneOf(s)}]]
             G == Iterated(f, S)
             H == CHOOSE h : Unfolds(h)
  <1>1. SumOf(f) = G[S] /\ G = [s \in SUBSET S |-> FoldStep(f, G, s)]
    BY SumIterated, IteratedExists
  <1>2. MapThenSumSet(LAMBDA i : T[i].copies, S) = H[S]
    BY DEF MapThenSumSet, MapThenFoldSet, OneOf
  <1>3. ASSUME NEW h
        PROVE  [s \in SUBSET S |->
                    IF s = {} THEN 0 ELSE T[OneOf(s)].copies + h[s \ {OneOf(s)}]]
               = [s \in SUBSET S |-> FoldStep(f, h, s)]
    <2>1. ASSUME NEW s \in SUBSET S, s # {}
          PROVE  f[OneOf(s)] = T[OneOf(s)].copies
      BY <2>1 DEF OneOf
    <2> HIDE DEF f
    <2> QED BY <2>1 DEF FoldStep
  <1> HIDE DEF f, G
  <1>4. Unfolds(G)
    BY <1>1, <1>3
  <1>5. Unfolds(H)
    <2> HIDE DEF Unfolds
    <2> QED BY <1>4
  <1> HIDE DEF H
  <1>6. H = [s \in SUBSET S |-> FoldStep(f, H, s)]
    BY <1>3, <1>5
  <1>7. Iterates(G, f, S) /\ Iterates(H, f, S)
    BY <1>1, <1>6 DEF Iterates
  <1>8. G[S] = H[S]
    BY <1>7, IteratedOnce
  <1> QED BY <1>1, <1>2, <1>8 DEF f

\* Of parts that are 0 or 1, at most one is not 0.
LEMMA OneAtMost ==
    ASSUME NEW S, IsFiniteSet(S), NEW f \in [S -> {0, 1}],
           \A x, y \in S : f[x] = 1 /\ f[y] = 1 => x = y
    PROVE  /\ SumOf(f) \in {0, 1}
           /\ \A x \in S : f[x] = 1 => SumOf(f) = 1
           /\ (\A x \in S : f[x] = 0) => SumOf(f) = 0
  <1>1. f \in [S -> Int]
    OBVIOUS
  <1>2. CASE \A x \in S : f[x] = 0
    <2>1. SumOf(f) = 0
      BY <1>1, <1>2, SumOfZeros
    <2> QED BY <1>2, <2>1
  <1>3. ASSUME NEW x \in S, f[x] = 1
        PROVE  SumOf(f) = 1
    <2>1. \A y \in S \ {x} : f[y] = 0
      BY <1>3
    <2>2. SumOf(f) = f[x]
      BY <1>1, <2>1, SumOfOne
    <2> QED BY <1>3, <2>2
  <1> QED BY <1>2, <1>3

LEMMA TriedCopies ==
    ASSUME NEW T, Tried(T)
    PROVE  /\ Copies(T) <= 1
           /\ AllRefused(T) => Copies(T) = 0
           /\ LastAccepted(T) => Copies(T) = 1
  <1>1. DOMAIN T = 1..Len(T) /\ Len(T) \in Nat /\ \A i \in DOMAIN T : T[i] \in Attempt
    BY ElementOfSeq, LenProperties DEF Tried
  <1>2. IsFiniteSet(DOMAIN T)
    BY <1>1, FS_Interval
  <1> PICK S : S = DOMAIN T
    OBVIOUS
  <1> PICK f : f = [i \in S |-> T[i].copies]
    OBVIOUS
  <1>3. f \in [S -> {0, 1}] /\ \A i \in S : f[i] = 1 <=> T[i].answer = "accepted"
    BY DEF Tried, Counts
  <1>4. \A i, j \in S : f[i] = 1 /\ f[j] = 1 => i = j
    <2>1. \A i \in S : f[i] = 1 => i = Len(T)
      BY <1>1, <1>3 DEF Tried
    <2> QED BY <2>1
  <1>5. Copies(T) = SumOf(f)
    BY <1>2, CopiesSum DEF Copies
  <1>6. /\ SumOf(f) \in {0, 1}
        /\ \A x \in S : f[x] = 1 => SumOf(f) = 1
        /\ (\A x \in S : f[x] = 0) => SumOf(f) = 0
    BY <1>2, <1>3, <1>4, OneAtMost
  <1>7. ASSUME AllRefused(T)
        PROVE  \A x \in S : f[x] = 0
    BY <1>3, <1>7 DEF AllRefused
  <1>8. ASSUME LastAccepted(T)
        PROVE  Len(T) \in S /\ f[Len(T)] = 1
    BY <1>1, <1>3, <1>8 DEF LastAccepted
  <1> QED BY <1>5, <1>6, <1>7, <1>8

LEMMA FreshAttempt == Fresh \in Attempt /\ Counts(Fresh)
  BY DEF Fresh, Attempt, Counts

\* One more attempt, after all were refused.
LEMMA TriedAppend ==
    ASSUME NEW T, Tried(T), AllRefused(T)
    PROVE  Tried(Append(T, Fresh)) /\ Len(Append(T, Fresh)) > 0
           /\ (Unstarted(T) => Unstarted(Append(T, Fresh)))
  <1> PICK U : U = Append(T, Fresh)
    OBVIOUS
  <1>1. T \in Seq(Attempt) /\ DOMAIN T = 1..Len(T) /\ Len(T) \in Nat
    BY LenProperties DEF Tried
  <1>2. /\ U \in Seq(Attempt) /\ Len(U) = Len(T) + 1
        /\ \A i \in 1..Len(T) : U[i] = T[i]
        /\ U[Len(T) + 1] = Fresh
    BY <1>1, FreshAttempt, AppendProperties
  <1>3. DOMAIN U = 1..(Len(T) + 1)
    BY <1>2, LenProperties
  <1>4. ASSUME NEW i \in DOMAIN U
        PROVE  Counts(U[i]) /\ (i < Len(U) => U[i].answer = "refused")
    <2>1. CASE i \in 1..Len(T)
      BY <1>1, <1>2, <2>1 DEF Tried, AllRefused
    <2>2. CASE i = Len(T) + 1
      BY <1>1, <1>2, <2>2, FreshAttempt
    <2> QED BY <1>1, <1>3, <2>1, <2>2
  <1>5. Unstarted(T) => Unstarted(U)
    <2>1. Fresh.answer = "no"
      BY DEF Fresh
    <2> QED BY <1>1, <1>2, <1>3, <2>1 DEF Unstarted
  <1> QED BY <1>1, <1>2, <1>4, <1>5 DEF Tried

\* One attempt changes: what was refused stays so, unless it is the last.
LEMMA TriedChange ==
    ASSUME NEW T, Tried(T), NEW i \in DOMAIN T, NEW a, a \in Attempt, Counts(a),
           T[i].answer = "refused" => a.answer = "refused",
           NEW U, U = [T EXCEPT ![i] = a]
    PROVE  Tried(U) /\ Len(U) = Len(T)
  <1>1. T \in Seq(Attempt) /\ DOMAIN T = 1..Len(T) /\ Len(T) \in Nat
        /\ \A j \in DOMAIN T : T[j] \in Attempt
    BY LenProperties, ElementOfSeq DEF Tried
  <1>2. DOMAIN U = DOMAIN T /\ U[i] = a /\ \A j \in DOMAIN T : j # i => U[j] = T[j]
    OBVIOUS
  <1>3. U \in Seq(Attempt) /\ Len(U) = Len(T)
    <2>1. U \in [1..Len(T) -> Attempt]
      BY <1>1
    <2> QED BY <1>1, <2>1, LenProperties
  <1>4. \A j \in DOMAIN U : Counts(U[j]) /\ (j < Len(U) => U[j].answer = "refused")
    BY <1>2, <1>3 DEF Tried
  <1> QED BY <1>3, <1>4 DEF Tried

LEMMA UnstartedChange ==
    ASSUME NEW T, Unstarted(T), NEW i \in DOMAIN T, NEW a, ~a.started => a.answer = "no",
           NEW U, U = [T EXCEPT ![i] = a]
    PROVE  Unstarted(U)
  BY DEF Unstarted

LEMMA LastKept ==
    ASSUME NEW T, T \in Seq(Attempt), LastAccepted(T), NEW i \in DOMAIN T, NEW a,
           a.answer = T[i].answer \/ T[i].answer = "no",
           NEW U, U = [T EXCEPT ![i] = a], Len(U) = Len(T)
    PROVE  LastAccepted(U)
  <1>1. DOMAIN T = 1..Len(T) /\ Len(T) \in Nat
    BY LenProperties
  <1> QED BY <1>1 DEF LastAccepted

\* What is handed to the provider, or recorded, is one attempt that changes.
LEMMA HandedAttempt ==
    ASSUME NEW a \in Attempt, Counts(a), a.answer = "no", NEW answer \in {"accepted", "refused"}
    PROVE  /\ Handed(a, answer) \in Attempt /\ Counts(Handed(a, answer))
           /\ Handed(a, answer).answer = answer /\ Handed(a, answer).started = a.started
  <1>1. a.copies = 0
    BY DEF Counts
  <1> PICK one \in {0, 1} : one = IF answer = "accepted" THEN 1 ELSE 0
    OBVIOUS
  <1> PICK b : b = [a EXCEPT !.answer = answer]
    OBVIOUS
  <1>2. b \in Attempt /\ b.copies = 0 /\ b.answer = answer /\ b.started = a.started
    BY <1>1 DEF Attempt
  <1> PICK c : c = [b EXCEPT !.copies = one]
    OBVIOUS
  <1>3. c \in Attempt /\ c.copies = one /\ c.answer = answer /\ c.started = a.started
    BY <1>2 DEF Attempt
  <1>4. Handed(a, answer) = c
    <2>1. Handed(a, answer) = [a EXCEPT !.answer = answer, !.copies = 0 + one]
      BY <1>1 DEF Handed
    <2> QED BY <1>2, <2>1 DEF Attempt
  <1> QED BY <1>3, <1>4 DEF Counts

LEMMA ToldAttempt ==
    ASSUME NEW a \in Attempt, Counts(a), NEW o \in {"none", "sent", "not_sent", "failed", "unknown"}
    PROVE  /\ [a EXCEPT !.outcome = o] \in Attempt /\ Counts([a EXCEPT !.outcome = o])
           /\ [a EXCEPT !.outcome = o].answer = a.answer
           /\ [a EXCEPT !.outcome = o].started = a.started
  BY DEF Attempt, Counts

-----------------------------------------------------------------------------
(* Mail and notices *)

LEMMA MinIsLeast ==
    ASSUME NEW S, S \subseteq Nat, S # {}
    PROVE  Min(S) \in S
  <1>1. \E e \in S : \A f \in S : e <= f
    BY Least
  <1> QED BY <1>1 DEF Min

LEMMA MailChanges ==
    ASSUME MailsInOrder, NEW m \in Mails, NEW row, NEW T, MailInOrder(row, T),
           mail' = [mail EXCEPT ![m] = row], tries' = [tries EXCEPT ![m] = T]
    PROVE  MailsInOrder'
  <1>1. row \in MailRows /\ T \in Seq(Attempt)
    BY DEF MailInOrder, Tried
  <1>2. mail' \in [Mails -> MailRows] /\ tries' \in [Mails -> Seq(Attempt)]
    BY <1>1 DEF MailsInOrder
  <1>3. \A k \in Mails : MailInOrder(mail'[k], tries'[k])
    BY DEF MailsInOrder
  <1> QED BY <1>2, <1>3 DEF MailsInOrder

\* A claim: what becomes of each job.
LEMMA MailClaimed ==
    ASSUME MailsInOrder, MailClaim, NEW m \in Mails
    PROVE  \/ /\ mail[m].state = "sending" /\ mail'[m] = Lapsed(mail[m])
              /\ tries'[m] = [tries[m] EXCEPT ![Len(tries[m])].outcome = "unknown"]
           \/ /\ mail[m].state = "pending" /\ mail'[m] = [mail[m] EXCEPT !.state = "blocked"]
              /\ tries'[m] = tries[m]
           \/ /\ mail[m].state = "pending"
              /\ mail'[m] = [state |-> "sending", lease |-> "ample"]
              /\ tries'[m] = Append(tries[m], Fresh)
           \/ mail'[m] = mail[m] /\ tries'[m] = tries[m]
  <1> PICK due \in SUBSET {k \in Mails : mail[k].state = "pending"
                                         /\ Len(tries[k]) < MailAttempts} :
         LET overdue == {k \in Mails : mail[k].state = "sending" /\ mail[k].lease = "over"}
             able == due \cap wanted
             taken == IF able = {} THEN {} ELSE {Min(able)}
             blocked == {k \in due \ able : taken = {} \/ k < Min(able)}
         IN /\ mail' = [k \in Mails |->
                  CASE k \in overdue -> Lapsed(mail[k])
                    [] k \in blocked -> [mail[k] EXCEPT !.state = "blocked"]
                    [] k \in taken -> [state |-> "sending", lease |-> "ample"]
                    [] OTHER -> mail[k]]
            /\ tries' = [k \in Mails |->
                  CASE k \in overdue ->
                          [tries[k] EXCEPT ![Len(tries[k])].outcome = "unknown"]
                    [] k \in taken -> Append(tries[k], Fresh)
                    [] OTHER -> tries[k]]
    BY DEF MailClaim
  <1> DEFINE overdue == {k \in Mails : mail[k].state = "sending" /\ mail[k].lease = "over"}
             able == due \cap wanted
             taken == IF able = {} THEN {} ELSE {Min(able)}
             blocked == {k \in due \ able : taken = {} \/ k < Min(able)}
  <1>1. taken \subseteq able
    <2>1. able \subseteq Nat
      BY DeliveriesAssumption
    <2> QED BY <2>1, MinIsLeast
  <1>2. /\ mail'[m] = CASE m \in overdue -> Lapsed(mail[m])
                        [] m \in blocked -> [mail[m] EXCEPT !.state = "blocked"]
                        [] m \in taken -> [state |-> "sending", lease |-> "ample"]
                        [] OTHER -> mail[m]
        /\ tries'[m] = CASE m \in overdue ->
                               [tries[m] EXCEPT ![Len(tries[m])].outcome = "unknown"]
                         [] m \in taken -> Append(tries[m], Fresh)
                         [] OTHER -> tries[m]
    OBVIOUS
  <1>3. /\ m \in overdue => mail[m].state = "sending" /\ m \notin blocked /\ m \notin taken
        /\ m \in blocked => mail[m].state = "pending" /\ m \notin taken
        /\ m \in taken => mail[m].state = "pending"
    BY <1>1
  <1> HIDE DEF overdue, blocked, taken
  <1> QED BY <1>2, <1>3

LEMMA MailClaimStep ==
    ASSUME MailsInOrder, MailClaim
    PROVE  MailsInOrder'
  <1>1. ASSUME NEW m \in Mails
        PROVE  MailInOrder(mail'[m], tries'[m])
    <2> PICK T : T = tries[m]
      OBVIOUS
    <2> PICK row : row = mail[m]
      OBVIOUS
    <2>0. MailInOrder(row, T)
      BY DEF MailsInOrder
    <2>1. CASE /\ row.state = "sending" /\ mail'[m] = Lapsed(row)
               /\ tries'[m] = [T EXCEPT ![Len(T)].outcome = "unknown"]
      <3>1. Len(T) \in DOMAIN T /\ T[Len(T)] \in Attempt /\ Counts(T[Len(T)])
        BY <2>0, <2>1, LenProperties, ElementOfSeq DEF MailInOrder, Tried
      <3> PICK a : a = [T[Len(T)] EXCEPT !.outcome = "unknown"]
        OBVIOUS
      <3>2. a \in Attempt /\ Counts(a) /\ a.answer = T[Len(T)].answer
            /\ a.started = T[Len(T)].started
        BY <3>1, ToldAttempt
      <3>3. ~a.started => a.answer = "no"
        BY <2>0, <3>1, <3>2 DEF MailInOrder, Unstarted
      <3>4. tries'[m] = [T EXCEPT ![Len(T)] = a]
        BY <2>1
      <3>5. Tried(tries'[m]) /\ Unstarted(tries'[m])
        <4> PICK U : U = [T EXCEPT ![Len(T)] = a]
          OBVIOUS
        <4>1. Tried(T) /\ Unstarted(T)
          BY <2>0 DEF MailInOrder
        <4>2. Tried(U)
          BY <3>1, <3>2, <4>1, TriedChange
        <4>3. Unstarted(U)
          BY <3>1, <3>3, <4>1, UnstartedChange
        <4> QED BY <3>4, <4>2, <4>3
      <3> QED BY <2>1, <3>5 DEF MailInOrder, Lapsed, MailRows
    <2>2. CASE /\ row.state = "pending" /\ mail'[m] = [row EXCEPT !.state = "blocked"]
               /\ tries'[m] = T
      <3>1. mail'[m] \in MailRows /\ mail'[m].state = "blocked"
        BY <2>0, <2>2 DEF MailInOrder, MailRows
      <3> QED BY <2>0, <2>2, <3>1 DEF MailInOrder
    <2>3. CASE /\ row.state = "pending" /\ mail'[m] = [state |-> "sending", lease |-> "ample"]
               /\ tries'[m] = Append(T, Fresh)
      <3>1. Tried(T) /\ AllRefused(T) /\ Unstarted(T)
        BY <2>0, <2>3 DEF MailInOrder
      <3>2. Tried(tries'[m]) /\ Len(tries'[m]) > 0 /\ Unstarted(tries'[m])
        BY <2>3, <3>1, TriedAppend
      <3>3. mail'[m] \in MailRows /\ mail'[m].state = "sending"
        BY <2>3 DEF MailRows
      <3> QED BY <3>2, <3>3 DEF MailInOrder
    <2>4. CASE mail'[m] = row /\ tries'[m] = T
      BY <2>0, <2>4
    <2> QED BY <2>1, <2>2, <2>3, <2>4, MailClaimed
  <1>2. mail' \in [Mails -> MailRows] /\ tries' \in [Mails -> Seq(Attempt)]
    <2>1. \A m \in Mails : mail'[m] \in MailRows /\ tries'[m] \in Seq(Attempt)
      BY <1>1 DEF MailInOrder, Tried
    <2>2. (\E f : mail' = [m \in Mails |-> f[m]]) /\ (\E f : tries' = [m \in Mails |-> f[m]])
      <3>1. mail' = [m \in Mails |-> mail'[m]] /\ tries' = [m \in Mails |-> tries'[m]]
        BY DEF MailClaim
      <3> QED BY <3>1
    <2> QED BY <2>1, <2>2
  <1> QED BY <1>1, <1>2 DEF MailsInOrder

LEMMA MailRowSteps ==
    ASSUME MailsInOrder, NEW m \in Mails, MailEnqueue(m) \/ MailWorld(m) \/ MailLease(m)
    PROVE  MailsInOrder'
  <1>0. MailInOrder(mail[m], tries[m]) /\ mail \in [Mails -> MailRows]
        /\ tries \in [Mails -> Seq(Attempt)]
    BY DEF MailsInOrder
  <1>1. tries' = [tries EXCEPT ![m] = tries[m]]
    BY <1>0 DEF MailEnqueue, MailWorld, MailLease
  <1>2. PICK row : mail' = [mail EXCEPT ![m] = row] /\ MailInOrder(row, tries[m])
    <2>1. CASE MailEnqueue(m)
      <3>1. PICK row : row = [mail[m] EXCEPT !.state = "pending"]
        OBVIOUS
      <3>2. row \in MailRows /\ row.state = "pending"
        BY <1>0, <3>1 DEF MailRows
      <3>3. AllRefused(tries[m])
        BY <1>0, <2>1 DEF MailEnqueue, MailInOrder, AllRefused
      <3>4. mail' = [mail EXCEPT ![m] = row]
        BY <2>1, <3>1 DEF MailEnqueue
      <3> QED BY <1>0, <3>2, <3>3, <3>4 DEF MailInOrder
    <2>2. CASE MailWorld(m)
      <3>1. mail' = [mail EXCEPT ![m] = mail[m]]
        BY <1>0, <2>2 DEF MailWorld
      <3> QED BY <1>0, <3>1
    <2>3. CASE MailLease(m)
      <3>1. PICK row : row = [mail[m] EXCEPT !.lease = IF @ = "ample" THEN "short" ELSE "over"]
        OBVIOUS
      <3>2. row \in MailRows /\ row.state = mail[m].state
        BY <1>0, <3>1 DEF MailRows
      <3>4. mail' = [mail EXCEPT ![m] = row]
        BY <2>3, <3>1 DEF MailLease
      <3> QED BY <1>0, <3>2, <3>4 DEF MailInOrder
    <2> QED BY <2>1, <2>2, <2>3
  <1> QED BY <1>1, <1>2, MailChanges

\* A mail's attempt is started, sent or reported.
LEMMA MailAttemptSteps ==
    ASSUME MailsInOrder, NEW m \in Mails, NEW f \in Nat,
           \/ MailStart(m, f) \/ MailTransport(m, f)
           \/ \E o \in {"sent", "not_sent", "unknown"} : MailFinish(m, f, o)
    PROVE  MailsInOrder'
  <1> PICK T : T = tries[m]
    OBVIOUS
  <1>0. MailInOrder(mail[m], T) /\ mail \in [Mails -> MailRows]
        /\ tries \in [Mails -> Seq(Attempt)] /\ Tried(T) /\ Unstarted(T)
    BY DEF MailsInOrder, MailInOrder
  <1>1. DOMAIN T = 1..Len(T) /\ Len(T) \in Nat /\ \A i \in DOMAIN T : T[i] \in Attempt
    BY <1>0, LenProperties, ElementOfSeq DEF Tried
  <1>2. CASE MailStart(m, f)
    <2> PICK a : a = [T[f] EXCEPT !.started = TRUE, !.answer = "no"]
      OBVIOUS
    <2>1. mail[m].state = "sending" /\ f \in DOMAIN T /\ f = Len(T) /\ ~T[f].started
      BY <1>0, <1>1, <1>2 DEF MailStart, Startable, MailInOrder
    <2>2. T[f].answer = "no"
      BY <1>0, <2>1 DEF Unstarted
    <2>3. a \in Attempt /\ Counts(a) /\ a.answer = T[f].answer
      <3>1. T[f] \in Attempt /\ Counts(T[f])
        BY ONLY <1>0, <1>1, <2>1 DEF Tried
      <3>2. PICK b : b = T[f]
        OBVIOUS
      <3>3. a = [b EXCEPT !.started = TRUE, !.answer = "no"] /\ b.answer = "no"
        BY <2>2, <3>2
      <3>4. b \in Attempt /\ Counts(b)
        BY ONLY <3>1, <3>2
      <3>5. a \in Attempt /\ Counts(a) /\ a.answer = b.answer
        BY ONLY <3>3, <3>4 DEF Attempt, Counts
      <3> QED BY ONLY <3>2, <3>5
    <2> PICK U : U = [T EXCEPT ![f] = a]
      OBVIOUS
    <2>4. Tried(U) /\ Unstarted(U) /\ Len(U) = Len(T)
      <3>1. Tried(U) /\ Len(U) = Len(T)
        <4>1. /\ Tried(T) /\ f \in DOMAIN T /\ a \in Attempt /\ Counts(a)
              /\ T[f].answer = "refused" => a.answer = "refused"
              /\ U = [T EXCEPT ![f] = a]
          BY <1>0, <2>1, <2>3
        <4> QED BY ONLY <4>1, TriedChange, ZenonT(90)
      <3>2. Unstarted(U)
        BY <1>0, <2>1, <2>2, <2>3, UnstartedChange
      <3> QED BY <3>1, <3>2
    <2>5. MailInOrder(mail[m], U)
      BY <1>0, <2>1, <2>4 DEF MailInOrder
    <2>6. tries' = [tries EXCEPT ![m] = U] /\ mail' = [mail EXCEPT ![m] = mail[m]]
      BY <1>0, <1>2 DEF MailStart
    <2> QED BY <2>5, <2>6, MailChanges
  <1>3. CASE MailTransport(m, f)
    <2>1. PICK answer \in {"accepted", "refused"} :
             tries' = [tries EXCEPT ![m][f] = Handed(tries[m][f], answer)]
      BY <1>3 DEF MailTransport
    <2> PICK a : a = Handed(T[f], answer)
      OBVIOUS
    <2>2. f \in DOMAIN T /\ T[f].started /\ T[f].answer = "no" /\ mail' = mail
      BY <1>3 DEF MailTransport
    <2>3. a \in Attempt /\ Counts(a) /\ a.answer = answer /\ a.started
      BY <1>0, <1>1, <2>2, HandedAttempt DEF Tried
    <2> PICK U : U = [T EXCEPT ![f] = a]
      OBVIOUS
    <2>4. Tried(U) /\ Unstarted(U) /\ Len(U) = Len(T)
          /\ (LastAccepted(T) => LastAccepted(U))
      <3>1. T[f].answer # "refused" /\ T \in Seq(Attempt)
        BY <1>0, <2>2 DEF Tried
      <3>2. Tried(U) /\ Len(U) = Len(T)
        <4>1. /\ Tried(T) /\ f \in DOMAIN T /\ a \in Attempt /\ Counts(a)
              /\ T[f].answer = "refused" => a.answer = "refused"
              /\ U = [T EXCEPT ![f] = a]
          BY <1>0, <2>2, <2>3, <3>1
        <4> QED BY ONLY <4>1, TriedChange, ZenonT(90)
      <3>3. Unstarted(U)
        BY <1>0, <2>2, <2>3, UnstartedChange
      <3>4. LastAccepted(T) => LastAccepted(U)
        BY <2>2, <3>1, <3>2, LastKept
      <3> QED BY <3>2, <3>3, <3>4
    <2>5. ~AllRefused(T) /\ T # << >>
      BY <1>1, <2>2 DEF AllRefused
    <2>6. MailInOrder(mail[m], U)
      BY <1>0, <2>4, <2>5 DEF MailInOrder
    <2>7. tries' = [tries EXCEPT ![m] = U] /\ mail' = [mail EXCEPT ![m] = mail[m]]
      BY <1>0, <2>1, <2>2
    <2> QED BY <2>6, <2>7, MailChanges
  <1>4. ASSUME NEW o \in {"sent", "not_sent", "unknown"}, MailFinish(m, f, o)
        PROVE  MailsInOrder'
    <2> PICK a : a = [T[f] EXCEPT !.outcome = o]
      OBVIOUS
    <2>1. mail[m].state = "sending" /\ f = Len(T) /\ f \in DOMAIN T /\ Tellable(T[f], o)
      BY <1>0, <1>1, <1>4 DEF MailFinish, MailInOrder
    <2>2. a \in Attempt /\ Counts(a) /\ a.answer = T[f].answer /\ a.started = T[f].started
      <3>1. T[f] \in Attempt /\ Counts(T[f])
        BY <1>0, <1>1, <2>1 DEF Tried
      <3> QED BY <3>1, ToldAttempt, ZenonT(90)
    <2>3. ~a.started => a.answer = "no"
      BY <1>0, <2>1, <2>2 DEF Unstarted
    <2> PICK U : U = [T EXCEPT ![f] = a]
      OBVIOUS
    <2>4. Tried(U) /\ Unstarted(U) /\ Len(U) = Len(T)
      <3>1. Tried(U) /\ Len(U) = Len(T)
        <4>1. /\ Tried(T) /\ f \in DOMAIN T /\ a \in Attempt /\ Counts(a)
              /\ T[f].answer = "refused" => a.answer = "refused"
              /\ U = [T EXCEPT ![f] = a]
          BY <1>0, <2>1, <2>2
        <4> QED BY ONLY <4>1, TriedChange, ZenonT(90)
      <3>2. Unstarted(U)
        BY <1>0, <2>1, <2>3, UnstartedChange
      <3> QED BY <3>1, <3>2
    <2>5. DOMAIN U = DOMAIN T /\ U[f] = a
      BY <2>1
    <2>6. PICK state \in {"sent", "unknown", "pending", "blocked"} :
             /\ state = "sent" => o = "sent"
             /\ state = "pending" => o = "not_sent"
             /\ mail' = [mail EXCEPT ![m] = [state |-> state, lease |-> "none"]]
      BY <1>4 DEF MailFinish
    <2>7. state = "sent" => LastAccepted(U)
      BY <1>1, <2>1, <2>2, <2>4, <2>5, <2>6 DEF Tellable, LastAccepted
    <2>8. state = "pending" => AllRefused(U)
      <3> SUFFICES ASSUME state = "pending", NEW i \in DOMAIN U
                   PROVE  U[i].answer = "refused"
        BY DEF AllRefused
      <3>1. T[f].answer = "refused"
        BY <2>1, <2>6 DEF Tellable
      <3> QED BY <1>1, <2>1, <2>2, <2>4, <2>5, <3>1 DEF Tried
    <2>9. MailInOrder([state |-> state, lease |-> "none"], U)
      BY <2>4, <2>7, <2>8 DEF MailInOrder, MailRows
    <2>10. tries' = [tries EXCEPT ![m] = U]
      BY <1>0, <1>4 DEF MailFinish
    <2> QED BY <2>6, <2>9, <2>10, MailChanges
  <1> QED BY <1>2, <1>3, <1>4

LEMMA MailStep == MailsInOrder /\ MailNext => MailsInOrder'
  <1> SUFFICES ASSUME MailsInOrder, MailNext PROVE MailsInOrder'
    OBVIOUS
  <1>1. MailAttempts \in Nat
    BY DeliveriesAssumption
  <1>2. 1..MailAttempts \subseteq Nat
    BY <1>1
  <1> QED BY <1>2, MailClaimStep, MailRowSteps, MailAttemptSteps DEF MailNext

LEMMA NoticeChanges ==
    ASSUME NoticesInOrder, NEW n \in Notices, NEW state, NEW T, NoticeInOrder(state, T),
           notices' = [notices EXCEPT ![n] = state], efforts' = [efforts EXCEPT ![n] = T]
    PROVE  NoticesInOrder'
  <1>1. state \in DeliveryStates /\ T \in Seq(Attempt)
    BY DEF NoticeInOrder, Tried
  <1>2. notices' \in [Notices -> DeliveryStates] /\ efforts' \in [Notices -> Seq(Attempt)]
    BY <1>1 DEF NoticesInOrder
  <1>3. \A k \in Notices : NoticeInOrder(notices'[k], efforts'[k])
    BY DEF NoticesInOrder
  <1> QED BY <1>2, <1>3 DEF NoticesInOrder

\* A claim: what becomes of each notice.
LEMMA NoticeClaimed ==
    ASSUME NoticesInOrder, NoticeClaim, NEW n \in Notices
    PROVE  \/ /\ notices[n] = "sending" /\ notices'[n] = "unknown"
              /\ efforts'[n] = [efforts[n] EXCEPT ![Len(efforts[n])].outcome = "unknown"]
           \/ /\ notices[n] \in {"pending", "failed"} /\ notices'[n] = "suppressed"
              /\ efforts'[n] = efforts[n]
           \/ /\ notices[n] \in {"pending", "failed"} /\ notices'[n] = "sending"
              /\ efforts'[n] = Append(efforts[n], Fresh)
           \/ notices'[n] = notices[n] /\ efforts'[n] = efforts[n]
  <1> PICK stale \in SUBSET {k \in Notices : notices[k] = "sending"}, later \in SUBSET Notices :
         LET suppressed == {k \in Notices \ reachable : notices[k] \in {"pending", "failed"}}
             due == {k \in (Notices \cap reachable) \ later :
                       \/ notices[k] = "pending"
                       \/ notices[k] = "failed" /\ Len(efforts[k]) < NoticeAttempts}
             taken == IF due = {} THEN {} ELSE {Min(due)}
         IN /\ notices' = [k \in Notices |->
                  CASE k \in stale -> AbandonedNotice
                    [] k \in suppressed -> "suppressed"
                    [] k \in taken -> "sending"
                    [] OTHER -> notices[k]]
            /\ efforts' = [k \in Notices |->
                  CASE k \in stale ->
                          [efforts[k] EXCEPT ![Len(efforts[k])].outcome = AbandonedNotice]
                    [] k \in taken -> Append(efforts[k], Fresh)
                    [] OTHER -> efforts[k]]
    BY DEF NoticeClaim
  <1> DEFINE suppressed == {k \in Notices \ reachable : notices[k] \in {"pending", "failed"}}
             due == {k \in (Notices \cap reachable) \ later :
                       \/ notices[k] = "pending"
                       \/ notices[k] = "failed" /\ Len(efforts[k]) < NoticeAttempts}
             taken == IF due = {} THEN {} ELSE {Min(due)}
  <1>1. taken \subseteq due
    <2>1. due \subseteq Nat
      BY DeliveriesAssumption
    <2> QED BY <2>1, MinIsLeast
  <1>2. /\ notices'[n] = CASE n \in stale -> AbandonedNotice
                           [] n \in suppressed -> "suppressed"
                           [] n \in taken -> "sending"
                           [] OTHER -> notices[n]
        /\ efforts'[n] = CASE n \in stale ->
                                 [efforts[n] EXCEPT ![Len(efforts[n])].outcome = AbandonedNotice]
                           [] n \in taken -> Append(efforts[n], Fresh)
                           [] OTHER -> efforts[n]
    OBVIOUS
  <1>3. /\ n \in stale => notices[n] = "sending" /\ n \notin suppressed /\ n \notin taken
        /\ n \in suppressed => notices[n] \in {"pending", "failed"} /\ n \notin taken
        /\ n \in taken => notices[n] \in {"pending", "failed"}
    BY <1>1
  <1> HIDE DEF suppressed, taken
  <1> QED BY <1>2, <1>3 DEF AbandonedNotice

LEMMA NoticeClaimStep ==
    ASSUME NoticesInOrder, NoticeClaim
    PROVE  NoticesInOrder'
  <1>1. ASSUME NEW n \in Notices
        PROVE  NoticeInOrder(notices'[n], efforts'[n])
    <2> PICK T : T = efforts[n]
      OBVIOUS
    <2> PICK state : state = notices[n]
      OBVIOUS
    <2>0. NoticeInOrder(state, T)
      BY DEF NoticesInOrder
    <2>1. CASE /\ state = "sending" /\ notices'[n] = "unknown"
               /\ efforts'[n] = [T EXCEPT ![Len(T)].outcome = "unknown"]
      <3>1. Len(T) \in DOMAIN T /\ T[Len(T)] \in Attempt /\ Counts(T[Len(T)])
        BY <2>0, <2>1, LenProperties, ElementOfSeq DEF NoticeInOrder, Tried
      <3> PICK a : a = [T[Len(T)] EXCEPT !.outcome = "unknown"]
        OBVIOUS
      <3>2. a \in Attempt /\ Counts(a) /\ a.answer = T[Len(T)].answer
        BY <3>1, ToldAttempt
      <3> PICK U : U = [T EXCEPT ![Len(T)] = a]
        OBVIOUS
      <3>3. /\ Tried(T) /\ Len(T) \in DOMAIN T /\ a \in Attempt /\ Counts(a)
            /\ T[Len(T)].answer = "refused" => a.answer = "refused"
            /\ U = [T EXCEPT ![Len(T)] = a]
        BY <2>0, <3>1, <3>2 DEF NoticeInOrder
      <3>4. Tried(U)
        BY ONLY <3>3, TriedChange
      <3>5. efforts'[n] = U
        BY <2>1
      <3> QED BY <2>1, <3>4, <3>5 DEF NoticeInOrder, DeliveryStates
    <2>2. CASE /\ state \in {"pending", "failed"} /\ notices'[n] = "suppressed"
               /\ efforts'[n] = T
      BY <2>0, <2>2 DEF NoticeInOrder, DeliveryStates
    <2>3. CASE /\ state \in {"pending", "failed"} /\ notices'[n] = "sending"
               /\ efforts'[n] = Append(T, Fresh)
      <3>1. Tried(T) /\ AllRefused(T)
        BY <2>0, <2>3 DEF NoticeInOrder
      <3>2. Tried(efforts'[n]) /\ Len(efforts'[n]) > 0
        BY <2>3, <3>1, TriedAppend
      <3> QED BY <2>3, <3>2 DEF NoticeInOrder, DeliveryStates
    <2>4. CASE notices'[n] = state /\ efforts'[n] = T
      BY <2>0, <2>4
    <2> QED BY <2>1, <2>2, <2>3, <2>4, NoticeClaimed
  <1>2. notices' \in [Notices -> DeliveryStates] /\ efforts' \in [Notices -> Seq(Attempt)]
    <2>1. \A n \in Notices : notices'[n] \in DeliveryStates /\ efforts'[n] \in Seq(Attempt)
      BY <1>1 DEF NoticeInOrder, Tried
    <2>2. notices' = [n \in Notices |-> notices'[n]] /\ efforts' = [n \in Notices |-> efforts'[n]]
      BY DEF NoticeClaim
    <2> QED BY <2>1, <2>2
  <1> QED BY <1>1, <1>2 DEF NoticesInOrder

LEMMA NoticeRowSteps ==
    ASSUME NoticesInOrder, NEW n \in Notices, NoticeEnqueue(n) \/ NoticeWorld(n)
    PROVE  NoticesInOrder'
  <1>0. NoticeInOrder(notices[n], efforts[n]) /\ notices \in [Notices -> DeliveryStates]
        /\ efforts \in [Notices -> Seq(Attempt)]
    BY DEF NoticesInOrder
  <1>1. efforts' = [efforts EXCEPT ![n] = efforts[n]]
    BY <1>0 DEF NoticeEnqueue, NoticeWorld
  <1>2. PICK state : notices' = [notices EXCEPT ![n] = state] /\ NoticeInOrder(state, efforts[n])
    <2>1. CASE NoticeEnqueue(n)
      <3>1. PICK state \in {"pending", "suppressed"} : notices' = [notices EXCEPT ![n] = state]
        BY <2>1 DEF NoticeEnqueue
      <3>2. AllRefused(efforts[n])
        BY <1>0, <2>1 DEF NoticeEnqueue, NoticeInOrder, AllRefused
      <3>3. NoticeInOrder(state, efforts[n])
        BY <1>0, <3>2 DEF NoticeInOrder, DeliveryStates
      <3> QED BY <3>1, <3>3
    <2>2. CASE NoticeWorld(n)
      <3>1. notices' = [notices EXCEPT ![n] = notices[n]]
        BY <1>0, <2>2 DEF NoticeWorld
      <3> QED BY <1>0, <3>1
    <2> QED BY <2>1, <2>2
  <1> QED BY <1>1, <1>2, NoticeChanges

\* A notice's attempt is sent or reported.
LEMMA NoticeAttemptSteps ==
    ASSUME NoticesInOrder, NEW n \in Notices, NEW i \in Nat,
           \/ NoticeTransport(n, i)
           \/ \E o \in {"sent", "failed", "unknown"} : NoticeComplete(n, i, o)
    PROVE  NoticesInOrder'
  <1> PICK T : T = efforts[n]
    OBVIOUS
  <1>0. NoticeInOrder(notices[n], T) /\ notices \in [Notices -> DeliveryStates]
        /\ efforts \in [Notices -> Seq(Attempt)] /\ Tried(T)
    BY DEF NoticesInOrder, NoticeInOrder
  <1>1. DOMAIN T = 1..Len(T) /\ Len(T) \in Nat /\ \A j \in DOMAIN T : T[j] \in Attempt
    BY <1>0, LenProperties, ElementOfSeq DEF Tried
  <1>2. CASE NoticeTransport(n, i)
    <2>1. PICK answer \in {"accepted", "refused"} :
             efforts' = [efforts EXCEPT ![n][i] = Handed(efforts[n][i], answer)]
      BY <1>2 DEF NoticeTransport
    <2> PICK a : a = Handed(T[i], answer)
      OBVIOUS
    <2>2. i \in DOMAIN T /\ T[i].answer = "no" /\ notices' = notices
      BY <1>2 DEF NoticeTransport
    <2>3. a \in Attempt /\ Counts(a) /\ a.answer = answer
      <3>1. T[i] \in Attempt /\ Counts(T[i])
        BY <1>0, <1>1, <2>2 DEF Tried
      <3> QED BY <2>2, <3>1, HandedAttempt
    <2> PICK U : U = [T EXCEPT ![i] = a]
      OBVIOUS
    <2>4. /\ Tried(T) /\ i \in DOMAIN T /\ a \in Attempt /\ Counts(a)
          /\ T[i].answer = "refused" => a.answer = "refused"
          /\ U = [T EXCEPT ![i] = a] /\ T[i].answer = "no"
      BY <1>0, <2>2, <2>3
    <2>5. Tried(U) /\ Len(U) = Len(T)
      BY ONLY <2>4, TriedChange, ZenonT(90)
    <2>6. LastAccepted(T) => LastAccepted(U)
      <3>1. T \in Seq(Attempt)
        BY <1>0 DEF Tried
      <3>2. i \in DOMAIN T /\ T[i].answer = "no" /\ U = [T EXCEPT ![i] = a] /\ Len(U) = Len(T)
        BY <2>4, <2>5
      <3> QED BY ONLY <3>1, <3>2, LastKept
    <2>7. ~AllRefused(T) /\ T # << >>
      BY <1>1, <2>2 DEF AllRefused
    <2>8. NoticeInOrder(notices[n], U)
      BY <1>0, <2>5, <2>6, <2>7 DEF NoticeInOrder
    <2>9. efforts' = [efforts EXCEPT ![n] = U] /\ notices' = [notices EXCEPT ![n] = notices[n]]
      BY <1>0, <2>1, <2>2
    <2> QED BY <2>8, <2>9, NoticeChanges
  <1>3. ASSUME NEW o \in {"sent", "failed", "unknown"}, NoticeComplete(n, i, o)
        PROVE  NoticesInOrder'
    <2> PICK a : a = [T[i] EXCEPT !.outcome = o]
      OBVIOUS
    <2>1. i = Len(T) /\ i \in DOMAIN T /\ Tellable(T[i], o)
      BY <1>0, <1>1, <1>3 DEF NoticeComplete, NoticeInOrder
    <2>2. a \in Attempt /\ Counts(a) /\ a.answer = T[i].answer
      <3>1. T[i] \in Attempt /\ Counts(T[i])
        BY <1>0, <1>1, <2>1 DEF Tried
      <3> QED BY <3>1, ToldAttempt, ZenonT(90)
    <2> PICK U : U = [T EXCEPT ![i] = a]
      OBVIOUS
    <2>3. /\ Tried(T) /\ i \in DOMAIN T /\ a \in Attempt /\ Counts(a)
          /\ T[i].answer = "refused" => a.answer = "refused"
          /\ U = [T EXCEPT ![i] = a]
      BY <1>0, <2>1, <2>2
    <2>4. Tried(U) /\ Len(U) = Len(T)
      BY ONLY <2>3, TriedChange, ZenonT(90)
    <2>5. DOMAIN U = DOMAIN T /\ U[i] = a
      BY <2>1
    <2>6. o = "sent" => LastAccepted(U)
      BY <1>1, <2>1, <2>2, <2>4, <2>5 DEF Tellable, LastAccepted
    <2>7. o = "failed" => AllRefused(U)
      <3> SUFFICES ASSUME o = "failed", NEW j \in DOMAIN U
                   PROVE  U[j].answer = "refused"
        BY DEF AllRefused
      <3>1. T[i].answer = "refused"
        BY <2>1 DEF Tellable
      <3> QED BY <1>1, <2>1, <2>2, <2>4, <2>5, <3>1 DEF Tried
    <2>8. NoticeInOrder(o, U)
      BY <2>4, <2>6, <2>7 DEF NoticeInOrder, DeliveryStates
    <2>9. efforts' = [efforts EXCEPT ![n] = U] /\ notices' = [notices EXCEPT ![n] = o]
      BY <1>0, <1>3 DEF NoticeComplete
    <2> QED BY <2>8, <2>9, NoticeChanges
  <1> QED BY <1>2, <1>3

LEMMA NoticeStep == NoticesInOrder /\ NoticeNext => NoticesInOrder'
  <1> SUFFICES ASSUME NoticesInOrder, NoticeNext PROVE NoticesInOrder'
    OBVIOUS
  <1>1. NoticeAttempts \in Nat
    BY DeliveriesAssumption
  <1>2. 1..NoticeAttempts \subseteq Nat
    BY <1>1
  <1> QED BY <1>2, NoticeClaimStep, NoticeRowSteps, NoticeAttemptSteps DEF NoticeNext

-----------------------------------------------------------------------------
(* Wallet notifications *)

Event == [state : EventStates, tries : Nat, claim : Nat, plan : Plans \cup {"none"}]
Delivery == [state : DeliveryStates, generation : Nat, tries : 0..SendAttempts, claim : Nat]
Send == [note : Notes, person : People, generation : Nat, attempt : Attempt]
Action == [op : Asks, note : Notes, restarted : People \cup {"nobody"}]

Tables ==
    [event : [Notes -> Event], delivery : [Notes -> [People -> Delivery]],
     sends : Seq(Send), claims : Seq(Notes), actions : SUBSET Action]

\* The sends of one delivery, and the times somebody asked for it again.
SendsFor(s, n, p) == {t \in DOMAIN s : s[t].note = n /\ s[t].person = p}
AskedFor(A, n, p) == {a \in A : a.note = n /\ a.restarted = p}

Fits(d, s, n, p) ==
    /\ \A t \in SendsFor(s, n, p) : s[t].generation <= d.generation
    /\ d.claim = 0 => \A t \in SendsFor(s, n, p) : s[t].generation # d.generation
    /\ d.claim # 0 => /\ d.claim \in SendsFor(s, n, p)
                      /\ s[d.claim].generation = d.generation
                      /\ \A t \in SendsFor(s, n, p) : t <= d.claim
    /\ d.state \in {"absent", "pending", "suppressed"} => d.claim = 0 /\ d.tries = 0
    /\ d.state \in {"sending", "sent", "failed", "unknown"} => d.claim # 0
    /\ d.state = "sent" => s[d.claim].attempt.answer = "accepted"
    /\ d.state = "failed" => s[d.claim].attempt.answer = "refused"

\* Of the sends of one delivery and generation only the last may not have been
\* refused.
SendsInOrder(s) ==
    /\ \A t \in DOMAIN s : Counts(s[t].attempt)
    /\ \A t, u \in DOMAIN s :
          /\ t < u /\ s[t].note = s[u].note /\ s[t].person = s[u].person
          /\ s[t].generation = s[u].generation
          => s[t].attempt.answer = "refused"

Unprepared(w) ==
    \A n \in Notes : w.event[n].state # "prepared" =>
        \A p \in People : w.delivery[n][p] = NoDelivery

AskedAsOften(w) ==
    \A n \in Notes, p \in People :
        w.delivery[n][p].generation = Cardinality(AskedFor(w.actions, n, p))

WalletInOrder(w) ==
    /\ w \in Tables /\ IsFiniteSet(w.actions)
    /\ Unprepared(w) /\ SendsInOrder(w.sends) /\ AskedAsOften(w)
    /\ \A n \in Notes, p \in People : Fits(w.delivery[n][p], w.sends, n, p)

LEMMA TablesParts ==
    ASSUME NEW w \in Tables
    PROVE  /\ w.event \in [Notes -> Event] /\ w.delivery \in [Notes -> [People -> Delivery]]
           /\ w.sends \in Seq(Send) /\ w.claims \in Seq(Notes) /\ w.actions \in SUBSET Action
           /\ DOMAIN w.sends = 1..Len(w.sends) /\ Len(w.sends) \in Nat
           /\ \A t \in DOMAIN w.sends : w.sends[t] \in Send
           /\ \A c \in DOMAIN w.claims : w.claims[c] \in Notes
           /\ Len(w.claims) \in Nat
  BY LenProperties, ElementOfSeq DEF Tables

\* An event that is claimed, fails, is decided or asked for again, but is not
\* prepared by it, takes nothing from the deliveries.
LEMMA EventKeeps ==
    ASSUME NEW w, WalletInOrder(w), NEW v, v \in Tables,
           v.delivery = w.delivery, v.sends = w.sends,
           \A n \in Notes : v.event[n].state # "prepared" => w.event[n].state # "prepared",
           IsFiniteSet(v.actions),
           \A n \in Notes, p \in People : AskedFor(v.actions, n, p) = AskedFor(w.actions, n, p)
    PROVE  WalletInOrder(v)
  BY DEF WalletInOrder, Unprepared, AskedAsOften

\* One delivery changes.
LEMMA DeliveryKeeps ==
    ASSUME NEW w, WalletInOrder(w), NEW v, v \in Tables, NEW n \in Notes, NEW p \in People,
           v.event = w.event, SendsInOrder(v.sends),
           w.event[n].state = "prepared",
           \A k \in Notes, q \in People : <<k, q>> # <<n, p>> =>
               /\ v.delivery[k][q] = w.delivery[k][q]
               /\ Fits(v.delivery[k][q], v.sends, k, q)
               /\ AskedFor(v.actions, k, q) = AskedFor(w.actions, k, q),
           Fits(v.delivery[n][p], v.sends, n, p),
           IsFiniteSet(v.actions),
           v.delivery[n][p].generation = Cardinality(AskedFor(v.actions, n, p))
    PROVE  WalletInOrder(v)
  <1>1. Unprepared(v)
    BY DEF WalletInOrder, Unprepared
  <1>2. AskedAsOften(v)
    <2> SUFFICES ASSUME NEW k \in Notes, NEW q \in People
                 PROVE  v.delivery[k][q].generation = Cardinality(AskedFor(v.actions, k, q))
      BY DEF AskedAsOften
    <2> QED BY DEF WalletInOrder, AskedAsOften
  <1> QED BY <1>1, <1>2 DEF WalletInOrder

\* Attempts that go on: what was answered stays, and who is written to.
Advances(s, r) ==
    /\ DOMAIN r = DOMAIN s
    /\ \A t \in DOMAIN s :
          /\ r[t].note = s[t].note /\ r[t].person = s[t].person
          /\ r[t].generation = s[t].generation
          /\ Counts(r[t].attempt)
          /\ s[t].attempt.answer # "no" => r[t].attempt.answer = s[t].attempt.answer

LEMMA AdvancesKeeps ==
    ASSUME NEW s, NEW r, Advances(s, r), SendsInOrder(s)
    PROVE  /\ SendsInOrder(r)
           /\ \A n, p : SendsFor(r, n, p) = SendsFor(s, n, p)
           /\ \A d, n, p : Fits(d, s, n, p) => Fits(d, r, n, p)
  <1>1. SendsInOrder(r)
    BY DEF Advances, SendsInOrder
  <1>2. ASSUME NEW n, NEW p
        PROVE  SendsFor(r, n, p) = SendsFor(s, n, p)
    BY DEF Advances, SendsFor
  <1>3. ASSUME NEW d, NEW n, NEW p, Fits(d, s, n, p)
        PROVE  Fits(d, r, n, p)
    <2>1. \A t \in SendsFor(s, n, p) : t \in DOMAIN s
      BY DEF SendsFor
    <2>2. \A t \in SendsFor(s, n, p) : r[t].generation = s[t].generation
      BY <2>1 DEF Advances
    <2>3. \A t \in SendsFor(s, n, p) : s[t].attempt.answer # "no"
              => r[t].attempt.answer = s[t].attempt.answer
      BY <2>1 DEF Advances
    <2>4. SendsFor(r, n, p) = SendsFor(s, n, p)
      BY <1>2
    <2> QED BY <1>3, <2>2, <2>3, <2>4 DEF Fits
  <1> QED BY <1>1, <1>2, <1>3

LEMMA InitWallet == WalletInit => WalletInOrder(wallet)
  <1> SUFFICES ASSUME WalletInit PROVE WalletInOrder(wallet)
    OBVIOUS
  <1>1. NoEvent \in Event /\ NoDelivery \in Delivery
    <2>1. 0 \in 0..SendAttempts
      BY DeliveriesAssumption
    <2> QED BY <2>1 DEF NoEvent, NoDelivery, Event, Delivery, EventStates, DeliveryStates
  <1>2. wallet.sends = << >> /\ wallet.actions = {}
        /\ wallet.event = [n \in Notes |-> NoEvent]
        /\ wallet.delivery = [n \in Notes |-> [p \in People |-> NoDelivery]]
        /\ wallet.claims = << >>
    BY DEF WalletInit
  <1>3. wallet \in Tables
    <2>1. << >> \in Seq(Send) /\ << >> \in Seq(Notes)
      BY EmptySeq
    <2> QED BY <1>1, <2>1 DEF WalletInit, Tables
  <1>4. DOMAIN wallet.sends = {}
    BY <1>2
  <1>5. IsFiniteSet(wallet.actions) /\ AskedAsOften(wallet)
    <2>1. IsFiniteSet({}) /\ Cardinality({}) = 0
      BY FS_EmptySet
    <2>2. \A n, p : AskedFor({}, n, p) = {}
      BY DEF AskedFor
    <2>3. \A n \in Notes, p \in People : wallet.delivery[n][p].generation = 0
      BY <1>2 DEF NoDelivery
    <2> QED BY <1>2, <2>1, <2>2, <2>3 DEF AskedAsOften
  <1>6. Unprepared(wallet)
    BY <1>2 DEF Unprepared
  <1>7. ASSUME NEW n \in Notes, NEW p \in People
        PROVE  Fits(wallet.delivery[n][p], wallet.sends, n, p)
    <2>1. wallet.delivery[n][p] = NoDelivery /\ SendsFor(wallet.sends, n, p) = {}
      BY <1>2, <1>4 DEF SendsFor
    <2> QED BY <2>1 DEF Fits, NoDelivery
  <1>8. SendsInOrder(wallet.sends)
    BY <1>4 DEF SendsInOrder
  <1> QED BY <1>3, <1>5, <1>6, <1>7, <1>8 DEF WalletInOrder

\* What the commands that only change an event have in common.
LEMMA EventChange ==
    ASSUME NEW w, WalletInOrder(w), NEW n \in Notes, NEW e \in Event,
           e.state = "prepared" \/ w.event[n].state # "prepared",
           NEW v, v \in Tables, v.event = [w.event EXCEPT ![n] = e],
           v.delivery = w.delivery, v.sends = w.sends, v.actions = w.actions
    PROVE  WalletInOrder(v)
  <1>1. w \in Tables /\ IsFiniteSet(w.actions)
    BY DEF WalletInOrder
  <1>2. \A k \in Notes : v.event[k].state # "prepared" => w.event[k].state # "prepared"
    BY <1>1, TablesParts
  <1> QED BY <1>1, <1>2, EventKeeps

LEMMA ClaimEventKeeps ==
    ASSUME NEW w, WalletInOrder(w), NEW n \in Notes, ClaimEvent(w, n)
    PROVE  WalletInOrder(wallet')
  <1> PICK v : v = wallet'
    OBVIOUS
  <1>1. w \in Tables /\ w.event[n] \in Event /\ w.event[n].state # "prepared"
    BY TablesParts DEF WalletInOrder, ClaimEvent
  <1> PICK e : e = [w.event[n] EXCEPT !.state = "preparing", !.tries = @ + 1,
                                      !.claim = Len(w.claims) + 1]
    OBVIOUS
  <1>2. e \in Event
    <2>1. Len(w.claims) + 1 \in Nat /\ w.event[n].tries + 1 \in Nat
      BY <1>1, TablesParts DEF Event
    <2> QED BY <1>1, <2>1 DEF Event, EventStates
  <1>3. v = [w EXCEPT !.event[n] = e, !.claims = Append(@, n)]
    BY DEF ClaimEvent
  <1>4. v.event = [w.event EXCEPT ![n] = e] /\ v.claims = Append(w.claims, n)
        /\ v.delivery = w.delivery /\ v.sends = w.sends /\ v.actions = w.actions
    BY <1>1, <1>3 DEF Tables
  <1>5. v \in Tables
    <2>1. Append(w.claims, n) \in Seq(Notes) /\ [w.event EXCEPT ![n] = e] \in [Notes -> Event]
      BY <1>1, <1>2, TablesParts, AppendProperties
    <2> QED BY <1>1, <1>3, <2>1 DEF Tables
  <1>6. WalletInOrder(v)
    BY ONLY <1>1, <1>2, <1>4, <1>5, WalletInOrder(w), EventChange
  <1> QED BY <1>6

LEMMA FailEventKeeps ==
    ASSUME NEW w, WalletInOrder(w), NEW c \in DOMAIN w.claims, FailEvent(w, c)
    PROVE  WalletInOrder(wallet')
  <1> PICK v : v = wallet'
    OBVIOUS
  <1> PICK n : n = w.claims[c]
    OBVIOUS
  <1>1. n \in Notes /\ w \in Tables /\ w.event[n] \in Event /\ w.event[n].state # "prepared"
    BY TablesParts DEF WalletInOrder, FailEvent
  <1> PICK e : e = [w.event[n] EXCEPT !.state = "failed"]
    OBVIOUS
  <1>2. e \in Event
    BY <1>1 DEF Event, EventStates
  <1>3. v = [w EXCEPT !.event[n] = e]
    BY <1>1 DEF FailEvent, Tables
  <1>4. v.event = [w.event EXCEPT ![n] = e]
        /\ v.delivery = w.delivery /\ v.sends = w.sends /\ v.actions = w.actions
    BY <1>1, <1>3 DEF Tables
  <1>5. v \in Tables
    <2>1. [w.event EXCEPT ![n] = e] \in [Notes -> Event]
      BY <1>1, <1>2, TablesParts
    <2> QED BY <1>1, <1>3, <2>1 DEF Tables
  <1>6. WalletInOrder(v)
    BY ONLY <1>1, <1>2, <1>4, <1>5, WalletInOrder(w), EventChange
  <1> QED BY <1>6

\* A delivery that nothing was claimed or tried for fits the sends as its absence did.
LEMMA FitsUntouched ==
    ASSUME NEW d, NEW s, NEW n, NEW p, Fits(NoDelivery, s, n, p),
           d.state \in {"absent", "suppressed", "pending"},
           d.generation = 0, d.claim = 0, d.tries = 0
    PROVE  Fits(d, s, n, p)
  <1>1. /\ \A t \in SendsFor(s, n, p) : s[t].generation <= 0
        /\ \A t \in SendsFor(s, n, p) : s[t].generation # 0
    BY DEF Fits, NoDelivery
  <1> QED BY <1>1 DEF Fits

\* A plan becomes deliveries nobody was sent anything for.
LEMMA PrepareKeeps ==
    ASSUME NEW w, WalletInOrder(w), NEW c \in DOMAIN w.claims, NEW plan \in Plans,
           Prepare(w, c, plan)
    PROVE  WalletInOrder(wallet')
  <1> PICK v : v = wallet'
    OBVIOUS
  <1> PICK n : n = w.claims[c]
    OBVIOUS
  <1>1. n \in Notes /\ w \in Tables /\ w.event[n] \in Event /\ w.event[n].state # "prepared"
    BY TablesParts DEF WalletInOrder, Prepare
  <1> PICK e : e = [w.event[n] EXCEPT !.state = "prepared", !.plan = plan]
    OBVIOUS
  <1> PICK D : D = [p \in People |->
            [NoDelivery EXCEPT !.state = CASE plan[p] = "absent" -> "absent"
                                           [] plan[p] = "none" -> "suppressed"
                                           [] OTHER -> "pending"]]
    OBVIOUS
  <1>2. e \in Event
    BY <1>1 DEF Event, EventStates
  <1>3. ASSUME NEW p \in People
        PROVE  /\ D[p] \in Delivery /\ D[p].state \in {"absent", "suppressed", "pending"}
               /\ D[p].generation = 0 /\ D[p].claim = 0 /\ D[p].tries = 0
    <2>1. PICK state \in {"absent", "suppressed", "pending"} :
             D[p] = [NoDelivery EXCEPT !.state = state]
      BY <1>3
    <2>2. 0 \in 0..SendAttempts
      BY DeliveriesAssumption
    <2> QED BY <2>1, <2>2 DEF NoDelivery, Delivery, DeliveryStates
  <1>4. v = [w EXCEPT !.event[n] = e, !.delivery[n] = D]
    BY <1>1, ZenonT(90) DEF Prepare, Tables
  <1>5. v.event = [w.event EXCEPT ![n] = e] /\ v.delivery = [w.delivery EXCEPT ![n] = D]
        /\ v.sends = w.sends /\ v.actions = w.actions
    BY <1>1, <1>4 DEF Tables
  <1>6. D \in [People -> Delivery]
    BY <1>3
  <1>7. v \in Tables
    <2>1. [w.event EXCEPT ![n] = e] \in [Notes -> Event]
          /\ [w.delivery EXCEPT ![n] = D] \in [Notes -> [People -> Delivery]]
      BY <1>1, <1>2, <1>6, TablesParts
    <2> QED BY <1>1, <1>4, <2>1 DEF Tables
  <1>8. \A p \in People : w.delivery[n][p] = NoDelivery
    BY <1>1 DEF WalletInOrder, Unprepared
  <1>9. \A p \in People : v.delivery[n][p] = D[p]
    BY <1>1, <1>5, TablesParts
  <1>10. \A k \in Notes : k # n => v.delivery[k] = w.delivery[k] /\ v.event[k] = w.event[k]
    BY <1>1, <1>5, TablesParts
  <1>11. v.event[n].state = "prepared"
    <2>1. e.state = "prepared"
      BY <1>1 DEF Event
    <2> QED BY <1>1, <1>5, <2>1, TablesParts
  <1>12. Unprepared(v)
    BY <1>10, <1>11 DEF WalletInOrder, Unprepared
  <1>13. AskedAsOften(v)
    <2> SUFFICES ASSUME NEW k \in Notes, NEW p \in People
                 PROVE  v.delivery[k][p].generation = Cardinality(AskedFor(w.actions, k, p))
      BY <1>5 DEF AskedAsOften
    <2>1. w.delivery[k][p].generation = Cardinality(AskedFor(w.actions, k, p))
      BY DEF WalletInOrder, AskedAsOften
    <2>2. v.delivery[k][p].generation = w.delivery[k][p].generation
      BY <1>3, <1>8, <1>9, <1>10, SMTT(60) DEF NoDelivery
    <2> QED BY <2>1, <2>2
  <1>14. ASSUME NEW k \in Notes, NEW p \in People
         PROVE  Fits(v.delivery[k][p], v.sends, k, p)
    <2>0. Fits(w.delivery[k][p], w.sends, k, p)
      BY SMTT(60) DEF WalletInOrder
    <2>1. CASE k = n
      <3>1. Fits(NoDelivery, w.sends, k, p)
        BY <1>8, <2>0, <2>1
      <3>2. v.delivery[k][p] = D[p] /\ v.sends = w.sends
        BY <1>5, <1>9, <2>1
      <3>3. Fits(D[p], w.sends, k, p)
        BY ONLY <1>3, <3>1, p \in People, FitsUntouched
      <3> QED BY <3>2, <3>3
    <2>2. CASE k # n
      BY <1>5, <1>10, <2>0, <2>2
    <2> QED BY <2>1, <2>2
  <1>15. WalletInOrder(v)
    BY <1>5, <1>7, <1>12, <1>13, <1>14 DEF WalletInOrder
  <1> QED BY <1>15

\* What is sent before it was decided that a delivery is sent again has failed.
LEMMA RefusedBefore ==
    ASSUME NEW s, s \in Seq(Send), SendsInOrder(s), NEW d, NEW n, NEW p, Fits(d, s, n, p),
           d.claim \in Nat, d.state \in {"pending", "failed"}
    PROVE  \A t \in SendsFor(s, n, p) :
               s[t].generation = d.generation => s[t].attempt.answer = "refused"
  <1> SUFFICES ASSUME NEW t \in SendsFor(s, n, p), s[t].generation = d.generation
               PROVE  s[t].attempt.answer = "refused"
    OBVIOUS
  <1>0. DOMAIN s = 1..Len(s) /\ Len(s) \in Nat
    BY LenProperties
  <1>1. d.state = "failed" /\ d.claim # 0
    BY DEF Fits
  <1>2. /\ d.claim \in DOMAIN s /\ s[d.claim].note = n /\ s[d.claim].person = p
        /\ s[d.claim].generation = d.generation /\ t <= d.claim
        /\ s[d.claim].attempt.answer = "refused"
    BY <1>1 DEF Fits, SendsFor
  <1>3. t \in DOMAIN s /\ s[t].note = n /\ s[t].person = p
    BY DEF SendsFor
  <1>4. CASE t = d.claim
    BY <1>2, <1>4
  <1>5. CASE t < d.claim
    BY <1>2, <1>3, <1>5 DEF SendsInOrder
  <1> QED BY <1>0, <1>2, <1>3, <1>4, <1>5

LEMMA ClaimDeliveryKeeps ==
    ASSUME NEW w, WalletInOrder(w), NEW n \in Notes, NEW p \in People, ClaimDelivery(w, n, p)
    PROVE  WalletInOrder(wallet')
  <1> PICK v : v = wallet'
    OBVIOUS
  <1> PICK d : d = w.delivery[n][p]
    OBVIOUS
  <1> PICK s : s = w.sends
    OBVIOUS
  <1>0. /\ w \in Tables /\ SendsInOrder(s) /\ d \in Delivery /\ Fits(d, s, n, p)
        /\ s \in Seq(Send) /\ DOMAIN s = 1..Len(s) /\ Len(s) \in Nat
        /\ d.state \in {"pending", "failed"}
        /\ d.state = "failed" => d.tries < SendAttempts
    BY TablesParts DEF WalletInOrder, ClaimDelivery
  <1> PICK x : x = [d EXCEPT !.state = "sending", !.tries = @ + 1, !.claim = Len(s) + 1]
    OBVIOUS
  <1> PICK row : row = [note |-> n, person |-> p, generation |-> d.generation,
                        attempt |-> Fresh]
    OBVIOUS
  <1> PICK r : r = Append(s, row)
    OBVIOUS
  <1>1. v = [w EXCEPT !.delivery[n][p] = x, !.sends = Append(@, row)]
    BY DEF ClaimDelivery
  <1>2. v.delivery = [w.delivery EXCEPT ![n][p] = x] /\ v.sends = r
        /\ v.event = w.event /\ v.actions = w.actions
    <2>1. w \in Tables /\ r = Append(w.sends, row)
      BY <1>0
    <2> QED BY ONLY <1>1, <2>1 DEF Tables
  <1>3. x \in Delivery /\ x.claim = Len(s) + 1 /\ x.state = "sending"
        /\ x.generation = d.generation
    <2>1. d.tries + 1 \in 0..SendAttempts
      <3>1. d.state = "pending" => d.tries = 0
        BY <1>0 DEF Fits
      <3>2. d.tries \in 0..SendAttempts /\ SendAttempts \in Nat \ {0}
        BY <1>0, DeliveriesAssumption DEF Delivery
      <3> QED BY <1>0, <3>1, <3>2, SMTT(60)
    <2>2. Len(s) + 1 \in Nat
      BY <1>0
    <2>3. x = [state |-> "sending", generation |-> d.generation, tries |-> d.tries + 1,
               claim |-> Len(s) + 1]
      BY <1>0 DEF Delivery
    <2> QED BY <1>0, <2>1, <2>2, <2>3 DEF Delivery, DeliveryStates
  <1>4. row \in Send /\ Counts(row.attempt)
    <2>1. d.generation \in Nat
      BY <1>0 DEF Delivery
    <2> QED BY <2>1, FreshAttempt DEF Send
  <1>5. /\ r \in Seq(Send) /\ Len(r) = Len(s) + 1
        /\ \A t \in 1..Len(s) : r[t] = s[t]
        /\ r[Len(s) + 1] = row
    BY <1>0, <1>4, AppendProperties
  <1>6. DOMAIN r = DOMAIN s \cup {Len(s) + 1} /\ \A t \in DOMAIN s : t < Len(s) + 1 /\ r[t] = s[t]
    <2>1. DOMAIN r = 1..(Len(s) + 1)
      BY <1>5, LenProperties, SMTT(60)
    <2> QED BY <1>0, <1>5, <2>1
  <1>7. v \in Tables
    <2>1. [w.delivery EXCEPT ![n][p] = x] \in [Notes -> [People -> Delivery]]
      BY <1>0, <1>3, TablesParts
    <2> QED BY <1>0, <1>1, <1>5, <2>1, ZenonT(90) DEF Tables
  <1>8. SendsFor(r, n, p) = SendsFor(s, n, p) \cup {Len(s) + 1}
    <2>1. row.note = n /\ row.person = p
      OBVIOUS
    <2> QED BY ONLY <1>5, <1>6, <2>1 DEF SendsFor
  <1>9. ASSUME NEW k \in Notes, NEW q \in People, <<k, q>> # <<n, p>>
        PROVE  SendsFor(r, k, q) = SendsFor(s, k, q)
    <2>1. row.note = n /\ row.person = p
      OBVIOUS
    <2>2. ~ (row.note = k /\ row.person = q)
      BY ONLY <1>9, <2>1
    <2> QED BY ONLY <1>5, <1>6, <2>2 DEF SendsFor
  <1>10. SendsInOrder(r)
    <2>1. \A t \in DOMAIN r : Counts(r[t].attempt)
      <3>1. \A t \in DOMAIN s : Counts(s[t].attempt)
        BY ONLY <1>0 DEF SendsInOrder
      <3> QED BY ONLY <1>4, <1>5, <1>6, <3>1
    <2>2. ASSUME NEW t \in DOMAIN r, NEW u \in DOMAIN r, t < u, r[t].note = r[u].note,
                 r[t].person = r[u].person, r[t].generation = r[u].generation
          PROVE  r[t].attempt.answer = "refused"
      <3>1. t \in DOMAIN s /\ r[t] = s[t]
        BY ONLY <1>0, <1>6, <2>2
      <3>2. CASE u \in DOMAIN s
        <4>1. r[u] = s[u] /\ t < u /\ s[t].note = s[u].note /\ s[t].person = s[u].person
              /\ s[t].generation = s[u].generation
          BY <1>6, <2>2, <3>1, <3>2
        <4>2. s[t].attempt.answer = "refused"
          BY ONLY <1>0, <3>1, <3>2, <4>1 DEF SendsInOrder
        <4> QED BY ONLY <3>1, <4>2
      <3>3. CASE u = Len(s) + 1
        <4>1. t \in SendsFor(s, n, p) /\ s[t].generation = d.generation
          BY <1>5, <2>2, <3>1, <3>3 DEF SendsFor
        <4>2. d.claim \in Nat
          BY <1>0 DEF Delivery
        <4> QED BY <1>0, <3>1, <4>1, <4>2, RefusedBefore, SMTT(60)
      <3> QED BY <1>6, <3>2, <3>3
    <2> QED BY <2>1, <2>2 DEF SendsInOrder
  <1>11. Fits(x, r, n, p)
    <2>1. \A t \in SendsFor(s, n, p) : t \in DOMAIN s /\ t < Len(s) + 1 /\ r[t] = s[t]
      BY <1>6, SMTT(60) DEF SendsFor
    <2>2. \A t \in SendsFor(r, n, p) : r[t].generation <= x.generation /\ t <= Len(s) + 1
      <3>1. d.generation \in Nat /\ x.generation = d.generation
        BY <1>0, <1>3 DEF Delivery
      <3>2. \A t \in SendsFor(s, n, p) : s[t].generation <= d.generation
        BY <1>0 DEF Fits
      <3>3. row.generation = d.generation
        OBVIOUS
      <3>4. r[Len(s) + 1].generation = d.generation
        BY <1>5, <3>3
      <3>5. ASSUME NEW t \in SendsFor(s, n, p)
            PROVE  r[t].generation <= x.generation /\ t <= Len(s) + 1
        <4>1. t \in 1..Len(s) /\ r[t] = s[t] /\ s[t].generation <= d.generation
          BY <1>0, <2>1, <3>2
        <4> QED BY ONLY <1>0, <3>1, <4>1
      <3>6. r[Len(s) + 1].generation <= x.generation /\ Len(s) + 1 <= Len(s) + 1
        BY ONLY <1>0, <3>1, <3>4
      <3> QED BY <1>8, <3>5, <3>6
    <2>3. x.claim # 0 /\ x.claim \in SendsFor(r, n, p) /\ r[x.claim].generation = x.generation
      <3>1. row.generation = d.generation
        OBVIOUS
      <3>2. r[Len(s) + 1].generation = d.generation
        BY ONLY <1>5, <3>1
      <3> QED BY ONLY <1>0, <1>3, <1>8, <3>2
    <2> QED BY <1>3, <2>2, <2>3, ZenonT(90) DEF Fits
  <1>12. ASSUME NEW k \in Notes, NEW q \in People, <<k, q>> # <<n, p>>
         PROVE  v.delivery[k][q] = w.delivery[k][q] /\ Fits(v.delivery[k][q], r, k, q)
    <2>1. v.delivery[k][q] = w.delivery[k][q]
      <3>1. w.delivery \in [Notes -> [People -> Delivery]] /\ n \in Notes /\ p \in People
        BY <1>0, TablesParts
      <3> QED BY ONLY <1>2, <1>12, <3>1
    <2>2. Fits(w.delivery[k][q], s, k, q)
      BY DEF WalletInOrder
    <2>3. \A t \in SendsFor(s, k, q) : r[t] = s[t]
      BY <1>6 DEF SendsFor
    <2>4. SendsFor(r, k, q) = SendsFor(s, k, q)
      BY <1>9, <1>12
    <2> QED BY <2>1, <2>2, <2>3, <2>4, ZenonT(90) DEF Fits
  <1>13. v.delivery[n][p] = x
    <2>1. w.delivery \in [Notes -> [People -> Delivery]] /\ n \in Notes /\ p \in People
      BY <1>0, TablesParts
    <2> QED BY ONLY <1>2, <2>1
  <1>14. w.event[n].state = "prepared"
    <2>1. d # NoDelivery
      BY <1>0 DEF NoDelivery
    <2> QED BY <2>1 DEF WalletInOrder, Unprepared
  <1>15. x.generation = Cardinality(AskedFor(w.actions, n, p)) /\ IsFiniteSet(w.actions)
    BY <1>3 DEF WalletInOrder, AskedAsOften
  <1>16. \A k \in Notes, q \in People : <<k, q>> # <<n, p>> =>
            /\ v.delivery[k][q] = w.delivery[k][q]
            /\ Fits(v.delivery[k][q], v.sends, k, q)
            /\ AskedFor(v.actions, k, q) = AskedFor(w.actions, k, q)
    BY ONLY <1>2, <1>12
  <1>17. /\ WalletInOrder(w) /\ v \in Tables /\ n \in Notes /\ p \in People
         /\ v.event = w.event /\ SendsInOrder(v.sends) /\ w.event[n].state = "prepared"
         /\ Fits(v.delivery[n][p], v.sends, n, p) /\ IsFiniteSet(v.actions)
         /\ v.delivery[n][p].generation = Cardinality(AskedFor(v.actions, n, p))
    BY <1>2, <1>7, <1>10, <1>11, <1>13, <1>14, <1>15
  <1>18. WalletInOrder(v)
    BY ONLY <1>16, <1>17, DeliveryKeeps
  <1> QED BY <1>18

LEMMA SendRows ==
    ASSUME NEW w, WalletInOrder(w), NEW t \in DOMAIN w.sends
    PROVE  /\ w.sends[t] \in Send /\ w.sends[t].note \in Notes /\ w.sends[t].person \in People
           /\ w.sends[t].attempt \in Attempt /\ Counts(w.sends[t].attempt)
           /\ t # 0 /\ w \in Tables /\ SendsInOrder(w.sends)
           /\ w.sends \in Seq(Send) /\ DOMAIN w.sends = 1..Len(w.sends) /\ Len(w.sends) \in Nat
           /\ \A u \in DOMAIN w.sends : Counts(w.sends[u].attempt)
  <1>1. w \in Tables /\ SendsInOrder(w.sends)
    BY DEF WalletInOrder
  <1>2. w.sends[t] \in Send /\ DOMAIN w.sends = 1..Len(w.sends) /\ Len(w.sends) \in Nat
        /\ w.sends \in Seq(Send)
    BY <1>1, TablesParts
  <1> QED BY <1>1, <1>2 DEF Send, SendsInOrder

\* One attempt changes.
Changes(w, t, a, row, r) ==
    /\ WalletInOrder(w) /\ t \in DOMAIN w.sends /\ a \in Attempt /\ Counts(a)
    /\ w.sends[t].attempt.answer # "no" => a.answer = w.sends[t].attempt.answer
    /\ row = [w.sends[t] EXCEPT !.attempt = a]
    /\ r = [w.sends EXCEPT ![t] = row]

LEMMA AttemptChange ==
    ASSUME NEW w, NEW t, NEW a, NEW row, NEW r, Changes(w, t, a, row, r)
    PROVE  r \in Seq(Send) /\ Advances(w.sends, r) /\ r[t].attempt = a
  <1> PICK s : s = w.sends
    OBVIOUS
  <1>1. s[t] \in Send /\ s \in Seq(Send) /\ DOMAIN s = 1..Len(s) /\ Len(s) \in Nat
        /\ \A u \in DOMAIN s : Counts(s[u].attempt)
    BY SendRows DEF Changes
  <1>2. row \in Send /\ row.attempt = a /\ row.note = s[t].note /\ row.person = s[t].person
        /\ row.generation = s[t].generation
    BY <1>1 DEF Changes, Send
  <1>3. r = [s EXCEPT ![t] = row] /\ t \in DOMAIN s
    BY DEF Changes
  <1>4. DOMAIN r = DOMAIN s /\ r[t] = row /\ \A u \in DOMAIN s : u # t => r[u] = s[u]
    BY <1>3
  <1>5. r \in Seq(Send)
    <2>1. \A u \in DOMAIN s : s[u] \in Send
      BY <1>1, ElementOfSeq
    <2>2. r \in [1..Len(s) -> Send]
      BY <1>1, <1>2, <1>3, <2>1
    <2> QED BY <1>1, <2>2
  <1>6. Advances(s, r)
    BY <1>1, <1>2, <1>4 DEF Changes, Advances
  <1> QED BY <1>2, <1>4, <1>5, <1>6

LEMMA CompleteKeeps ==
    ASSUME NEW w, WalletInOrder(w), NEW t \in DOMAIN w.sends,
           NEW o \in {"sent", "failed", "unknown"}, Complete(w, t, o)
    PROVE  WalletInOrder(wallet')
  <1>def_v. PICK v : v = wallet'
    OBVIOUS
  <1>def_s. PICK s : s = w.sends
    OBVIOUS
  <1>def_n. PICK n : n = s[t].note
    OBVIOUS
  <1>def_p. PICK p : p = s[t].person
    OBVIOUS
  <1>def_d. PICK d : d = w.delivery[n][p]
    OBVIOUS
  <1>0. /\ n \in Notes /\ p \in People /\ s[t].attempt \in Attempt /\ Counts(s[t].attempt)
        /\ w \in Tables /\ SendsInOrder(s) /\ s \in Seq(Send) /\ t # 0 /\ s[t] \in Send
    BY SendRows, <1>def_s, <1>def_n, <1>def_p, SMTT(60)
  <1>00. d.state = "sending" /\ d.claim = t /\ Tellable(s[t].attempt, o)
    BY <1>def_s, <1>def_n, <1>def_p, <1>def_d DEF Complete
  <1>1. d \in Delivery /\ d.state = "sending" /\ d.claim = t /\ Tellable(s[t].attempt, o)
        /\ Fits(d, s, n, p)
    <2>1. w.delivery \in [Notes -> [People -> Delivery]]
      BY <1>0, TablesParts
    <2>2. Fits(d, s, n, p)
      BY <1>0, <1>def_s, <1>def_d DEF WalletInOrder
    <2> QED BY <1>0, <1>00, <2>1, <2>2, <1>def_d
  <1>def_a. PICK a : a = [s[t].attempt EXCEPT !.outcome = o]
    OBVIOUS
  <1>2. a \in Attempt /\ Counts(a) /\ a.answer = s[t].attempt.answer
    <2>1. /\ s[t].attempt \in Attempt /\ Counts(s[t].attempt)
          /\ o \in {"none", "sent", "not_sent", "failed", "unknown"}
          /\ a = [s[t].attempt EXCEPT !.outcome = o]
      BY <1>0, <1>def_a
    <2> QED BY ONLY <2>1, ToldAttempt
  <1>def_row. PICK row : row = [s[t] EXCEPT !.attempt = a]
    OBVIOUS
  <1>def_r. PICK r : r = [s EXCEPT ![t] = row]
    OBVIOUS
  <1>3. r \in Seq(Send) /\ Advances(s, r) /\ r[t].attempt = a
    <2>1. Changes(w, t, a, row, r)
      BY <1>2, <1>def_s, <1>def_row, <1>def_r DEF Changes
    <2>2. r \in Seq(Send) /\ Advances(w.sends, r) /\ r[t].attempt = a
      BY ONLY <2>1, AttemptChange
    <2> QED BY <2>2, <1>def_s
  <1>4. /\ SendsInOrder(r) /\ SendsFor(r, n, p) = SendsFor(s, n, p)
        /\ \A e, k, q : Fits(e, s, k, q) => Fits(e, r, k, q)
    <2>1. Advances(s, r) /\ SendsInOrder(s)
      BY <1>0, <1>3
    <2> QED BY ONLY <2>1, AdvancesKeeps
  <1>def_x. PICK x : x = [d EXCEPT !.state = o]
    BY Zenon
  <1>5. /\ x \in Delivery /\ x.state = o /\ x.claim = t /\ x.generation = d.generation
        /\ x.tries = d.tries
    BY <1>1, <1>def_x DEF Delivery, DeliveryStates
  <1>6. v = [w EXCEPT !.delivery[n][p].state = o, !.sends[t].attempt.outcome = o]
    BY <1>def_v, <1>def_s, <1>def_n, <1>def_p, Zenon DEF Complete
  <1>7. v.delivery = [w.delivery EXCEPT ![n][p] = x] /\ v.sends = r
        /\ v.event = w.event /\ v.actions = w.actions /\ v.claims = w.claims
    <2>1. v.delivery = [w.delivery EXCEPT ![n][p].state = o]
          /\ v.sends = [s EXCEPT ![t].attempt.outcome = o]
          /\ v.event = w.event /\ v.actions = w.actions /\ v.claims = w.claims
      BY <1>0, <1>6, <1>def_s DEF Tables
    <2>2. [w.delivery EXCEPT ![n][p].state = o] = [w.delivery EXCEPT ![n][p] = x]
      BY <1>def_x, <1>def_d
    <2>3. [s EXCEPT ![t].attempt.outcome = o] = r
      BY <1>def_a, <1>def_row, <1>def_r
    <2> QED BY <2>1, <2>2, <2>3
  <1>8. v \in Tables
    <2>1. v.delivery \in [Notes -> [People -> Delivery]]
      <3>1. /\ w.delivery \in [Notes -> [People -> Delivery]] /\ x \in Delivery
            /\ n \in Notes /\ p \in People
            /\ v.delivery = [w.delivery EXCEPT ![n][p] = x]
        BY <1>0, <1>5, <1>7, TablesParts
      <3> QED BY ONLY <3>1
    <2>2. v = [event |-> v.event, delivery |-> v.delivery, sends |-> v.sends,
               claims |-> v.claims, actions |-> v.actions]
      BY <1>0, <1>6 DEF Tables
    <2> QED BY <1>0, <1>3, <1>7, <2>1, <2>2, TablesParts DEF Tables
  <1>9. Fits(x, r, n, p)
    <2>1. Fits(d, r, n, p)
      BY <1>1, <1>4
    <2>2. x.state = "sent" => a.answer = "accepted"
      BY <1>1, <1>2, <1>5 DEF Tellable
    <2>3. x.state = "failed" => a.answer = "refused"
      BY <1>1, <1>2, <1>5 DEF Tellable
    <2>4. /\ x.state = o /\ x.claim = t /\ x.generation = d.generation /\ x.tries = d.tries
          /\ o \in {"sent", "failed", "unknown"} /\ t # 0 /\ d.claim = t /\ r[t].attempt = a
      BY <1>0, <1>1, <1>3, <1>5
    <2> QED BY ONLY <2>1, <2>2, <2>3, <2>4 DEF Fits
  <1>10. ASSUME NEW k \in Notes, NEW q \in People, <<k, q>> # <<n, p>>
         PROVE  v.delivery[k][q] = w.delivery[k][q] /\ Fits(v.delivery[k][q], r, k, q)
    <2>1. v.delivery[k][q] = w.delivery[k][q]
      <3>1. /\ w.delivery \in [Notes -> [People -> Delivery]] /\ n \in Notes /\ p \in People
            /\ v.delivery = [w.delivery EXCEPT ![n][p] = x]
            /\ k \in Notes /\ q \in People /\ (k # n \/ q # p)
        BY <1>0, <1>7, <1>10, TablesParts
      <3> QED BY ONLY <3>1
    <2>2. Fits(w.delivery[k][q], s, k, q)
      BY <1>def_s DEF WalletInOrder
    <2> QED BY <1>4, <2>1, <2>2
  <1>11. v.delivery[n][p] = x
    <2>1. /\ w.delivery \in [Notes -> [People -> Delivery]] /\ n \in Notes /\ p \in People
          /\ v.delivery = [w.delivery EXCEPT ![n][p] = x]
      BY <1>0, <1>7, TablesParts
    <2> QED BY ONLY <2>1
  <1>12. w.event[n].state = "prepared"
    <2>1. w.delivery[n][p] # NoDelivery
      <3>1. w.delivery[n][p].state = "sending"
        BY <1>00, <1>def_d
      <3> QED BY ONLY <3>1 DEF NoDelivery
    <2> QED BY <1>0, <2>1 DEF WalletInOrder, Unprepared
  <1>13. x.generation = Cardinality(AskedFor(w.actions, n, p)) /\ IsFiniteSet(w.actions)
    BY <1>0, <1>5, <1>def_d DEF WalletInOrder, AskedAsOften
  <1>14. \A k \in Notes, q \in People : <<k, q>> # <<n, p>> =>
            /\ v.delivery[k][q] = w.delivery[k][q]
            /\ Fits(v.delivery[k][q], v.sends, k, q)
            /\ AskedFor(v.actions, k, q) = AskedFor(w.actions, k, q)
    <2>1. v.sends = r /\ v.actions = w.actions
      BY <1>7
    <2> QED BY ONLY <1>10, <2>1
  <1>15. /\ WalletInOrder(w) /\ v \in Tables /\ n \in Notes /\ p \in People
         /\ v.event = w.event /\ SendsInOrder(v.sends) /\ w.event[n].state = "prepared"
         /\ Fits(v.delivery[n][p], v.sends, n, p) /\ IsFiniteSet(v.actions)
         /\ v.delivery[n][p].generation = Cardinality(AskedFor(v.actions, n, p))
    BY <1>0, <1>4, <1>7, <1>8, <1>9, <1>11, <1>12, <1>13
  <1>16. WalletInOrder(v)
    BY ONLY <1>14, <1>15, DeliveryKeeps
  <1> QED BY <1>16, <1>def_v

LEMMA SendsKeep ==
    ASSUME NEW w, WalletInOrder(w), NEW v, v \in Tables, v.event = w.event,
           v.delivery = w.delivery, v.actions = w.actions, Advances(w.sends, v.sends)
    PROVE  WalletInOrder(v)
  <1>1. Advances(w.sends, v.sends) /\ SendsInOrder(w.sends)
    BY DEF WalletInOrder
  <1>2. /\ SendsInOrder(v.sends)
        /\ \A d, n, p : Fits(d, w.sends, n, p) => Fits(d, v.sends, n, p)
    BY ONLY <1>1, AdvancesKeeps
  <1> QED BY <1>2 DEF WalletInOrder, Unprepared, AskedAsOften

LEMMA TransportKeeps ==
    ASSUME WalletInOrder(wallet), NEW t, WalletTransport(t)
    PROVE  WalletInOrder(wallet')
  <1> PICK w : w = wallet
    OBVIOUS
  <1> PICK v : v = wallet'
    OBVIOUS
  <1> PICK s : s = w.sends
    OBVIOUS
  <1>0. WalletInOrder(w) /\ t \in DOMAIN w.sends
    BY DEF WalletTransport
  <1>1. /\ s[t].attempt \in Attempt /\ Counts(s[t].attempt) /\ s[t] \in Send
        /\ w \in Tables /\ s \in Seq(Send)
    BY <1>0, SendRows
  <1>2. PICK answer \in {"accepted", "refused"} :
           v = [w EXCEPT !.sends[t].attempt = Handed(s[t].attempt, answer)]
    BY DEF WalletTransport
  <1> PICK a : a = Handed(s[t].attempt, answer)
    OBVIOUS
  <1>3. a \in Attempt /\ Counts(a) /\ s[t].attempt.answer = "no"
    <2>1. s[t].attempt.answer = "no"
      BY DEF WalletTransport
    <2> QED BY <1>1, <2>1, HandedAttempt
  <1> PICK row : row = [s[t] EXCEPT !.attempt = a]
    OBVIOUS
  <1> PICK r : r = [s EXCEPT ![t] = row]
    OBVIOUS
  <1>4. Changes(w, t, a, row, r)
    BY <1>0, <1>3 DEF Changes
  <1>5. r \in Seq(Send) /\ Advances(w.sends, r)
    BY ONLY <1>4, AttemptChange
  <1>6. v = [w EXCEPT !.sends = r]
    BY <1>1, <1>2 DEF Tables
  <1>7. v \in Tables /\ v.event = w.event /\ v.delivery = w.delivery
        /\ v.actions = w.actions /\ v.sends = r
    <2>1. w \in Tables /\ r \in Seq(Send) /\ v = [w EXCEPT !.sends = r]
      BY <1>1, <1>5, <1>6
    <2> QED BY ONLY <2>1 DEF Tables
  <1>8. WalletInOrder(v)
    <2>1. /\ WalletInOrder(w) /\ v \in Tables /\ v.event = w.event
          /\ v.delivery = w.delivery /\ v.actions = w.actions /\ Advances(w.sends, v.sends)
      BY <1>0, <1>5, <1>7
    <2> QED BY ONLY <2>1, SendsKeep
  <1> QED BY <1>8

LEMMA DecidedKeeps ==
    ASSUME WalletInOrder(wallet), NEW n \in Notes, Decided(n)
    PROVE  WalletInOrder(wallet')
  <1> PICK w : w = wallet
    OBVIOUS
  <1> PICK v : v = wallet'
    OBVIOUS
  <1> PICK e : e = [NoEvent EXCEPT !.state = "pending"]
    OBVIOUS
  <1>1. WalletInOrder(w) /\ w \in Tables /\ w.event[n].state = "absent"
    BY DEF WalletInOrder, Decided
  <1>2. e \in Event
    BY DEF Event, NoEvent, EventStates
  <1>3. v = [w EXCEPT !.event[n] = e]
    BY DEF Decided
  <1>4. v.event = [w.event EXCEPT ![n] = e]
        /\ v.delivery = w.delivery /\ v.sends = w.sends /\ v.actions = w.actions
    BY <1>1, <1>3 DEF Tables
  <1>5. v \in Tables
    <2>1. [w.event EXCEPT ![n] = e] \in [Notes -> Event]
      BY <1>1, <1>2, TablesParts
    <2> QED BY <1>1, <1>3, <2>1 DEF Tables
  <1>6. WalletInOrder(v)
    BY ONLY <1>1, <1>2, <1>4, <1>5, WalletInOrder(w), EventChange
  <1> QED BY <1>6

\* What finance's request leaves of the deliveries' generations.
Records(A, op, n, p, B) ==
    /\ IsFiniteSet(A) /\ \A b \in A : b.op # op
    /\ B = A \cup {[op |-> op, note |-> n, restarted |-> p]}

LEMMA ActionRecorded ==
    ASSUME NEW A, NEW op, NEW n, NEW p, NEW B, Records(A, op, n, p, B)
    PROVE  /\ IsFiniteSet(B)
           /\ Cardinality(AskedFor(B, n, p)) = Cardinality(AskedFor(A, n, p)) + 1
           /\ \A k, q : k # n \/ q # p => AskedFor(B, k, q) = AskedFor(A, k, q)
  <1> PICK a : a = [op |-> op, note |-> n, restarted |-> p]
    OBVIOUS
  <1>1. a.op = op /\ a.note = n /\ a.restarted = p /\ B = A \cup {a} /\ IsFiniteSet(A)
    BY DEF Records
  <1>2. a \notin A
    BY <1>1 DEF Records
  <1>3. IsFiniteSet(B)
    BY <1>1, FS_AddElement
  <1>4. AskedFor(B, n, p) = AskedFor(A, n, p) \cup {a} /\ a \notin AskedFor(A, n, p)
    BY <1>1, <1>2 DEF AskedFor
  <1>5. IsFiniteSet(AskedFor(A, n, p))
    <2>1. AskedFor(A, n, p) \subseteq A
      BY DEF AskedFor
    <2> QED BY <1>1, <2>1, FS_Subset
  <1>6. Cardinality(AskedFor(B, n, p)) = Cardinality(AskedFor(A, n, p)) + 1
    BY <1>4, <1>5, FS_AddElement
  <1>7. \A k, q : k # n \/ q # p => AskedFor(B, k, q) = AskedFor(A, k, q)
    BY <1>1 DEF AskedFor
  <1> QED BY <1>3, <1>6, <1>7

\* A request that changes an event and no delivery.
LEMMA EventCommand ==
    ASSUME WalletInOrder(wallet), NEW op \in Asks, op \notin Asked(wallet),
           NEW n \in Notes, NEW e \in Event,
           e.state = "prepared" \/ wallet.event[n].state # "prepared",
           wallet' = [wallet EXCEPT !.event[n] = e, !.actions = Recorded(op, n, "nobody")]
    PROVE  WalletInOrder(wallet')
  <1> PICK w : w = wallet
    OBVIOUS
  <1> PICK v : v = wallet'
    OBVIOUS
  <1> PICK B : B = w.actions \cup {[op |-> op, note |-> n, restarted |-> "nobody"]}
    OBVIOUS
  <1>1. WalletInOrder(w) /\ w \in Tables /\ IsFiniteSet(w.actions)
        /\ \A b \in w.actions : b.op # op
    BY DEF WalletInOrder, Asked
  <1>2. /\ IsFiniteSet(B)
        /\ \A k, q : k # n \/ q # "nobody" => AskedFor(B, k, q) = AskedFor(w.actions, k, q)
    <2>1. Records(w.actions, op, n, "nobody", B)
      BY <1>1 DEF Records
    <2> QED BY ONLY <2>1, ActionRecorded
  <1>3. v = [w EXCEPT !.event[n] = e, !.actions = B]
    BY DEF Recorded
  <1>4. v.event = [w.event EXCEPT ![n] = e]
        /\ v.delivery = w.delivery /\ v.sends = w.sends /\ v.actions = B
    BY <1>1, <1>3 DEF Tables
  <1>5. v \in Tables
    <2>1. [w.event EXCEPT ![n] = e] \in [Notes -> Event]
      BY <1>1, TablesParts
    <2>2. B \in SUBSET Action
      BY <1>1, TablesParts DEF Action
    <2> QED BY <1>1, <1>3, <2>1, <2>2 DEF Tables
  <1>6. \A k \in Notes : v.event[k].state # "prepared" => w.event[k].state # "prepared"
    BY <1>1, <1>4, TablesParts
  <1>7. \A k \in Notes, q \in People : AskedFor(v.actions, k, q) = AskedFor(w.actions, k, q)
    <2>1. \A q \in People : q # "nobody"
      BY DeliveriesAssumption
    <2>2. v.actions = B
      BY <1>4
    <2> QED BY ONLY <1>2, <2>1, <2>2
  <1>8. /\ WalletInOrder(w) /\ v \in Tables /\ v.delivery = w.delivery /\ v.sends = w.sends
        /\ IsFiniteSet(v.actions)
    BY <1>1, <1>2, <1>4, <1>5
  <1>9. WalletInOrder(v)
    BY ONLY <1>6, <1>7, <1>8, EventKeeps
  <1> QED BY <1>9

\* A request that starts a delivery again.
LEMMA DeliveryCommand ==
    ASSUME WalletInOrder(wallet), NEW op \in Asks, op \notin Asked(wallet),
           NEW n \in Notes, NEW p \in People,
           wallet.delivery[n][p].state \in {"failed", "unknown", "sent"},
           wallet' = [wallet EXCEPT !.delivery[n][p] = Restarted(wallet.delivery[n][p]),
                                    !.actions = Recorded(op, n, p)]
    PROVE  WalletInOrder(wallet')
  <1> PICK w : w = wallet
    OBVIOUS
  <1> PICK v : v = wallet'
    OBVIOUS
  <1> PICK d : d = w.delivery[n][p]
    OBVIOUS
  <1> PICK x : x = Restarted(d)
    OBVIOUS
  <1> PICK B : B = w.actions \cup {[op |-> op, note |-> n, restarted |-> p]}
    OBVIOUS
  <1>1. WalletInOrder(w) /\ w \in Tables /\ IsFiniteSet(w.actions)
        /\ \A b \in w.actions : b.op # op
    BY DEF WalletInOrder, Asked
  <1>2. /\ IsFiniteSet(B)
        /\ Cardinality(AskedFor(B, n, p)) = Cardinality(AskedFor(w.actions, n, p)) + 1
        /\ \A k, q : k # n \/ q # p => AskedFor(B, k, q) = AskedFor(w.actions, k, q)
    <2>1. Records(w.actions, op, n, p, B)
      BY <1>1 DEF Records
    <2> QED BY ONLY <2>1, ActionRecorded
  <1>3. d \in Delivery /\ d.state \in {"failed", "unknown", "sent"} /\ Fits(d, w.sends, n, p)
        /\ d.generation = Cardinality(AskedFor(w.actions, n, p))
    <2>1. w.delivery \in [Notes -> [People -> Delivery]]
      BY <1>1, TablesParts
    <2> QED BY <1>1, <2>1 DEF WalletInOrder, AskedAsOften
  <1>4. /\ x = [state |-> "pending", generation |-> d.generation + 1, tries |-> 0, claim |-> 0]
        /\ x \in Delivery
    <2>1. d.generation + 1 \in Nat /\ 0 \in 0..SendAttempts
      BY <1>3, DeliveriesAssumption DEF Delivery
    <2> QED BY <2>1 DEF Restarted, NoDelivery, Delivery, DeliveryStates
  <1>5. v = [w EXCEPT !.delivery[n][p] = x, !.actions = B]
    BY DEF Recorded
  <1>6. v.delivery = [w.delivery EXCEPT ![n][p] = x]
        /\ v.event = w.event /\ v.sends = w.sends /\ v.actions = B /\ v.claims = w.claims
    BY <1>1, <1>5 DEF Tables
  <1>7. v \in Tables
    <2>1. v.delivery \in [Notes -> [People -> Delivery]]
      <3>1. w.delivery \in [Notes -> [People -> Delivery]]
        BY <1>1, TablesParts
      <3> QED BY <1>4, <1>6, <3>1
    <2>2. B \in SUBSET Action
      BY <1>1, TablesParts DEF Action
    <2>3. v = [event |-> v.event, delivery |-> v.delivery, sends |-> v.sends,
               claims |-> v.claims, actions |-> v.actions]
      BY <1>1, <1>5 DEF Tables
    <2> QED BY <1>1, <1>6, <2>1, <2>2, <2>3, TablesParts DEF Tables
  <1>8. Fits(x, w.sends, n, p)
    <2>1. \A t \in SendsFor(w.sends, n, p) :
             w.sends[t].generation \in Nat /\ w.sends[t].generation <= d.generation
      BY <1>1, <1>3, TablesParts DEF Fits, SendsFor, Send
    <2>2. d.generation \in Nat
      BY <1>3 DEF Delivery
    <2> QED BY <1>4, <2>1, <2>2 DEF Fits
  <1>9. v.delivery[n][p] = x
        /\ \A k \in Notes, q \in People : k # n \/ q # p => v.delivery[k][q] = w.delivery[k][q]
    <2>1. w.delivery \in [Notes -> [People -> Delivery]]
      BY <1>1, TablesParts
    <2> QED BY <1>6, <2>1
  <1>10. w.event[n].state = "prepared"
    <2>1. w.delivery[n][p] # NoDelivery
      <3>1. w.delivery[n][p].state # "absent"
        BY <1>3
      <3> QED BY ONLY <3>1 DEF NoDelivery
    <2> QED BY <1>1, <2>1 DEF WalletInOrder, Unprepared
  <1>11. \A k \in Notes, q \in People : <<k, q>> # <<n, p>> =>
            /\ v.delivery[k][q] = w.delivery[k][q]
            /\ Fits(v.delivery[k][q], v.sends, k, q)
            /\ AskedFor(v.actions, k, q) = AskedFor(w.actions, k, q)
    <2> SUFFICES ASSUME NEW k \in Notes, NEW q \in People, k # n \/ q # p
                 PROVE  /\ v.delivery[k][q] = w.delivery[k][q]
                        /\ Fits(v.delivery[k][q], v.sends, k, q)
                        /\ AskedFor(v.actions, k, q) = AskedFor(w.actions, k, q)
      OBVIOUS
    <2> QED BY <1>1, <1>2, <1>6, <1>9, SMTT(60) DEF WalletInOrder
  <1>12. /\ WalletInOrder(w) /\ v \in Tables /\ n \in Notes /\ p \in People
         /\ v.event = w.event /\ SendsInOrder(v.sends) /\ w.event[n].state = "prepared"
         /\ Fits(v.delivery[n][p], v.sends, n, p) /\ IsFiniteSet(v.actions)
         /\ v.delivery[n][p].generation = Cardinality(AskedFor(v.actions, n, p))
    <2>1. SendsInOrder(w.sends)
      BY DEF WalletInOrder
    <2>2. /\ v.event = w.event /\ SendsInOrder(v.sends)
          /\ Fits(v.delivery[n][p], v.sends, n, p) /\ IsFiniteSet(v.actions)
      BY ONLY <1>2, <1>6, <1>8, <1>9, <2>1
    <2>3. v.delivery[n][p].generation = Cardinality(AskedFor(v.actions, n, p))
      BY ONLY <1>2, <1>3, <1>4, <1>6, <1>9
    <2>4. n \in Notes /\ p \in People
      OBVIOUS
    <2> QED BY ONLY <1>1, <1>7, <1>10, <2>2, <2>3, <2>4
  <1>13. WalletInOrder(v)
    BY ONLY <1>11, <1>12, DeliveryKeeps
  <1> QED BY <1>13

LEMMA MaxIsGreatest ==
    ASSUME NEW S, S \subseteq Nat, IsFiniteSet(S), S # {}
    PROVE  Max(S) \in S /\ \A x \in S : x <= Max(S)
  <1> PICK f : f = [x \in S |-> x]
    OBVIOUS
  <1>1. SumOf(f) \in Nat /\ \A x \in S : f[x] <= SumOf(f)
    <2>1. f \in [S -> Nat]
      OBVIOUS
    <2> QED BY <2>1, SumCovers
  <1> PICK b : b = SumOf(f)
    OBVIOUS
  <1> PICK T : T = {b - x : x \in S}
    OBVIOUS
  <1>2. b \in Nat /\ \A x \in S : x \in Nat /\ b - x \in Nat
    <2>1. b \in Nat /\ \A x \in S : f[x] = x /\ f[x] <= b /\ x \in Nat
      BY <1>1
    <2>2. \A x \in S : x <= b /\ x \in Nat
      BY <2>1
    <2>3. ASSUME NEW x \in S PROVE b - x \in Nat
      <3>1. x \in Nat /\ b \in Nat /\ x <= b
        BY <2>1, <2>2
      <3> QED BY ONLY <3>1
    <2> QED BY ONLY <2>1, <2>2, <2>3
  <1>3. T \subseteq Nat /\ T # {}
    BY <1>2
  <1>4. PICK e \in T : \A y \in T : e <= y
    BY <1>3, Least
  <1>5. PICK m \in S : e = b - m
    OBVIOUS
  <1>6. \A x \in S : x <= m
    <2> SUFFICES ASSUME NEW x \in S PROVE x <= m
      OBVIOUS
    <2>1. b - m <= b - x
      BY <1>4, <1>5
    <2> QED BY <1>2, <2>1
  <1>7. \E y \in S : \A x \in S : y >= x
    BY <1>2, <1>6
  <1>8. Max(S) \in S /\ \A x \in S : Max(S) >= x
    BY <1>7 DEF Max
  <1> QED BY <1>2, <1>8

\* What recovery leaves: what was claimed long ago waits again, or is unknown.
LEMMA RecoveredKeeps ==
    ASSUME NEW w, WalletInOrder(w),
           NEW E, E \subseteq {n \in Notes : w.event[n].state = "preparing"},
           NEW S, S \subseteq DOMAIN w.sends
    PROVE  WalletInOrder(RecoveredTables(w, E, S))
  <1>def_s. PICK s : s = w.sends
    OBVIOUS
  <1>def_L. PICK L : L = {t \in S : /\ w.delivery[s[t].note][s[t].person].state = "sending"
                              /\ w.delivery[s[t].note][s[t].person].claim = t}
    OBVIOUS
  <1>def_v. PICK v : v = RecoveredTables(w, E, S)
    OBVIOUS
  <1>def_F. PICK F : F = [n \in Notes |->
              IF n \in E
              THEN [w.event[n] EXCEPT !.state = "pending", !.claim = 0] ELSE w.event[n]]
    OBVIOUS
  <1>def_D. PICK D : D = [n \in Notes |-> [p \in People |->
              IF w.delivery[n][p].claim \in L
              THEN [w.delivery[n][p] EXCEPT !.state = "unknown"] ELSE w.delivery[n][p]]]
    OBVIOUS
  <1>def_r. PICK r : r = [t \in DOMAIN s |->
              IF t \in L THEN [s[t] EXCEPT !.attempt.outcome = "unknown"] ELSE s[t]]
    OBVIOUS
  <1>0. /\ w \in Tables /\ SendsInOrder(s) /\ s \in Seq(Send) /\ DOMAIN s = 1..Len(s)
        /\ Len(s) \in Nat /\ L \subseteq DOMAIN s /\ IsFiniteSet(w.actions)
        /\ \A t \in DOMAIN s : s[t] \in Send /\ Counts(s[t].attempt)
    <2>1. w \in Tables /\ SendsInOrder(w.sends) /\ IsFiniteSet(w.actions)
      BY DEF WalletInOrder
    <2>2. s \in Seq(Send)
      BY ONLY <1>def_s, <2>1, TablesParts
    <2>3. DOMAIN s = 1..Len(s) /\ Len(s) \in Nat /\ \A t \in DOMAIN s : s[t] \in Send
      BY ONLY <2>2, LenProperties, ElementOfSeq
    <2>4. SendsInOrder(s)
      BY ONLY <1>def_s, <2>1
    <2>5. \A t \in DOMAIN s : Counts(s[t].attempt)
      BY ONLY <2>4, SMTT(60) DEF SendsInOrder
    <2>6. L \subseteq DOMAIN s
      BY <1>def_s, <1>def_L
    <2> QED BY ONLY <2>1, <2>2, <2>3, <2>4, <2>5, <2>6
  <1>1. v = [w EXCEPT !.event = F, !.delivery = D, !.sends = r]
    BY <1>def_s, <1>def_L, <1>def_v, <1>def_F, <1>def_D, <1>def_r, Zenon DEF RecoveredTables, VanishedSend
  <1>2. v.event = F /\ v.delivery = D /\ v.sends = r /\ v.claims = w.claims
        /\ v.actions = w.actions
    BY <1>0, <1>1 DEF Tables
  <1>3. ASSUME NEW n \in Notes
        PROVE  F[n] \in Event /\ (F[n].state # "prepared" => w.event[n].state # "prepared")
    <2>1. w.event[n] \in Event
      BY <1>0, TablesParts
    <2>2. n \in E => w.event[n].state = "preparing"
      OBVIOUS
    <2>3. [w.event[n] EXCEPT !.state = "pending", !.claim = 0] \in Event
      BY <2>1 DEF Event, EventStates
    <2> QED BY <2>1, <2>2, <2>3, <1>def_F
  <1>4. ASSUME NEW t \in DOMAIN s
        PROVE  /\ r[t] \in Send /\ r[t].note = s[t].note /\ r[t].person = s[t].person
               /\ r[t].generation = s[t].generation /\ Counts(r[t].attempt)
               /\ r[t].attempt.answer = s[t].attempt.answer
    <2>1. CASE t \in L
      <3>def_a. PICK a : a = [s[t].attempt EXCEPT !.outcome = "unknown"]
        OBVIOUS
      <3>1. s[t] \in Send /\ s[t].attempt \in Attempt /\ Counts(s[t].attempt)
        BY <1>0 DEF Send
      <3>2. a \in Attempt /\ Counts(a) /\ a.answer = s[t].attempt.answer
        BY <3>1, ToldAttempt, <3>def_a
      <3>3. r[t] = [s[t] EXCEPT !.attempt = a]
        BY <2>1, <1>def_r, <3>def_a
      <3> QED BY <3>1, <3>2, <3>3 DEF Send
    <2>2. CASE t \notin L
      BY <1>0, <2>2, <1>def_r
    <2> QED BY <2>1, <2>2
  <1>5. r \in Seq(Send) /\ Advances(s, r)
    <2>1. r = [t \in DOMAIN s |-> r[t]]
      BY <1>def_r
    <2>2. r \in [1..Len(s) -> Send]
      BY ONLY <1>0, <1>4, <2>1
    <2>3. DOMAIN r = DOMAIN s
      BY <1>def_r
    <2>4. r \in Seq(Send)
      <3>1. Len(s) \in Nat
        BY <1>0
      <3> QED BY ONLY <2>2, <3>1
    <2> QED BY ONLY <1>4, <2>3, <2>4 DEF Advances
  <1>6. /\ SendsInOrder(r)
        /\ \A d, n, p : Fits(d, s, n, p) => Fits(d, r, n, p)
    <2>1. Advances(s, r) /\ SendsInOrder(s)
      BY <1>0, <1>5
    <2> QED BY ONLY <2>1, AdvancesKeeps
  <1>7. ASSUME NEW n \in Notes, NEW p \in People
        PROVE  /\ D[n][p] \in Delivery /\ D[n][p].generation = w.delivery[n][p].generation
               /\ Fits(D[n][p], r, n, p)
               /\ w.delivery[n][p] = NoDelivery => D[n][p] = NoDelivery
    <2>def_d. PICK d : d = w.delivery[n][p]
      OBVIOUS
    <2>1. d \in Delivery /\ Fits(d, s, n, p) /\ Fits(d, r, n, p)
      <3>1. w.delivery \in [Notes -> [People -> Delivery]]
        BY <1>0, TablesParts
      <3> QED BY <1>6, <3>1, <1>def_s, <2>def_d DEF WalletInOrder
    <2>2. CASE d.claim \in L
      <3>1. d.claim # 0 /\ d.claim \in DOMAIN s
        BY ONLY <1>0, <2>2
      <3>2. s[d.claim].note = n /\ s[d.claim].person = p
        BY <2>1, <3>1, SMTT(60) DEF Fits, SendsFor
      <3>3. d.state = "sending"
        BY <2>2, <3>2, <1>def_L, <2>def_d
      <3>def_x. PICK x : x = [d EXCEPT !.state = "unknown"]
        OBVIOUS
      <3>4. D[n][p] = x
        BY <2>2, <1>def_D, <2>def_d, <3>def_x
      <3>5. /\ x \in Delivery /\ x.state = "unknown" /\ x.generation = d.generation
            /\ x.claim = d.claim /\ x.tries = d.tries
        BY <2>1, <3>def_x DEF Delivery, DeliveryStates
      <3>6. Fits(x, r, n, p)
        BY ONLY <2>1, <3>1, <3>5 DEF Fits
      <3>7. d # NoDelivery
        BY ONLY <3>3 DEF NoDelivery
      <3> QED BY <3>4, <3>5, <3>6, <3>7, <2>def_d
    <2>3. CASE d.claim \notin L
      BY <2>1, <2>3, <1>def_D, <2>def_d
    <2> QED BY <2>2, <2>3
  <1>8. v \in Tables
    <2>1. F \in [Notes -> Event]
      BY <1>3, <1>def_F
    <2>2. D \in [Notes -> [People -> Delivery]]
      <3>1. D = [n \in Notes |-> D[n]] /\ \A n \in Notes : D[n] = [p \in People |-> D[n][p]]
        BY <1>def_D
      <3> QED BY ONLY <1>7, <3>1
    <2> QED BY <1>0, <1>1, <1>5, <2>1, <2>2 DEF Tables
  <1>9. Unprepared(v)
    BY ONLY <1>2, <1>3, <1>7, WalletInOrder(w) DEF WalletInOrder, Unprepared
  <1>10. AskedAsOften(v)
    BY ONLY <1>2, <1>7, WalletInOrder(w) DEF WalletInOrder, AskedAsOften
  <1>11. WalletInOrder(v)
    BY ONLY <1>0, <1>2, <1>6, <1>7, <1>8, <1>9, <1>10 DEF WalletInOrder
  <1> QED BY <1>11, <1>def_v

LEMMA WalletWorkerKeeps ==
    ASSUME WalletInOrder(wallet), WalletWorker
    PROVE  WalletInOrder(wallet')
  <1> PICK E \in SUBSET {n \in Notes : wallet.event[n].state = "preparing"},
           S \in SUBSET {t \in DOMAIN wallet.sends : wallet.sends[t].attempt.outcome = "none"} :
         LET w == RecoveredTables(wallet, E, S) IN
         \/ w # wallet /\ wallet' = w
         \/ \E n \in Notes : \/ ClaimEvent(w, n)
                             \/ \E p \in People : ClaimDelivery(w, n, p)
         \/ \E c \in DOMAIN w.claims : \/ FailEvent(w, c)
                                      \/ \E plan \in Plans : Prepare(w, c, plan)
         \/ \E t \in DOMAIN w.sends, o \in {"sent", "failed", "unknown"} : Complete(w, t, o)
    BY DEF WalletWorker
  <1> PICK w : w = RecoveredTables(wallet, E, S)
    OBVIOUS
  <1>1. WalletInOrder(w)
    <2>1. S \subseteq DOMAIN wallet.sends
      OBVIOUS
    <2> QED BY <2>1, RecoveredKeeps
  <1>2. CASE wallet' = w
    BY <1>1, <1>2
  <1>3. ASSUME NEW n \in Notes, ClaimEvent(w, n) PROVE WalletInOrder(wallet')
    BY ONLY <1>1, <1>3, ClaimEventKeeps
  <1>4. ASSUME NEW n \in Notes, NEW p \in People, ClaimDelivery(w, n, p)
        PROVE  WalletInOrder(wallet')
    BY ONLY <1>1, <1>4, ClaimDeliveryKeeps
  <1>5. ASSUME NEW c \in DOMAIN w.claims, FailEvent(w, c) PROVE WalletInOrder(wallet')
    BY ONLY <1>1, <1>5, FailEventKeeps
  <1>6. ASSUME NEW c \in DOMAIN w.claims, NEW plan \in Plans, Prepare(w, c, plan)
        PROVE  WalletInOrder(wallet')
    BY ONLY <1>1, <1>6, PrepareKeeps
  <1>7. ASSUME NEW t \in DOMAIN w.sends, NEW o \in {"sent", "failed", "unknown"},
               Complete(w, t, o)
        PROVE  WalletInOrder(wallet')
    BY ONLY <1>1, <1>7, CompleteKeeps
  <1> QED BY <1>2, <1>3, <1>4, <1>5, <1>6, <1>7

LEMMA AgainIsEvent ==
    ASSUME WalletInOrder(wallet), NEW n, n \in Notes
    PROVE  wallet.event[n] \in Event /\ EventAgain(n) \in Event
  <1>1. wallet.event[n] \in Event
    BY TablesParts DEF WalletInOrder
  <1> QED BY <1>1 DEF EventAgain, Event, EventStates

LEMMA RetryEventKeeps ==
    ASSUME WalletInOrder(wallet), NEW op \in Asks, NEW n \in Notes, RetryEvent(op, n)
    PROVE  WalletInOrder(wallet')
  <1>1. /\ op \notin Asked(wallet) /\ wallet.event[n].state = "failed"
        /\ wallet' = [wallet EXCEPT !.event[n] = EventAgain(n),
                                    !.actions = Recorded(op, n, "nobody")]
    BY DEF RetryEvent
  <1>2. EventAgain(n) \in Event
    BY AgainIsEvent
  <1> QED BY <1>1, <1>2, EventCommand

LEMMA RetryDeliveryKeeps ==
    ASSUME WalletInOrder(wallet), NEW op \in Asks, NEW n \in Notes, NEW p \in People,
           NEW seen0, NEW acknowledged, RetryDelivery(op, n, p, seen0, acknowledged)
    PROVE  WalletInOrder(wallet')
  <1>1. /\ op \notin Asked(wallet)
        /\ wallet.delivery[n][p].state \in {"failed", "unknown", "sent"}
        /\ wallet' = [wallet EXCEPT !.delivery[n][p] = Restarted(wallet.delivery[n][p]),
                                    !.actions = Recorded(op, n, p)]
    BY DEF RetryDelivery
  <1> QED BY <1>1, DeliveryCommand

LEMMA ResendDecisionKeeps ==
    ASSUME WalletInOrder(wallet), NEW op \in Asks, NEW acknowledged,
           ResendDecision(op, acknowledged)
    PROVE  WalletInOrder(wallet')
  <1>def_M. PICK M : M = {m \in Notes : wallet.event[m].state # "absent"}
    OBVIOUS
  <1>def_n. PICK n : n = Max(M)
    OBVIOUS
  <1>def_d. PICK d : d = wallet.delivery[n][Requester]
    OBVIOUS
  <1>1. n \in M /\ \A m \in M : m <= n
    <2>1. M \subseteq Nat /\ IsFiniteSet(M)
      BY DeliveriesAssumption, FS_Subset, <1>def_M, ZenonT(90)
    <2>2. M # {}
      BY <1>def_M, Zenon DEF ResendDecision
    <2> QED BY <2>1, <2>2, MaxIsGreatest, <1>def_n
  <1>2. n \in Notes /\ n \in Nat /\ op \notin Asked(wallet) /\ Requester \in People
    BY <1>1, DeliveriesAssumption, <1>def_M, ZenonT(90) DEF ResendDecision
  <1>3. \/ wallet' = [wallet EXCEPT
                  !.event[n] = IF wallet.event[n].state = "failed" THEN EventAgain(n)
                               ELSE wallet.event[n],
                  !.actions = Recorded(op, n, "nobody")]
        \/ /\ n + 1 \in Notes
           /\ wallet' = [wallet EXCEPT
                  !.event[n + 1] = [NoEvent EXCEPT !.state = "pending"],
                  !.actions = Recorded(op, n + 1, "nobody")]
        \/ /\ d.state \in {"failed", "unknown", "sent"}
           /\ wallet' = [wallet EXCEPT !.delivery[n][Requester] = Restarted(d),
                                       !.actions = Recorded(op, n, Requester)]
    BY <1>def_M, <1>def_n, <1>def_d, Zenon DEF ResendDecision
  <1>4. CASE wallet' = [wallet EXCEPT
                  !.event[n] = IF wallet.event[n].state = "failed" THEN EventAgain(n)
                               ELSE wallet.event[n],
                  !.actions = Recorded(op, n, "nobody")]
    <2>def_e. PICK e : e = IF wallet.event[n].state = "failed" THEN EventAgain(n)
                     ELSE wallet.event[n]
      OBVIOUS
    <2>1. e \in Event
      BY <1>2, AgainIsEvent, <2>def_e
    <2>2. e.state = "prepared" \/ wallet.event[n].state # "prepared"
      BY <2>def_e
    <2>3. wallet' = [wallet EXCEPT !.event[n] = e, !.actions = Recorded(op, n, "nobody")]
      BY <1>4, <2>def_e
    <2> QED BY <1>2, <2>1, <2>2, <2>3, EventCommand
  <1>5. CASE /\ n + 1 \in Notes
             /\ wallet' = [wallet EXCEPT
                  !.event[n + 1] = [NoEvent EXCEPT !.state = "pending"],
                  !.actions = Recorded(op, n + 1, "nobody")]
    <2>def_e. PICK e : e = [NoEvent EXCEPT !.state = "pending"]
      OBVIOUS
    <2>1. e \in Event
      BY <2>def_e DEF Event, NoEvent, EventStates
    <2>2. wallet.event[n + 1].state # "prepared"
      <3>1. n + 1 \notin M
        BY ONLY <1>1, <1>2
      <3> QED BY <1>5, <3>1, <1>def_M
    <2>3. wallet' = [wallet EXCEPT !.event[n + 1] = e, !.actions = Recorded(op, n + 1, "nobody")]
      BY <1>5, <2>def_e
    <2> QED BY <1>2, <1>5, <2>1, <2>2, <2>3, EventCommand
  <1>6. CASE /\ d.state \in {"failed", "unknown", "sent"}
             /\ wallet' = [wallet EXCEPT !.delivery[n][Requester] = Restarted(d),
                                         !.actions = Recorded(op, n, Requester)]
    BY <1>2, <1>6, DeliveryCommand, <1>def_d
  <1> QED BY <1>3, <1>4, <1>5, <1>6

LEMMA WalletStep ==
    ASSUME WalletInOrder(wallet), WalletNext
    PROVE  WalletInOrder(wallet')
  <1>1. CASE WalletWorker
    BY <1>1, WalletWorkerKeeps
  <1>2. ASSUME NEW t \in DOMAIN wallet.sends, WalletTransport(t)
        PROVE  WalletInOrder(wallet')
    BY <1>2, TransportKeeps
  <1>3. ASSUME NEW n \in Notes, Decided(n) PROVE WalletInOrder(wallet')
    BY <1>3, DecidedKeeps
  <1>4. ASSUME NEW op \in Asks, NEW n \in Notes, RetryEvent(op, n)
        PROVE  WalletInOrder(wallet')
    BY <1>4, RetryEventKeeps
  <1>5. ASSUME NEW op \in Asks, NEW acknowledged \in BOOLEAN, ResendDecision(op, acknowledged)
        PROVE  WalletInOrder(wallet')
    BY <1>5, ResendDecisionKeeps
  <1>6. ASSUME NEW op \in Asks, NEW acknowledged \in BOOLEAN, NEW n \in Notes,
               NEW p \in People, NEW seen0, RetryDelivery(op, n, p, seen0, acknowledged)
        PROVE  WalletInOrder(wallet')
    BY <1>6, RetryDeliveryKeeps
  <1> QED BY <1>1, <1>2, <1>3, <1>4, <1>5, <1>6 DEF WalletNext

LEMMA SendsCopies ==
    ASSUME NEW R, NEW S, IsFiniteSet(S)
    PROVE  MapThenSumSet(LAMBDA i : R[i].attempt.copies, S) = SumOf([i \in S |-> R[i].attempt.copies])
  <1> DEFINE f == [i \in S |-> R[i].attempt.copies]
             Unfolds(h) == h = [s \in SUBSET S |->
                                IF s = {} THEN 0 ELSE R[OneOf(s)].attempt.copies + h[s \ {OneOf(s)}]]
             G == Iterated(f, S)
             H == CHOOSE h : Unfolds(h)
  <1>1. SumOf(f) = G[S] /\ G = [s \in SUBSET S |-> FoldStep(f, G, s)]
    BY SumIterated, IteratedExists
  <1>2. MapThenSumSet(LAMBDA i : R[i].attempt.copies, S) = H[S]
    BY DEF MapThenSumSet, MapThenFoldSet, OneOf
  <1>3. ASSUME NEW h
        PROVE  [s \in SUBSET S |->
                    IF s = {} THEN 0 ELSE R[OneOf(s)].attempt.copies + h[s \ {OneOf(s)}]]
               = [s \in SUBSET S |-> FoldStep(f, h, s)]
    <2>1. ASSUME NEW s \in SUBSET S, s # {}
          PROVE  f[OneOf(s)] = R[OneOf(s)].attempt.copies
      BY <2>1 DEF OneOf
    <2> HIDE DEF f
    <2> QED BY <2>1 DEF FoldStep
  <1> HIDE DEF f, G
  <1>4. Unfolds(G)
    BY <1>1, <1>3
  <1>5. Unfolds(H)
    <2> HIDE DEF Unfolds
    <2> QED BY <1>4
  <1> HIDE DEF H
  <1>6. H = [s \in SUBSET S |-> FoldStep(f, H, s)]
    BY <1>3, <1>5
  <1>7. Iterates(G, f, S) /\ Iterates(H, f, S)
    BY <1>1, <1>6 DEF Iterates
  <1>8. G[S] = H[S]
    BY <1>7, IteratedOnce
  <1> QED BY <1>1, <1>2, <1>8 DEF f

\* Of one delivery and generation at most one send left, and which did is what
\* the delivery says.
LEMMA CopiesOfDelivery ==
    ASSUME WalletInOrder(wallet), NEW n \in Notes, NEW p \in People, NEW g, NEW d,
           d = wallet.delivery[n][p]
    PROVE  /\ WalletCopies(n, p, g) <= 1
           /\ d.state = "sent" /\ g = d.generation => WalletCopies(n, p, g) = 1
           /\ d.state \in {"pending", "failed"} /\ g = d.generation
              => WalletCopies(n, p, g) = 0
  <1> PICK s : s = wallet.sends
    OBVIOUS
  <1> PICK S : S = {t \in SendsOf(n, p) : s[t].generation = g}
    OBVIOUS
  <1>1. /\ SendsInOrder(s) /\ s \in Seq(Send) /\ DOMAIN s = 1..Len(s) /\ Len(s) \in Nat
        /\ wallet \in Tables /\ d \in Delivery /\ Fits(d, s, n, p)
    <2>1. wallet \in Tables
      BY DEF WalletInOrder
    <2>2. wallet.delivery \in [Notes -> [People -> Delivery]]
      BY <2>1, TablesParts
    <2> QED BY <2>1, <2>2, TablesParts DEF WalletInOrder
  <1>2. \A t \in S : t \in SendsFor(s, n, p) /\ t \in DOMAIN s /\ s[t].note = n
                     /\ s[t].person = p /\ s[t].generation = g
    BY DEF SendsOf, SendsFor
  <1>3. IsFiniteSet(S)
    <2>1. S \subseteq 1..Len(s) /\ IsFiniteSet(1..Len(s))
      BY <1>1, <1>2, FS_Interval
    <2> QED BY <2>1, FS_Subset
  <1> PICK f : f = [t \in S |-> s[t].attempt.copies]
    OBVIOUS
  <1>4. f \in [S -> {0, 1}] /\ \A t \in S : f[t] = 1 <=> s[t].attempt.answer = "accepted"
    BY <1>1, <1>2 DEF SendsInOrder, Counts
  <1>5. \A t, u \in S : f[t] = 1 /\ f[u] = 1 => t = u
    <2> SUFFICES ASSUME NEW t \in S, NEW u \in S, f[t] = 1, f[u] = 1, t # u
                 PROVE  FALSE
      OBVIOUS
    <2>1. /\ s[t].attempt.answer = "accepted" /\ s[u].attempt.answer = "accepted"
          /\ t \in DOMAIN s /\ u \in DOMAIN s /\ t \in Nat /\ u \in Nat
      <3>1. t \in DOMAIN s /\ u \in DOMAIN s
        BY <1>2
      <3>2. t \in Nat /\ u \in Nat
        BY ONLY <1>1, <3>1
      <3> QED BY <1>4, <3>1, <3>2
    <2>2. ~ (t < u) /\ ~ (u < t)
      BY <1>1, <1>2, <2>1, ZenonT(90) DEF SendsInOrder
    <2> QED BY <2>1, <2>2
  <1>6. WalletCopies(n, p, g) = SumOf(f)
    <2>1. IsFiniteSet({t \in SendsOf(n, p) : wallet.sends[t].generation = g})
      BY <1>3
    <2>2. WalletCopies(n, p, g)
          = SumOf([i \in {t \in SendsOf(n, p) : wallet.sends[t].generation = g} |->
                      wallet.sends[i].attempt.copies])
      BY <2>1, SendsCopies DEF WalletCopies
    <2> QED BY <2>2
  <1>7. /\ SumOf(f) \in {0, 1}
        /\ \A t \in S : f[t] = 1 => SumOf(f) = 1
        /\ (\A t \in S : f[t] = 0) => SumOf(f) = 0
    BY ONLY <1>3, <1>4, <1>5, OneAtMost
  <1>8. ASSUME d.state = "sent", g = d.generation
        PROVE  \E t \in S : f[t] = 1
    <2>1. /\ d.claim \in SendsFor(s, n, p) /\ s[d.claim].generation = g
          /\ s[d.claim].attempt.answer = "accepted"
      BY <1>1, <1>8 DEF Fits
    <2>2. d.claim \in S
      BY <2>1 DEF SendsOf, SendsFor
    <2> QED BY <1>4, <2>1, <2>2
  <1>9. ASSUME d.state \in {"pending", "failed"}, g = d.generation
        PROVE  \A t \in S : f[t] = 0
    <2>1. d.claim \in Nat
      BY <1>1 DEF Delivery
    <2>2. \A t \in SendsFor(s, n, p) :
             s[t].generation = d.generation => s[t].attempt.answer = "refused"
      BY ONLY <1>1, <1>9, <2>1, RefusedBefore
    <2>3. \A t \in S : s[t].attempt.answer = "refused"
      BY <1>2, <1>9, <2>2
    <2> QED BY <1>4, <2>3, ZenonT(90)
  <1>10. WalletCopies(n, p, g) <= 1
    BY ONLY <1>6, <1>7
  <1>11. d.state = "sent" /\ g = d.generation => WalletCopies(n, p, g) = 1
    BY ONLY <1>6, <1>7, <1>8
  <1>12. d.state \in {"pending", "failed"} /\ g = d.generation => WalletCopies(n, p, g) = 0
    BY ONLY <1>6, <1>7, <1>9
  <1> QED BY ONLY <1>10, <1>11, <1>12

-----------------------------------------------------------------------------
(* Everything together *)

DeliveriesInOrder == MailsInOrder /\ NoticesInOrder /\ WalletInOrder(wallet)

LEMMA InOrderSentOnce == DeliveriesInOrder => SentOnce
  <1> SUFFICES ASSUME DeliveriesInOrder PROVE SentOnce
    OBVIOUS
  <1>1. ASSUME NEW m \in Mails
        PROVE  /\ mail[m] \in MailRows /\ tries[m] \in Seq(Attempt)
               /\ Copies(tries[m]) <= 1
               /\ mail[m].state = "sent" => Copies(tries[m]) = 1
               /\ mail[m].state = "pending" => Copies(tries[m]) = 0
    <2>1. MailInOrder(mail[m], tries[m]) /\ Tried(tries[m])
      BY DEF DeliveriesInOrder, MailsInOrder, MailInOrder
    <2>2. /\ Copies(tries[m]) <= 1
          /\ AllRefused(tries[m]) => Copies(tries[m]) = 0
          /\ LastAccepted(tries[m]) => Copies(tries[m]) = 1
      BY ONLY <2>1, TriedCopies
    <2> QED BY <2>1, <2>2 DEF MailInOrder, Tried
  <1>2. ASSUME NEW n \in Notices
        PROVE  /\ notices[n] \in DeliveryStates /\ efforts[n] \in Seq(Attempt)
               /\ Copies(efforts[n]) <= 1
               /\ notices[n] = "sent" => Copies(efforts[n]) = 1
               /\ notices[n] \in {"pending", "failed", "suppressed"} => Copies(efforts[n]) = 0
    <2>1. NoticeInOrder(notices[n], efforts[n]) /\ Tried(efforts[n])
      BY DEF DeliveriesInOrder, NoticesInOrder, NoticeInOrder
    <2>2. /\ Copies(efforts[n]) <= 1
          /\ AllRefused(efforts[n]) => Copies(efforts[n]) = 0
          /\ LastAccepted(efforts[n]) => Copies(efforts[n]) = 1
      BY ONLY <2>1, TriedCopies
    <2> QED BY <2>1, <2>2 DEF NoticeInOrder, Tried
  <1>3. WalletInOrder(wallet) /\ wallet \in Tables
    BY DEF DeliveriesInOrder, WalletInOrder
  <1>4. ASSUME NEW n \in Notes
        PROVE  wallet.event[n].state \in EventStates /\ wallet.event[n].tries \in Nat
    <2>1. wallet.event[n] \in Event
      BY <1>3, TablesParts
    <2> QED BY <2>1 DEF Event
  <1>5. \A t \in DOMAIN wallet.sends : wallet.sends[t].attempt \in Attempt
    <2>1. \A t \in DOMAIN wallet.sends : wallet.sends[t] \in Send
      BY <1>3, TablesParts
    <2> QED BY <2>1 DEF Send
  <1>6. ASSUME NEW n \in Notes, NEW p \in People
        PROVE  LET d == wallet.delivery[n][p] IN
               /\ d.state \in DeliveryStates /\ d.tries <= SendAttempts
               /\ \A g \in 0..d.generation : WalletCopies(n, p, g) <= 1
               /\ d.generation = Cardinality({a \in wallet.actions :
                                                 a.note = n /\ a.restarted = p})
               /\ d.state = "sent" => WalletCopies(n, p, d.generation) = 1
               /\ d.state \in {"pending", "failed"} => WalletCopies(n, p, d.generation) = 0
    <2> PICK d : d = wallet.delivery[n][p]
      OBVIOUS
    <2>1. d \in Delivery
      <3>1. wallet.delivery \in [Notes -> [People -> Delivery]]
        BY <1>3, TablesParts
      <3> QED BY <3>1
    <2>2. d.state \in DeliveryStates /\ d.tries <= SendAttempts
      BY <2>1, DeliveriesAssumption DEF Delivery
    <2>3. d.generation = Cardinality({a \in wallet.actions : a.note = n /\ a.restarted = p})
      BY <1>3 DEF WalletInOrder, AskedAsOften, AskedFor
    <2>4. \A g : /\ WalletCopies(n, p, g) <= 1
                 /\ d.state = "sent" /\ g = d.generation => WalletCopies(n, p, g) = 1
                 /\ d.state \in {"pending", "failed"} /\ g = d.generation
                    => WalletCopies(n, p, g) = 0
      BY <1>3, CopiesOfDelivery
    <2> QED BY <2>2, <2>3, <2>4
  <1>7. DeliveriesTypeOK
    BY <1>1, <1>2, <1>4, <1>5, <1>6 DEF DeliveriesTypeOK
  <1> QED BY <1>1, <1>2, <1>6, <1>7 DEF SentOnce

LEMMA DeliveriesStart == DeliveriesInit => DeliveriesInOrder
  <1> SUFFICES ASSUME DeliveriesInit PROVE DeliveriesInOrder
    OBVIOUS
  <1>0. << >> \in Seq(Attempt) /\ DOMAIN << >> = {} /\ Tried(<< >>) /\ Unstarted(<< >>)
        /\ AllRefused(<< >>)
    <2>1. << >> \in Seq(Attempt) /\ DOMAIN << >> = {}
      BY EmptySeq
    <2> QED BY <2>1 DEF Tried, Unstarted, AllRefused
  <1>1. MailsInOrder
    <2>1. /\ mail = [m \in Mails |-> [state |-> "absent", lease |-> "none"]]
          /\ tries = [m \in Mails |-> << >>]
      BY DEF DeliveriesInit, MailInit
    <2>2. [state |-> "absent", lease |-> "none"] \in MailRows
      BY DEF MailRows
    <2>3. MailInOrder([state |-> "absent", lease |-> "none"], << >>)
      BY <1>0, <2>2 DEF MailInOrder
    <2> QED BY <1>0, <2>1, <2>2, <2>3 DEF MailsInOrder
  <1>2. NoticesInOrder
    <2>1. notices = [n \in Notices |-> "absent"] /\ efforts = [n \in Notices |-> << >>]
      BY DEF DeliveriesInit, NoticeInit
    <2>2. NoticeInOrder("absent", << >>)
      BY <1>0 DEF NoticeInOrder, DeliveryStates
    <2> QED BY <1>0, <2>1, <2>2 DEF NoticesInOrder, DeliveryStates
  <1>3. WalletInOrder(wallet)
    BY InitWallet DEF DeliveriesInit
  <1> QED BY <1>1, <1>2, <1>3 DEF DeliveriesInOrder

LEMMA DeliveriesStep ==
    DeliveriesInOrder /\ [DeliveriesNext]_deliveriesVars => DeliveriesInOrder'
  <1> SUFFICES ASSUME DeliveriesInOrder, [DeliveriesNext]_deliveriesVars
               PROVE  DeliveriesInOrder'
    OBVIOUS
  <1>0. MailsInOrder /\ NoticesInOrder /\ WalletInOrder(wallet)
    BY DEF DeliveriesInOrder
  <1>1. ASSUME UNCHANGED mailVars PROVE MailsInOrder'
    <2>1. mail' = mail /\ tries' = tries
      BY <1>1 DEF mailVars
    <2> QED BY <1>0, <2>1 DEF MailsInOrder
  <1>2. ASSUME UNCHANGED noticeVars PROVE NoticesInOrder'
    <2>1. notices' = notices /\ efforts' = efforts
      BY <1>2 DEF noticeVars
    <2> QED BY <1>0, <2>1 DEF NoticesInOrder
  <1>3. CASE MailNext
    <2>1. UNCHANGED <<wallet, noticeVars>>
      BY <1>3, ZenonT(90) DEF MailNext, MailClaim, MailEnqueue, MailWorld, MailLease, MailStart,
                  MailTransport, MailFinish
    <2> QED BY <1>0, <1>2, <1>3, <2>1, MailStep DEF DeliveriesInOrder
  <1>4. CASE WalletNext
    <2>1. UNCHANGED <<mailVars, noticeVars>>
      BY <1>4, ZenonT(90) DEF WalletNext, WalletWorker, WalletTransport, Decided, RetryEvent,
                  ResendDecision, RetryDelivery
    <2>2. WalletInOrder(wallet')
      BY <1>0, <1>4, WalletStep
    <2> QED BY <1>1, <1>2, <2>1, <2>2 DEF DeliveriesInOrder
  <1>5. CASE NoticeNext
    <2>1. UNCHANGED <<mailVars, wallet>>
      BY <1>5 DEF NoticeNext, NoticeClaim, NoticeEnqueue, NoticeWorld, NoticeTransport,
                  NoticeComplete
    <2> QED BY <1>0, <1>1, <1>5, <2>1, NoticeStep DEF DeliveriesInOrder
  <1>6. CASE UNCHANGED deliveriesVars
    BY <1>0, <1>1, <1>2, <1>6 DEF deliveriesVars, DeliveriesInOrder
  <1> QED BY <1>3, <1>4, <1>5, <1>6 DEF DeliveriesNext

\* A mail and a notice leave at most once, and a wallet delivery at most once for
\* each time a person asked for it, whatever workers crash, leases lapse, requests
\* arrive twice and reports come late; what is recorded as sent did leave.
THEOREM DeliveriesSentOnce == DeliveriesSpec => []SentOnce
  <1>1. DeliveriesSpec => []DeliveriesInOrder
    BY DeliveriesStart, DeliveriesStep, PTL DEF DeliveriesSpec
  <1> QED BY <1>1, InOrderSentOnce, PTL

=============================================================================
