--------------------------- MODULE IdentityEffects ---------------------------
(***************************************************************************)
(* The provider outbox of src/identity/effects.rs.  A change of a user is   *)
(* decided locally and commits together with the effects it must have at   *)
(* the identity provider: revoke the user's sessions, mirror role and      *)
(* status, mirror the name.  Workers claim an effect, call the provider    *)
(* outside any transaction and report; a claim is leased and fenced.       *)
(*                                                                         *)
(* Transactions are serialized by the identity authority lock, so each is  *)
(* one action; the provider calls between them are steps of their own.      *)
(* Roles, and the rules about who may change whom, are left out: a change  *)
(* here is one of status, by an actor who may make it.                     *)
(***************************************************************************)
EXTENDS Integers, Sequences, FiniteSets, SequencesExt

CONSTANTS
    Users,
    SubsOf,       \* sub-users of the agency a user owns
    Workers,      \* processes that dispatch or reconcile
    MaxEffects,   \* bound: effects ever queued
    MaxAttempts,  \* stands for 5, the limit of deliveries
    MaxFence      \* bound: claims of one effect

ASSUME SubsAssumption ==
    /\ SubsOf \in [Users -> SUBSET Users]
    /\ \A u \in Users : /\ IsFiniteSet(SubsOf[u])
                        /\ \A s \in SubsOf[u] : SubsOf[s] = {} /\ s # u
ASSUME BoundsAssumption ==
    /\ MaxEffects \in Nat /\ MaxAttempts \in Nat \ {0} /\ MaxFence \in Nat

VARIABLES
    active,       \* portal_users.status = 'active'
    version,      \* portal_users.authorization_version
    operations,   \* portal_identity_operations.state, in order of creation
    effects,      \* portal_identity_effects, in order of sequence
    lapsed,       \* the effects whose lease_until has passed
    claims,       \* what each worker has claimed and where it is
    inFlight,     \* at the provider: requests sent that may still be applied
    shown,        \* at the provider: the effect its data comes from
    sessions      \* at the provider: sessions, by the effects before them

userVars == <<active, version>>
outboxVars == <<operations, effects, lapsed>>
providerVars == <<inFlight, shown, sessions>>
vars == <<userVars, outboxVars, claims, providerVars>>

Mirrors == {"mirror_metadata", "mirror_name"}
Kinds == Mirrors \cup {"revoke_sessions"}
Final == {"confirmed", "superseded"}
Claimed == {"dispatching", "reconciling"}

Idle == [at |-> "idle", effect |-> 0, fence |-> 0, task |-> "none",
         result |-> "none"]

Init ==
    /\ active = [u \in Users |-> TRUE]
    /\ version = [u \in Users |-> 1]
    /\ operations = <<>>
    /\ effects = <<>>
    /\ lapsed = {}
    /\ claims = [w \in Workers |-> Idle]
    /\ inFlight = {}
    /\ shown = [u \in Users |-> [k \in Mirrors |-> 0]]
    /\ sessions = [u \in Users |-> {0}]

-----------------------------------------------------------------------------
(* Local decisions *)

Effect(u, kind, v, a) ==
    [user |-> u, kind |-> kind, version |-> v, active |-> a,
     operation |-> Len(operations) + 1, state |-> "pending", fence |-> 0,
     attempts |-> 0]

Queue(new) ==
    /\ Len(effects) + Len(new) <= MaxEffects
    /\ effects' = effects \o new
    /\ operations' = Append(operations, "pending_effects")
    /\ UNCHANGED <<lapsed, claims, providerVars>>

\* A sub-user is activated only while the owner of its agency is active.
MayActivate(u) == \A o \in Users : u \in SubsOf[o] => active[o]

\* operations::change, with agencies::invalidate_members: the status of an
\* owner also invalidates what its sub-users had resolved, and ends their
\* sessions, but their own status is not mirrored again.
SetAccess(u) ==
    /\ ~active[u] => MayActivate(u)
    /\ active' = [active EXCEPT ![u] = ~@]
    /\ version' = [x \in Users |-> IF x \in {u} \cup SubsOf[u]
                                   THEN version[x] + 1 ELSE version[x]]
    /\ Queue(<<Effect(u, "revoke_sessions", version'[u], active'[u]),
               Effect(u, "mirror_metadata", version'[u], active'[u])>>
             \o SetToSeq({Effect(s, "revoke_sessions", version'[s], active[s]) :
                             s \in SubsOf[u]}))

\* phase5: the owner renames a sub-user.
Rename(o, s) ==
    /\ active[o] /\ s \in SubsOf[o]
    /\ Queue(<<Effect(s, "mirror_name", version[s], active[s])>>)
    /\ UNCHANGED userVars

-----------------------------------------------------------------------------
(* The outbox *)

EffectsOf(table, n) == {e \in DOMAIN table : table[e].operation = n}

OperationState(table, n) ==
    CASE \E e \in EffectsOf(table, n) :
            table[e].state \in {"needs_reconciliation", "reconciling"}
            -> "needs_reconciliation"
      [] \A e \in EffectsOf(table, n) : table[e].state \in Final -> "completed"
      [] OTHER -> "pending_effects"

\* refresh: the operations of the effects that changed.
Refreshed(table, changed) ==
    [n \in DOMAIN operations |->
        IF \E e \in changed : table[e].operation = n
        THEN OperationState(table, n) ELSE operations[n]]

\* BUG: a reconciliation whose lease ran out is not looked for.
ExpiredDispatch == {e \in lapsed : effects[e].state = "dispatching"}

Expired == {e \in lapsed : effects[e].state \in Claimed}

Moved(table, moved, state) ==
    [e \in DOMAIN table |->
        IF e \in moved THEN [table[e] EXCEPT !.state = state] ELSE table[e]]

\* BUG: an expired delivery is retried.
RecoveredRetry(table) == Moved(table, Expired, "retryable")

\* recover_expired: what a worker was doing when its lease ran out is unknown.
Recovered(table) == Moved(table, Expired, "needs_reconciliation")

\* An effect claim may pick: not waiting for its next attempt.
Ready(table, e, due) ==
    /\ \/ table[e].state = "pending"
       \/ e \in due /\ table[e].state = "retryable"
    /\ table[e].attempts < MaxAttempts


\* A mirror of a role and status that were changed since.
Obsolete(table, e, due) ==
    /\ Ready(table, e, due)
    /\ table[e].kind = "mirror_metadata"
    /\ table[e].version # version[table[e].user]

\* BUG: an effect does not wait for those before it.
UnblockedAny(table, e, due) == TRUE

\* Nothing of the same user is unresolved before it, or only what this claim
\* supersedes on its way.
Unblocked(table, e, due) ==
    \A p \in 1..(e - 1) :
        table[p].user = table[e].user =>
            table[p].state \in Final \/ Obsolete(table, p, due)

Taken(table, e, state) ==
    [table EXCEPT ![e].state = state, ![e].fence = @ + 1,
                  ![e].attempts = IF state = "dispatching" THEN @ + 1 ELSE @]

TakenBy(w, table, e, task) ==
    claims' = [claims EXCEPT ![w] =
        [at |-> "calling", effect |-> e, fence |-> table[e].fence + 1,
         task |-> task, result |-> "none"]]

\* claim: recovers what expired, then goes through the queue in order; what
\* is obsolete is superseded until the first effect that is not is taken.
Claim(w) ==
    /\ claims[w] = Idle
    /\ \E due \in SUBSET {e \in DOMAIN effects : effects[e].state = "retryable"} :
          LET table == Recovered(effects)
              open == {e \in DOMAIN table : Ready(table, e, due)
                                             /\ Unblocked(table, e, due)}
              live == {e \in open : ~Obsolete(table, e, due)}
              first == CHOOSE e \in live : \A f \in live : e <= f
              dropped == {e \in open \ live : live # {} => e < first}
              left == Moved(table, dropped, "superseded")
          IN  /\ operations' = Refreshed(left, Expired \cup dropped)
              /\ IF live = {}
                 THEN /\ effects' = left
                      /\ lapsed' = lapsed \ Expired
                      /\ UNCHANGED claims
                 ELSE /\ effects' = Taken(left, first, "dispatching")
                      /\ lapsed' = lapsed \ (Expired \cup {first})
                      /\ TakenBy(w, left, first, "dispatch")
    /\ UNCHANGED <<userVars, providerVars>>

\* reconcile, up to the read of the provider.  The caller names the fence it
\* saw, so an effect that was claimed since is refused.
Reconcile(w, e) ==
    LET table == Recovered(effects)
    IN  /\ claims[w] = Idle
        /\ table[e].state = "needs_reconciliation"
        /\ table[e].fence < MaxFence
        /\ operations' = Refreshed(table, Expired)
        /\ effects' = Taken(table, e, "reconciling")
        /\ lapsed' = lapsed \ (Expired \cup {e})
        /\ TakenBy(w, table, e, "reconcile")
        /\ UNCHANGED <<userVars, providerVars>>

\* operations::query recovers what expired as well.
Query ==
    /\ Expired # {}
    /\ effects' = Recovered(effects)
    /\ operations' = Refreshed(Recovered(effects), Expired)
    /\ lapsed' = lapsed \ Expired
    /\ UNCHANGED <<userVars, claims, providerVars>>

-----------------------------------------------------------------------------
(* The worker at the provider *)

Claiming(w) == effects[claims[w].effect]

At(w, at, result) ==
    claims' = [claims EXCEPT ![w].at = at, ![w].result = result]

Delivering(w, at) == claims[w].at = at /\ claims[w].task = "dispatch"
Observing(w) == claims[w].at = "calling" /\ claims[w].task = "reconcile"

\* The request was not made: no connection, or the sessions were not listed.
NotSent(w) ==
    /\ Delivering(w, "calling")
    /\ At(w, "finishing", "not_sent")
    /\ UNCHANGED <<userVars, outboxVars, providerVars>>

\* deliver of a mirror: the PATCH leaves.
SendMirror(w) ==
    /\ Delivering(w, "calling")
    /\ Claiming(w).kind \in Mirrors
    /\ inFlight' = inFlight \cup {<<claims[w].effect, claims[w].fence>>}
    /\ At(w, "sent", "none")
    /\ UNCHANGED <<userVars, outboxVars, shown, sessions>>

\* The answer shows this very effect (mirrored).
Answered(w) ==
    /\ Delivering(w, "sent")
    /\ <<claims[w].effect, claims[w].fence>> \notin inFlight
    /\ shown[Claiming(w).user][Claiming(w).kind] = claims[w].effect
    /\ At(w, "finishing", "confirmed")
    /\ UNCHANGED <<userVars, outboxVars, providerVars>>

\* deliver of a revocation: listed sessions are ended one by one, up to the
\* first request that does not succeed.
RevokeSessions(w) ==
    /\ Delivering(w, "calling")
    /\ Claiming(w).kind = "revoke_sessions"
    /\ \E left \in SUBSET sessions[Claiming(w).user] :
          sessions' = [sessions EXCEPT ![Claiming(w).user] = left]
    /\ At(w, "revoked", "none")
    /\ UNCHANGED <<userVars, outboxVars, inFlight, shown>>

\* BUG: a revocation is confirmed without listing the sessions again.
ShowsUnlisted(e) ==
    CASE effects[e].kind = "revoke_sessions" -> TRUE
      [] effects[e].kind = "mirror_metadata" ->
            shown[effects[e].user]["mirror_metadata"] = e
      [] effects[e].kind = "mirror_name"     -> FALSE

\* What a read of the provider proves: no session is left, or the metadata
\* are those of this effect.  Equal names prove nothing.
Shows(e) ==
    CASE effects[e].kind = "revoke_sessions" -> sessions[effects[e].user] = {}
      [] effects[e].kind = "mirror_metadata" ->
            shown[effects[e].user]["mirror_metadata"] = e
      [] effects[e].kind = "mirror_name"     -> FALSE

\* The last step of a revocation, and observe.
Read(w) ==
    /\ Delivering(w, "revoked") \/ Observing(w)
    /\ At(w, "finishing", IF Shows(claims[w].effect) THEN "confirmed" ELSE "unknown")
    /\ UNCHANGED <<userVars, outboxVars, providerVars>>

\* Ten seconds pass, or the provider fails: nothing is known.
TimeOut(w) ==
    /\ claims[w].at \in {"sent", "revoked"} \/ Observing(w)
    /\ At(w, "finishing", "unknown")
    /\ UNCHANGED <<userVars, outboxVars, providerVars>>

\* The state and fence of the effect are those of the claim, in its lease.
Current(w) ==
    LET c == claims[w]
    IN  /\ effects[c.effect].fence = c.fence
        /\ effects[c.effect].state =
              (IF c.task = "reconcile" THEN "reconciling" ELSE "dispatching")
        /\ c.effect \notin lapsed

\* BUG: after the last attempt the effect is retried all the same.
NextStateUnbounded(e, result) ==
    CASE result = "confirmed" -> "confirmed"
      [] result = "not_sent"  -> "retryable"
      [] result = "unknown"   -> "retryable"

NextState(e, result) ==
    CASE result = "confirmed" -> "confirmed"
      [] result = "not_sent" /\ effects[e].attempts < MaxAttempts -> "retryable"
      [] OTHER -> "needs_reconciliation"

\* finish: the report of a claim that is no longer current is refused, or
\* replayed when it was the one already made; neither changes a row.
Finish(w) ==
    LET e == claims[w].effect
    IN  /\ claims[w].at = "finishing"
        /\ claims' = [claims EXCEPT ![w] = Idle]
        /\ IF Current(w)
           THEN LET table == Moved(effects, {e}, NextState(e, claims[w].result))
                IN  /\ effects' = table
                    /\ operations' = Refreshed(table, {e})
           ELSE UNCHANGED <<effects, operations>>
        /\ UNCHANGED <<userVars, lapsed, providerVars>>

\* The worker dies, or its report cannot take the authority lock.
Stop(w) ==
    /\ claims[w] # Idle
    /\ claims' = [claims EXCEPT ![w] = Idle]
    /\ UNCHANGED <<userVars, outboxVars, providerVars>>

\* Thirty seconds after the claim.
Lapse(e) ==
    /\ effects[e].state \in Claimed
    /\ lapsed' = lapsed \cup {e}
    /\ UNCHANGED <<userVars, operations, effects, claims, providerVars>>

-----------------------------------------------------------------------------
(* The provider *)

\* A request is applied, however late.
Apply(r) ==
    /\ inFlight' = inFlight \ {r}
    /\ shown' = [shown EXCEPT ![effects[r[1]].user][effects[r[1]].kind] = r[1]]
    /\ UNCHANGED <<userVars, outboxVars, claims, sessions>>

Lose(r) ==
    /\ inFlight' = inFlight \ {r}
    /\ UNCHANGED <<userVars, outboxVars, claims, shown, sessions>>

\* The provider signs a user in, whatever its local status.
SignIn(u) ==
    /\ sessions' = [sessions EXCEPT ![u] = @ \cup {Len(effects)}]
    /\ UNCHANGED <<userVars, outboxVars, claims, inFlight, shown>>

WorkerStep(w) ==
    \/ Claim(w)
    \/ \E e \in DOMAIN effects : Reconcile(w, e)
    \/ NotSent(w) \/ SendMirror(w) \/ Answered(w) \/ RevokeSessions(w)
    \/ Read(w) \/ TimeOut(w) \/ Finish(w) \/ Stop(w)

Next ==
    \/ \E u \in Users : SetAccess(u) \/ SignIn(u)
    \/ \E o, s \in Users : Rename(o, s)
    \/ \E w \in Workers : WorkerStep(w)
    \/ \E e \in DOMAIN effects : Lapse(e)
    \/ \E r \in inFlight : Apply(r) \/ Lose(r)
    \/ Query

Spec == Init /\ [][Next]_vars

\* Leases end, and the runtime worker ticks every five seconds.
Ticking ==
    /\ \A e \in 1..MaxEffects : WF_vars(e \in DOMAIN effects /\ Lapse(e))
    /\ \A w \in Workers :
          /\ WF_vars(Read(w) \/ TimeOut(w) \/ NotSent(w))
          /\ WF_vars(Finish(w))
          /\ SF_vars(Claim(w))

FairSpec == Spec /\ Ticking

-----------------------------------------------------------------------------
(* Properties *)

States == Final \cup Claimed \cup {"pending", "retryable", "needs_reconciliation"}

\* The types of the outbox rows and the provider's data; an effect to be
\* tried again still may be.
EffectsTypeOK ==
    /\ active \in [Users -> BOOLEAN] /\ version \in [Users -> Nat \ {0}]
    /\ \A n \in DOMAIN operations :
          operations[n] \in {"pending_effects", "needs_reconciliation", "completed"}
    /\ Len(effects) <= MaxEffects
    /\ \A e \in DOMAIN effects :
          /\ effects[e].user \in Users /\ effects[e].kind \in Kinds
          /\ effects[e].state \in States
          /\ effects[e].operation \in DOMAIN operations
          /\ effects[e].attempts \in 0..MaxAttempts
          /\ effects[e].state = "retryable" => effects[e].attempts < MaxAttempts
          /\ effects[e].fence >= effects[e].attempts
    /\ lapsed \subseteq DOMAIN effects
    /\ \A r \in inFlight : r[1] \in DOMAIN effects /\ effects[r[1]].kind \in Mirrors
    /\ \A u \in Users, k \in Mirrors : shown[u][k] \in 0..Len(effects)

\* What was sent late or twice never undoes what a later decision wrote: the
\* provider's data only ever move on to a later effect.
ProviderNeverGoesBack ==
    \A u \in Users, k \in Mirrors : shown'[u][k] >= shown[u][k]

ProviderNeverGoesBackAlways == [][ProviderNeverGoesBack]_vars

\* One effect of a user is worked on at a time, and in order: whatever was
\* started has everything before it resolved.
StartedInOrder ==
    /\ EffectsTypeOK
    /\ \A e \in DOMAIN effects :
          effects[e].state # "pending" =>
              \A p \in 1..(e - 1) :
                  effects[p].user = effects[e].user => effects[p].state \in Final

\* A confirmed effect happened: the mirror was applied, and no session that
\* began before a confirmed revocation is left.
ConfirmedHappened ==
    \A e \in DOMAIN effects :
        effects[e].state = "confirmed" =>
            IF effects[e].kind = "revoke_sessions"
            THEN \A s \in sessions[effects[e].user] : s >= e
            ELSE shown[effects[e].user][effects[e].kind] >= e

Settled(u) ==
    \A e \in DOMAIN effects : effects[e].user = u => effects[e].state \in Final

ChangesOf(u) ==
    {e \in DOMAIN effects : effects[e].user = u /\ effects[e].kind = "mirror_metadata"}

\* Once nothing of a user is left to do, the provider shows the status that
\* was decided last.
SettledIsMirrored ==
    \A u \in Users :
        Settled(u) /\ ChangesOf(u) # {} =>
            /\ shown[u]["mirror_metadata"] # 0
            /\ effects[shown[u]["mirror_metadata"]].active = active[u]

\* No effect stays claimed: a worker reports or its lease runs out.
ClaimsEnd ==
    \A e \in 1..MaxEffects :
        (e \in DOMAIN effects /\ effects[e].state \in Claimed)
            ~> (e \in DOMAIN effects /\ effects[e].state \notin Claimed)

=============================================================================
