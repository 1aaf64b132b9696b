-------------------------- MODULE IdentityAuthority --------------------------
(***************************************************************************)
(* Who may act in the portal: src/identity.rs with operations.rs,          *)
(* agencies.rs, deletions.rs and inbox.rs.  Administrators change roles    *)
(* and access of registered users, provision and reactivate agencies, and  *)
(* delete users; the identity provider reports accounts that are gone or   *)
(* banned.  Every transaction holds the authority lock (begin_mutation).   *)
(* A change and the start of a deletion are two steps, the checks and the  *)
(* writes, so that what the lock excludes can be seen; the others are one. *)
(*                                                                         *)
(* A deletion is a durable intent that a leased and fenced claim carries   *)
(* to the provider; a request whose answer was lost may still be applied.  *)
(*                                                                         *)
(* A person is a provider subject with one verified email.  An agency is   *)
(* named by its owner.  The three staff roles are one, "staff".  Hourly    *)
(* limits, audit rows and the bootstrap of the first user are left out.    *)
(***************************************************************************)
EXTENDS Integers, FiniteSets

CONSTANTS
    Subjects,      \* people, registered or not
    NoSubject,
    Ops,           \* operation ids; one id names one workflow
    Roles0,        \* role of each user registered at the start
    OwnerOf0,      \* agency each sub-user belongs to at the start
    Traders,       \* people whose clients and business are followed
    Grants,        \* roles an administrator hands out
    MaxAttempts,   \* stands for 5, the limit of deliveries
    MaxFence       \* bound: claims of one intent

Roles == {"superadmin", "admin", "staff", "b2b", "b2b_sub", "customer"}

ASSUME PeopleAssumption ==
    /\ NoSubject \notin Subjects
    /\ Traders \subseteq Subjects /\ Grants \subseteq Roles
    /\ DOMAIN Roles0 \subseteq Subjects /\ \A s \in DOMAIN Roles0 : Roles0[s] \in Roles
    /\ OwnerOf0 \in [Subjects -> Subjects \cup {NoSubject}]
\* Nothing changes before the first superadmin was made (require_bootstrap).
ASSUME BootstrapAssumption == \E s \in DOMAIN Roles0 : Roles0[s] = "superadmin"
ASSUME LimitsAssumption == MaxAttempts \in Nat \ {0} /\ MaxFence \in Nat

VARIABLES
    user,       \* portal_users: role, status and version
    agency,     \* portal_agencies by owner: status and version
    memberOf,   \* portal_agency_memberships of kind sub: the owner
    txn,        \* transactions between their checks and their writes
    rows,       \* the journals of all workflows, by operation id
    calls,      \* claims whose worker has not reported yet
    effects,    \* people with unconfirmed provider effects
    barred,     \* portal_identity_provider_state.deleted
    inbox,      \* people with a provider event to process, and how it stands
    business,   \* people with open bookings, holds, funds or requests
    clients,    \* people with a live API client
    frozen,     \* people whose wallet owner is frozen
    account,    \* at the provider: the account of a person
    wire        \* at the provider: requests that may still be applied

registry == <<user, agency, memberOf>>
trade == <<business, clients, frozen>>
provider == <<account, wire>>
vars == <<registry, txn, rows, calls, effects, barred, inbox, trade, provider>>

Absent == [role |-> "customer", status |-> "absent", version |-> 0]
NoAgency == [status |-> "none", version |-> 0]
NoRow == [kind |-> "none"]
NoTxn == [kind |-> "none"]
NoEvent == [state |-> "none", attempts |-> 0]

Init ==
    /\ user = [s \in Subjects |-> IF s \in DOMAIN Roles0
                  THEN [role |-> Roles0[s], status |-> "active", version |-> 1]
                  ELSE Absent]
    /\ agency = [s \in Subjects |-> IF user[s].role = "b2b"
                    THEN [status |-> "active", version |-> 1] ELSE NoAgency]
    /\ memberOf = OwnerOf0
    /\ txn = [o \in Ops |-> NoTxn]
    /\ rows = [o \in Ops |-> NoRow]
    /\ calls = {}
    /\ effects = {}
    /\ barred = {}
    /\ inbox = [s \in Subjects |-> NoEvent]
    /\ business = {}
    /\ clients = {}
    /\ frozen = {}
    /\ account = [s \in Subjects |-> IF s \in DOMAIN Roles0 THEN "live" ELSE "none"]
    /\ wire = {}

-----------------------------------------------------------------------------
(* Authority *)

\* BUG: a mutation reads before it has the authority lock.
LockFreeUnlocked == TRUE

\* begin_mutation: the lock is free.
LockFree == \A o \in Ops : txn[o] = NoTxn

Manages(role) == role \in {"superadmin", "admin"}
CanGrant(by, role) ==
    \/ by = "superadmin"
    \/ by = "admin" /\ role # "superadmin"
Terminal(s) == user[s].status \in {"deleting", "deleted"}
Registered(s) == user[s].status # "absent"
Roots == {s \in Subjects : user[s].role = "superadmin" /\ user[s].status = "active"}
Members(o) == {s \in Subjects : memberOf[s] = o}

\* BUG: an actor whose account the provider deleted still acts.
NotBarredAnyway(s) == TRUE

\* inbox::guard_subject.
NotBarred(s) == s \notin barred

\* operations::actor.
MayAct(s) == user[s].status = "active" /\ NotBarred(s)

OwnsActive(o) == agency[o].status = "active"

\* operations::scope: authorize_management or authorize_sub_user.
InScope(actor, target) ==
    /\ actor # target /\ ~Terminal(target) /\ Registered(target)
    /\ \/ Manages(user[actor].role) /\ CanGrant(user[actor].role, user[target].role)
       \/ /\ user[actor].role = "b2b" /\ user[target].role = "b2b_sub"
          /\ OwnsActive(actor) /\ memberOf[target] = actor

\* guard_last_superadmin.
AnotherRoot(target, role, status) ==
    (role # "superadmin" \/ status # "active")
        => (target \in Roots => Roots \ {target} # {})

\* The agency of a b2b user or a sub-user can be used: it is active, and so
\* is its owner unless that is who is being activated.
AgencyUsable(s) ==
    \/ OwnsActive(s)
    \/ /\ memberOf[s] # NoSubject
       /\ OwnsActive(memberOf[s]) /\ user[memberOf[s]].status = "active"

HasMembership(s) == agency[s] # NoAgency \/ memberOf[s] # NoSubject

\* guard_retained_references.
Unreferenced(s) == s \notin clients \cup business

\* Every UPDATE of a user's row bumps its version, and so does the insertion of
\* its membership.
Updated(u, role, status, writes) ==
    [role |-> role, status |-> status, version |-> u.version + writes]
Touched(u) == [u EXCEPT !.version = @ + 1]
Marked(a, status) == [status |-> status, version |-> a.version + 1]

\* agencies::invalidate_members.
Invalidated(table, owner) ==
    [s \in Subjects |-> IF memberOf[s] = owner THEN Touched(table[s]) ELSE table[s]]

-----------------------------------------------------------------------------
(* operations::change *)

\* What each change asks for, as [action, role or active or agency version].
Changes ==
    [action : {"set_role"}, role : Grants]
        \cup [action : {"set_access"}, active : BOOLEAN]
        \cup [action : {"provision_agency"}]
        \cup [action : {"reactivate_agency"}, agencyVersion : 1..4]

Outcome(target, c) ==
    CASE c.action = "set_role" -> <<c.role, user[target].status>>
      [] c.action = "set_access" ->
            <<user[target].role, IF c.active THEN "active" ELSE "suspended">>
      [] OTHER -> <<"b2b", "active">>

\* What the actor and the target must be for a change of this kind.
Admissible(actor, target, c) ==
    CASE c.action = "set_role" ->
            /\ CanGrant(user[actor].role, c.role)
            /\ c.role # user[target].role
                   => ~HasMembership(target) /\ c.role \notin {"b2b", "b2b_sub"}
      [] c.action = "set_access" -> TRUE
      [] c.action = "provision_agency" ->
            /\ Manages(user[actor].role) /\ ~HasMembership(target)
            /\ user[target].role = "customer"
            /\ user[target].status \in {"onboarding", "active"}
            /\ Unreferenced(target)
      [] c.action = "reactivate_agency" ->
            /\ Manages(user[actor].role)
            /\ user[target].role = "b2b" /\ user[target].status = "suspended"
            /\ agency[target] = [status |-> "suspended", version |-> c.agencyVersion]

\* BUG: the version the administrator looked at is not compared.
AsSeenAnyway(target, expected) == TRUE

AsSeen(target, expected) == user[target].version = expected

\* The checks of change, under the lock.
BeginChange(o, actor, target, expected, c) ==
    /\ rows[o] = NoRow /\ LockFree
    /\ MayAct(actor) /\ InScope(actor, target)
    /\ AsSeen(target, expected)
    /\ Admissible(actor, target, c)
    /\ LET to == Outcome(target, c) IN
        /\ to # <<user[target].role, user[target].status>>
        /\ (/\ to[2] = "active" /\ to[1] \in {"b2b", "b2b_sub"}
            /\ c.action \in {"set_role", "set_access"}) => AgencyUsable(target)
        /\ to[2] = "active" => NotBarred(target)
        /\ AnotherRoot(target, to[1], to[2])
        /\ txn' = [txn EXCEPT ![o] =
              [kind |-> "change", target |-> target, expected |-> expected,
               action |-> c.action, role |-> to[1], status |-> to[2]]]
    /\ UNCHANGED <<registry, rows, calls, effects, barred, inbox, trade, provider>>

\* BUG: suspending an owner leaves the agency as it is.
AgencyAfterKept(t) == agency[t.target]

\* The agency after a change of its owner.
AgencyAfter(t) ==
    LET a == agency[t.target] IN
    CASE t.action = "provision_agency" -> [status |-> "active", version |-> 1]
      [] t.action = "reactivate_agency" -> Marked(a, "active")
      [] /\ t.role = "b2b" /\ t.status = "suspended"
         /\ a.status \notin {"none", "archived"} -> Marked(a, "suspended")
      [] OTHER -> a

\* The people whose sessions a change ends: the target, and the sub-users of
\* an agency that was suspended or reactivated.
Affected(t) ==
    IF AgencyAfter(t) = agency[t.target] THEN {t.target}
    ELSE {t.target} \cup Members(t.target)

\* The writes of change.
CommitChange(o) ==
    LET t == txn[o] IN
    /\ t.kind = "change"
    /\ user' = [s \in Subjects |->
          IF s = t.target
          THEN Updated(user[s], t.role, t.status,
                       IF t.action = "provision_agency" THEN 2 ELSE 1)
          ELSE IF s \in Affected(t) THEN Touched(user[s]) ELSE user[s]]
    /\ agency' = [agency EXCEPT ![t.target] = AgencyAfter(t)]
    /\ rows' = [rows EXCEPT ![o] = [kind |-> "change", subject |-> t.target,
                                    expected |-> t.expected]]
    /\ clients' = clients \ Affected(t)
    /\ effects' = effects \cup Affected(t)
    /\ txn' = [txn EXCEPT ![o] = NoTxn]
    /\ UNCHANGED <<memberOf, calls, barred, inbox, business, frozen, provider>>

-----------------------------------------------------------------------------
(* deletions *)

\* deletions::scope.
MayDelete(actor, target) ==
    /\ MayAct(actor) /\ actor # target /\ Registered(target)
    /\ \/ user[actor].role = "superadmin"
       \/ /\ user[actor].role = "b2b" /\ user[target].role = "b2b_sub"
          /\ OwnsActive(actor) /\ memberOf[target] = actor

Unfinished(r) ==
    \/ r.kind = "create" /\ r.state \notin {"completed", "cancelled"}
    \/ r.kind = "invite" /\ r.state \notin {"accepted", "revoked", "cancelled", "expired"}

\* Creates and invitations that a person started, whose account the provider
\* confirmed to be the person's, or that lead into its agency.
WorkOf(t) ==
    {o \in Ops : Unfinished(rows[o]) /\ t \in {rows[o].issuer, rows[o].subject, rows[o].owner}}

\* BUG: only the person's own work is looked at, not that of its agency.
BlockersOwn(t) == t \in effects \cup business

\* deletions::dependencies.
Blockers(t) ==
    \/ \E m \in Members(t) : user[m].status # "deleted"
    \/ t \in effects \cup business
    \/ WorkOf(t) # {}

\* operations::revoke_clients.
Revoked(people) == clients \ people

\* The checks of prepare, under the lock, against the review it was given.
BeginDeletion(o, actor, target, expected) ==
    /\ rows[o] = NoRow /\ LockFree
    /\ MayDelete(actor, target)
    /\ \A p \in Ops : rows[p].kind = "delete" => rows[p].subject # target
    /\ AsSeen(target, expected)
    /\ ~Blockers(target) /\ ~Terminal(target)
    /\ AnotherRoot(target, user[target].role, "deleting")
    /\ txn' = [txn EXCEPT ![o] = [kind |-> "delete", target |-> target,
                                  expected |-> expected, issuer |-> actor]]
    /\ UNCHANGED <<registry, rows, calls, effects, barred, inbox, trade, provider>>

\* The writes of prepare.
CommitDeletion(o) ==
    LET t == txn[o].target IN
    /\ txn[o].kind = "delete"
    /\ user' = [user EXCEPT ![t] = Updated(@, @.role, "deleting", 1)]
    /\ agency' = IF OwnsActive(t) THEN [agency EXCEPT ![t] = Marked(@, "suspended")]
                 ELSE agency
    /\ frozen' = frozen \cup {t}
    /\ clients' = Revoked({t})
    /\ rows' = [rows EXCEPT ![o] =
          [kind |-> "delete", subject |-> t, expected |-> txn[o].expected,
           state |-> "prepared", fence |-> 0, attempts |-> 0]]
    /\ txn' = [txn EXCEPT ![o] = NoTxn]
    /\ UNCHANGED <<memberOf, calls, effects, barred, inbox, business, provider>>

\* The provider requests a claim may send.
Request(o, task) == [op |-> o, task |-> task]

\* A claim advances the fence of its row and starts a call.
Claimed(o, state, task, attempts) ==
    /\ rows[o].fence < MaxFence
    /\ rows' = [rows EXCEPT ![o].state = state, ![o].fence = @ + 1,
                            ![o].attempts = @ + attempts]
    /\ calls' = calls \cup {[op |-> o, fence |-> rows[o].fence + 1, task |-> task]}
    /\ wire' = IF task = "observe" THEN wire ELSE wire \cup {Request(o, task)}

\* maintain_denial.
KeepDenied(t) ==
    /\ frozen' = frozen \cup {t}
    /\ clients' = Revoked({t})

\* claim, for dispatch: the last look at what blocks the deletion.
ClaimDelete(o, actor) ==
    /\ LockFree /\ rows[o].kind = "delete" /\ rows[o].state = "prepared"
    /\ MayDelete(actor, rows[o].subject)
    /\ user[rows[o].subject].status = "deleting" /\ ~Blockers(rows[o].subject)
    /\ rows[o].attempts < MaxAttempts
    /\ Claimed(o, "dispatching", "delete", 1)
    /\ UNCHANGED <<registry, txn, effects, barred, inbox, trade, account>>

\* claim, to look at what an earlier request did.
ClaimDeleteObservation(o, actor) ==
    /\ LockFree /\ rows[o].kind = "delete" /\ rows[o].state = "needs_reconciliation"
    /\ MayDelete(actor, rows[o].subject)
    /\ Claimed(o, "reconciling", "observe", 0)
    /\ UNCHANGED <<registry, txn, effects, barred, inbox, trade, account>>

\* query, recover: the lease of a claim has passed.
RecoverDelete(o, actor) ==
    /\ LockFree /\ rows[o].kind = "delete"
    /\ rows[o].state \in {"dispatching", "reconciling"}
    /\ MayDelete(actor, rows[o].subject)
    /\ rows' = [rows EXCEPT ![o].state = "needs_reconciliation"]
    /\ KeepDenied(rows[o].subject)
    /\ UNCHANGED <<registry, txn, calls, effects, barred, inbox, business, provider>>

\* The claim is the one its row was last given to.
Current(c, task, state) ==
    c.task = task /\ rows[c.op].state = state /\ rows[c.op].fence = c.fence

\* BUG: a missing account alone proves the deletion.
ProvedByAbsence(s, found) == ~found

\* DeleteProvider::observe: the account is not found, and the provider's own
\* signed event says it was deleted.
Proved(s, found) == ~found /\ s \in barred

DeleteResult(o, result) ==
    CASE result = "confirmed" -> "provider_confirmed"
      [] result = "not_sent" /\ rows[o].attempts < MaxAttempts -> "prepared"
      [] OTHER -> "needs_reconciliation"

\* finish, after a dispatch: the request was applied and answered, never left,
\* or nobody knows.
FinishDelete(c, result) ==
    /\ LockFree /\ rows[c.op].kind = "delete" /\ Current(c, "delete", "dispatching")
    /\ \/ result = "confirmed" /\ Request(c.op, "delete") \notin wire
       \/ result = "not_sent" /\ Request(c.op, "delete") \in wire
       \/ result = "unknown"
    /\ rows' = [rows EXCEPT ![c.op].state = DeleteResult(c.op, result)]
    /\ wire' = IF result = "not_sent" THEN wire \ {Request(c.op, "delete")} ELSE wire
    /\ calls' = calls \ {c}
    /\ KeepDenied(rows[c.op].subject)
    /\ UNCHANGED <<registry, txn, effects, barred, inbox, business, account>>

\* finish, after an observation.  A live account may not be found either, when
\* the lookup went to the wrong tenant.
FinishDeleteObservation(c, found) ==
    /\ LockFree /\ rows[c.op].kind = "delete" /\ Current(c, "observe", "reconciling")
    /\ LET t == rows[c.op].subject IN
        /\ found => account[t] = "live"
        /\ rows' = [rows EXCEPT ![c.op].state =
              IF Proved(t, found) THEN "provider_confirmed" ELSE "needs_reconciliation"]
        /\ KeepDenied(t)
    /\ calls' = calls \ {c}
    /\ UNCHANGED <<registry, txn, effects, barred, inbox, business, provider>>

\* A worker is gone, or its answer comes after its claim: finish refuses it.
LoseCall(c) ==
    /\ calls' = calls \ {c}
    /\ UNCHANGED <<registry, txn, rows, effects, barred, inbox, trade, provider>>

\* finalize.
FinalizeDelete(o, actor) ==
    LET t == rows[o].subject IN
    /\ LockFree /\ rows[o].kind = "delete" /\ rows[o].state = "provider_confirmed"
    /\ MayDelete(actor, t)
    /\ user[t].status = "deleting" /\ ~Blockers(t)
    /\ clients' = Revoked({t})
    /\ user' = [user EXCEPT ![t] = Updated(@, @.role, "deleted", 1)]
    /\ agency' = IF agency[t].status \in {"none", "archived"} THEN agency
                 ELSE [agency EXCEPT ![t] = Marked(@, "archived")]
    /\ rows' = [rows EXCEPT ![o].state = "completed"]
    /\ UNCHANGED <<memberOf, txn, calls, effects, barred, inbox, business, frozen, provider>>

-----------------------------------------------------------------------------
(* inbox: what the provider reports *)

\* BUG: an agency outlives the account of its owner.
ContainedAgencyKept(s) == agency

ContainedAgency(s) ==
    IF OwnsActive(s) THEN [agency EXCEPT ![s] = Marked(@, "suspended")] ELSE agency

\* contain: nobody acts for an account that is gone, nor in its agency.
Contain(s) ==
    IF ~Registered(s) THEN UNCHANGED <<user, agency, clients>>
    ELSE /\ LET denied == IF Terminal(s) \/ user[s].status = "suspended" THEN user
                          ELSE [user EXCEPT ![s] = Updated(@, @.role, "suspended", 1)]
            IN user' = IF OwnsActive(s) THEN Invalidated(denied, s) ELSE denied
         /\ agency' = ContainedAgency(s)
         /\ clients' = Revoked({s} \cup Members(s))

\* ingest of user.deleted.  Its later processing changes nothing.
IngestDeleted(s) ==
    /\ LockFree /\ account[s] = "gone" /\ NotBarred(s)
    /\ barred' = barred \cup {s}
    /\ Contain(s)
    /\ UNCHANGED <<memberOf, txn, rows, calls, effects, inbox, business, frozen, provider>>

\* ingest of user.updated (or user.created).
IngestUpdated(s) ==
    /\ LockFree /\ account[s] # "none" /\ inbox[s] = NoEvent
    /\ inbox' = [inbox EXCEPT ![s] = [state |-> "pending", attempts |-> 0, seen |-> "none"]]
    /\ UNCHANGED <<registry, txn, rows, calls, effects, barred, trade, provider>>

\* process_one, the claim; the account is looked up after it, without the lock.
ClaimEvent(s) ==
    /\ LockFree /\ inbox[s].state \in {"pending", "retry"}
    /\ inbox[s].attempts < MaxAttempts
    /\ inbox' = [inbox EXCEPT ![s] = [state |-> "processing", attempts |-> @.attempts + 1,
                                      seen |-> IF NotBarred(s) THEN account[s] ELSE "none"]]
    /\ UNCHANGED <<registry, txn, rows, calls, effects, barred, trade, provider>>

Deferred(e) ==
    [e EXCEPT !.state = IF e.attempts < MaxAttempts THEN "retry" ELSE "dead_letter",
              !.seen = "none"]

\* process_one: the lease of an earlier claim has passed.
ExpireEvent(s) ==
    /\ LockFree /\ inbox[s].state = "processing"
    /\ inbox' = [inbox EXCEPT ![s] = Deferred(@)]
    /\ UNCHANGED <<registry, txn, rows, calls, effects, barred, trade, provider>>

\* The contact data of a person that is not being deleted.
Refreshed(s) == IF Terminal(s) THEN user ELSE [user EXCEPT ![s] = Touched(@)]

\* process_one, the end: what the lookup saw may be old by now.
FinishEvent(s, answer) ==
    /\ LockFree /\ inbox[s].state = "processing"
    /\ \/ answer = "unavailable"
       \/ answer = "live" /\ inbox[s].seen = "live"
       \/ answer = "gone" /\ account[s] = "gone"
       \/ answer = "skipped" /\ inbox[s].seen = "none"
    /\ inbox' = [inbox EXCEPT ![s] =
          IF answer = "unavailable" /\ NotBarred(s) THEN Deferred(@)
          ELSE [@ EXCEPT !.state = "completed", !.seen = "none"]]
    /\ CASE NotBarred(s) /\ answer = "gone" -> Contain(s)
         [] NotBarred(s) /\ answer = "live" /\ Registered(s) ->
               user' \in {user, Refreshed(s)} /\ UNCHANGED <<agency, clients>>
         [] OTHER -> UNCHANGED <<user, agency, clients>>
    /\ UNCHANGED <<memberOf, txn, rows, calls, effects, barred, business, frozen, provider>>

\* recovery::command: a superadmin retries a dead letter.
RetryEvent(s) ==
    /\ LockFree /\ inbox[s].state = "dead_letter"
    /\ \E r \in Roots : MayAct(r)
    /\ inbox' = [inbox EXCEPT ![s].state = "retry", ![s].attempts = 0]
    /\ UNCHANGED <<registry, txn, rows, calls, effects, barred, trade, provider>>

-----------------------------------------------------------------------------
(* The business barrier of migration 0042, and the world outside *)

\* BUG: the barrier looks at the provider's state only.
WritableUnlessBarred(s) == NotBarred(s)

\* identity_assert_subject_writable.
Writable(s) == ~Terminal(s) /\ NotBarred(s)

\* A person, or a client that acts for it, books, pays or asks for funds.
OpenBusiness(s) ==
    /\ LockFree /\ Writable(s) /\ (MayAct(s) \/ s \in clients) /\ s \notin business
    /\ business' = business \cup {s}
    /\ UNCHANGED <<registry, txn, rows, calls, effects, barred, inbox, clients, frozen, provider>>

\* The last open booking, hold or request of a person is settled, by anybody.
SettleBusiness(s) ==
    /\ LockFree /\ s \in business /\ Writable(s)
    /\ business' = business \ {s}
    /\ UNCHANGED <<registry, txn, rows, calls, effects, barred, inbox, clients, frozen, provider>>

OpenClient(s) ==
    /\ LockFree /\ Registered(s) /\ Writable(s) /\ s \notin clients
    /\ clients' = clients \cup {s}
    /\ UNCHANGED <<registry, txn, rows, calls, effects, barred, inbox, business, frozen, provider>>

\* The effects of a person have all been confirmed or superseded.
SettleEffects(s) ==
    /\ s \in effects
    /\ effects' = effects \ {s}
    /\ UNCHANGED <<registry, txn, rows, calls, barred, inbox, trade, provider>>

\* The provider applies a request to delete an account, early or late.
ProviderDeletes(w) ==
    /\ w.task = "delete" /\ account[rows[w.op].subject] = "live"
    /\ account' = [account EXCEPT ![rows[w.op].subject] = "gone"]
    /\ wire' = wire \ {w}
    /\ UNCHANGED <<registry, txn, rows, calls, effects, barred, inbox, trade>>

\* An account is deleted at the provider, not through the portal.
DeletedElsewhere(s) ==
    /\ account[s] = "live"
    /\ account' = [account EXCEPT ![s] = "gone"]
    /\ UNCHANGED <<registry, txn, rows, calls, effects, barred, inbox, trade, wire>>

-----------------------------------------------------------------------------
NextAuthority ==
    \/ \E o \in Ops, a, t \in Subjects :
          \/ \E c \in Changes, e \in 1..user[t].version : BeginChange(o, a, t, e, c)
          \/ \E e \in 1..user[t].version : BeginDeletion(o, a, t, e)
    \/ \E o \in Ops : CommitChange(o) \/ CommitDeletion(o)
    \/ \E o \in Ops, a \in Subjects :
          \/ ClaimDelete(o, a) \/ ClaimDeleteObservation(o, a)
          \/ RecoverDelete(o, a) \/ FinalizeDelete(o, a)
    \/ \E c \in calls :
          \/ \E r \in {"confirmed", "not_sent", "unknown"} : FinishDelete(c, r)
          \/ \E found \in BOOLEAN : FinishDeleteObservation(c, found)
          \/ LoseCall(c)
    \/ \E s \in Subjects :
          \/ IngestDeleted(s) \/ IngestUpdated(s)
          \/ ClaimEvent(s) \/ ExpireEvent(s) \/ RetryEvent(s)
          \/ \E r \in {"live", "gone", "unavailable", "skipped"} : FinishEvent(s, r)
          \/ SettleEffects(s) \/ DeletedElsewhere(s)
    \/ \E s \in Traders : OpenBusiness(s) \/ SettleBusiness(s) \/ OpenClient(s)
    \/ \E w \in wire : ProviderDeletes(w)

SpecAuthority == Init /\ [][NextAuthority]_vars

-----------------------------------------------------------------------------
(* Properties *)

AuthorityTypeOK ==
    /\ user \in [Subjects -> [role : Roles, version : Nat,
          status : {"absent", "onboarding", "active", "suspended", "deleting", "deleted"}]]
    /\ agency \in [Subjects -> [status : {"none", "active", "suspended", "archived"},
                                version : Nat]]
    /\ memberOf \in [Subjects -> Subjects \cup {NoSubject}]
    /\ effects \cup barred \cup business \cup clients \cup frozen \subseteq Subjects
    /\ account \in [Subjects -> {"none", "live", "gone"}]
    /\ \A o \in Ops : rows[o].kind # "none" => txn[o] = NoTxn
    /\ \A c \in calls : c.fence \in 1..rows[c.op].fence
    /\ \A s \in Subjects : inbox[s].attempts \in 0..MaxAttempts

\* Two administrators who act at the same time cannot leave the portal without
\* a superadmin (begin_mutation, guard_last_superadmin): only the provider can,
\* when the account of one is gone.
RootRemains ==
    Roots # {} \/ \E s \in Subjects : user[s].role = "superadmin" /\ account[s] = "gone"

\* Of two administrators who decided on the same state of a person, one is
\* told that it has changed: no two changes, nor a change and a deletion, were
\* made from one version of the row (change, prepare).
OneChangePerVersion ==
    /\ AuthorityTypeOK
    /\ \A o, p \in Ops :
          (/\ o # p /\ {rows[o].kind, rows[p].kind} \subseteq {"change", "delete"}
           /\ rows[o].subject = rows[p].subject) => rows[o].expected # rows[p].expected

\* An agency works only while its owner does, whether the owner is suspended by
\* an administrator, being deleted, or gone at the provider, and whatever is
\* reactivated later (change, reactivate, contain, prepare).
AgencyNeedsOwner ==
    \A s \in Subjects : OwnsActive(s) => user[s].role = "b2b" /\ user[s].status = "active"

\* What was denied stays denied: a person whose account the provider deleted is
\* never active again, and has no client; one that the portal deletes has no
\* client and a frozen wallet from the first moment, and is not called deleted
\* while its account lives (contain, prepare, maintain_denial, finalize).
DeletionHolds ==
    /\ \A s \in barred : user[s].status \notin {"onboarding", "active"} /\ s \notin clients
    /\ \A s \in Subjects : Terminal(s) => s \in frozen \ clients
    /\ \A s \in Subjects : user[s].status = "deleted" => account[s] = "gone"

\* Nothing is left behind by a deletion: from the moment it is prepared the
\* person has no open business, its agency no live sub-user, and no create or
\* invitation of theirs is under way (dependencies and migration 0042).
NothingLeftBehind ==
    \A o \in Ops : rows[o].kind = "delete" =>
        /\ rows[o].subject \notin business
        /\ \A m \in Members(rows[o].subject) : user[m].status = "deleted"
        /\ WorkOf(rows[o].subject) = {}

=============================================================================
