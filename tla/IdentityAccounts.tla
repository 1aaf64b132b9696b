-------------------------- MODULE IdentityAccounts --------------------------
(***************************************************************************)
(* How a person comes to have an account and a role: src/identity/         *)
(* creates.rs, invitations.rs, provisioning.rs and the onboarding of       *)
(* api.rs, on top of the registry and the authority of IdentityAuthority.  *)
(*                                                                         *)
(* An administrator has the provider create an account, or invites an      *)
(* email and the person signs up and accepts; a person may also just sign  *)
(* up and be onboarded as a customer.  Each create and invitation is a     *)
(* row whose leased and fenced claims carry requests to the provider, and  *)
(* the role is granted only in a later transaction, which looks at the     *)
(* provider first and asks again who may grant what.                       *)
(*                                                                         *)
(* The letters to the person are modelled in Deliveries.                 *)
(***************************************************************************)
EXTENDS IdentityAuthority

CONSTANT MaxMembers   \* stands for 100 members of an agency, itself included
ASSUME MembersAssumption ==
    /\ MaxMembers \in Nat
    /\ \A s \in Subjects : LET first == {s} \cup {p \in Subjects : OwnerOf0[p] = s} IN
          IsFiniteSet(first) /\ Cardinality(first) <= MaxMembers

VARIABLES
    remote,   \* at the provider: what an operation made, and how it stands
    looks     \* proofs read from the provider and not yet used

accountVars == <<vars, remote, looks>>

InitAccounts ==
    /\ Init
    /\ remote = [o \in Ops |-> "none"]
    /\ looks = {}

\* What the steps of creates and invitations leave alone.
others == <<registry, txn, effects, barred, inbox, trade>>

-----------------------------------------------------------------------------
(* What both have in common *)

Unreserved(p) == \A o \in Ops : Unfinished(rows[o]) => rows[o].person # p

\* BUG: only people who are members already are counted.
TakenByMembers(owner, o) ==
    Cardinality({s \in Members(owner) \cup {owner} : user[s].status # "deleted"})

\* The places of an agency that are taken, other than by operation o.
Taken(owner, o) ==
    Cardinality({s \in Members(owner) \cup {owner} : user[s].status # "deleted"})
    + Cardinality({p \in Ops \ {o} : Unfinished(rows[p]) /\ rows[p].owner = owner})

\* BUG: the agency is not compared with the one the operation was meant for.
AgencyInScopeAnyway(o, owner, version) == TRUE

\* creates::agency_scope.
AgencyInScope(o, owner, version) ==
    owner # NoSubject =>
        /\ agency[owner] = [status |-> "active", version |-> version]
        /\ user[owner].status = "active" /\ user[owner].role = "b2b"
        /\ Taken(owner, o) < MaxMembers

AgencyVersion(owner) == IF owner = NoSubject THEN 0 ELSE agency[owner].version

InScopeRow(o) == AgencyInScope(o, rows[o].owner, rows[o].version)

NewRow(kind, actor, p, role, owner) ==
    [kind |-> kind, issuer |-> actor, person |-> p, subject |-> NoSubject,
     role |-> role, owner |-> owner, version |-> AgencyVersion(owner),
     state |-> "prepared", fence |-> 0, attempts |-> 0, revokes |-> 0, revoked |-> FALSE]

\* provisioning::commit and agencies::provision: the new row of a person, after
\* the updates that follow its insertion.
Grantee(role) ==
    [role |-> role, status |-> IF role = "customer" THEN "onboarding" ELSE "active",
     version |-> CASE role = "customer" -> 1
                   [] role \in {"b2b", "b2b_sub"} -> 3
                   [] OTHER -> 2]

Admit(o) ==
    LET p == rows[o].person  role == rows[o].role IN
    /\ NotBarred(p) /\ ~Registered(p) /\ Unreferenced(p)
    /\ user' = [user EXCEPT ![p] = Grantee(role)]
    /\ agency' = IF role = "b2b"
                 THEN [agency EXCEPT ![p] = [status |-> "active", version |-> 1]]
                 ELSE agency
    /\ memberOf' = IF role = "b2b_sub" THEN [memberOf EXCEPT ![p] = rows[o].owner]
                   ELSE memberOf
    /\ effects' = effects \cup {p}

-----------------------------------------------------------------------------
(* creates *)

PrepareCreate(o, actor, p, role, owner) ==
    /\ rows[o] = NoRow /\ LockFree
    /\ MayAct(actor) /\ CanGrant(user[actor].role, role)
    /\ (role = "b2b_sub") = (owner # NoSubject)
    /\ Unreserved(p) /\ AgencyInScope(o, owner, AgencyVersion(owner))
    /\ rows' = [rows EXCEPT ![o] = NewRow("create", actor, p, role, owner)]
    /\ UNCHANGED <<others, calls, provider, remote, looks>>

\* authorize: the administrator who started a create, or a superadmin.
Oversight(o, actor) ==
    /\ MayAct(actor) /\ CanGrant(user[actor].role, rows[o].role)
    /\ actor = rows[o].issuer \/ user[actor].role = "superadmin"

ClaimCreate(o, actor) ==
    /\ LockFree /\ rows[o].kind = "create" /\ rows[o].state = "prepared"
    /\ Oversight(o, actor) /\ InScopeRow(o) /\ rows[o].attempts < MaxAttempts
    /\ Claimed(o, "dispatching", "create", 1)
    /\ UNCHANGED <<others, account, remote, looks>>

ClaimCreateObservation(o, actor) ==
    /\ LockFree /\ rows[o].kind = "create" /\ rows[o].state = "needs_reconciliation"
    /\ Oversight(o, actor)
    /\ Claimed(o, "reconciling", "observe", 0)
    /\ UNCHANGED <<others, account, remote, looks>>

\* query, recover: the lease of a claim has passed.
RecoverCreate(o, actor) ==
    /\ LockFree /\ rows[o].kind = "create"
    /\ rows[o].state \in {"dispatching", "reconciling"} /\ Oversight(o, actor)
    /\ rows' = [rows EXCEPT ![o].state = "needs_reconciliation"]
    /\ UNCHANGED <<others, calls, provider, remote, looks>>

\* BUG: an answer that never came counts as a request that never left.
CreateResultUnsure(o, result) ==
    IF result = "confirmed" THEN "provider_confirmed"
    ELSE IF rows[o].attempts < MaxAttempts THEN "prepared" ELSE "cancelled"

CreateResult(o, result) ==
    CASE result = "confirmed" -> "provider_confirmed"
      [] result = "not_sent" ->
            IF rows[o].attempts < MaxAttempts THEN "prepared" ELSE "cancelled"
      [] OTHER -> "needs_reconciliation"

\* finish: a create that was answered has made the account; one that never left
\* is off the wire.  An observation finds the account by the operation's id.
FinishCreate(c, result) ==
    /\ LockFree /\ rows[c.op].kind = "create"
    /\ \/ Current(c, "create", "dispatching")
       \/ Current(c, "observe", "reconciling") /\ result # "not_sent"
    /\ \/ result = "confirmed" /\ remote[c.op] = "made" /\ account[rows[c.op].person] = "live"
       \/ result = "not_sent" /\ Request(c.op, "create") \in wire
       \/ result = "unknown"
    /\ rows' = [rows EXCEPT ![c.op].state = CreateResult(c.op, result),
                            ![c.op].subject = IF result = "confirmed"
                                              THEN rows[c.op].person ELSE @]
    /\ wire' = IF result = "not_sent" THEN wire \ {Request(c.op, "create")} ELSE wire
    /\ calls' = calls \ {c}
    /\ UNCHANGED <<others, account, remote, looks>>

CancelCreate(o, actor) ==
    /\ LockFree /\ rows[o].kind = "create" /\ rows[o].state = "prepared"
    /\ Oversight(o, actor)
    /\ rows' = [rows EXCEPT ![o].state = "cancelled"]
    /\ UNCHANGED <<others, calls, provider, remote, looks>>

\* finalize, first half: the account is looked up, without the lock.
LookUpCreated(o, actor) ==
    /\ rows[o].kind = "create" /\ rows[o].state = "provider_confirmed"
    /\ Oversight(o, actor)
    /\ account[rows[o].person] = "live"
    /\ looks' = looks \cup {[op |-> o, was |-> rows[o], saw |-> "live"]}
    /\ UNCHANGED <<others, rows, calls, provider, remote>>

\* finalize, second half.
FinalizeCreate(l, actor) ==
    LET o == l.op IN
    /\ LockFree /\ rows[o].kind = "create" /\ rows[o].state = "provider_confirmed"
    /\ Oversight(o, actor) /\ InScopeRow(o)
    /\ Admit(o)
    /\ rows' = [rows EXCEPT ![o].state = "completed"]
    /\ looks' = looks \ {l}
    /\ UNCHANGED <<txn, calls, barred, inbox, trade, provider, remote>>

-----------------------------------------------------------------------------
(* invitations *)

\* permitted: an administrator, or the owner of the active agency.
Permitted(s, role, owner) ==
    /\ user[s].status = "active"
    /\ \/ Manages(user[s].role) /\ CanGrant(user[s].role, role)
       \/ user[s].role = "b2b" /\ role = "b2b_sub" /\ owner = s /\ OwnsActive(s)

PermittedRow(s, o) == Permitted(s, rows[o].role, rows[o].owner)

\* authorize.
MayHandle(o, actor) == MayAct(actor) /\ PermittedRow(actor, o)

\* BUG: the one who invited is not asked for again.
IssuerAnyway(o) == TRUE

\* issuer.
IssuerStands(o) == PermittedRow(rows[o].issuer, o)

PrepareInvite(o, actor, p, role, owner) ==
    /\ rows[o] = NoRow /\ LockFree
    /\ MayAct(actor) /\ Permitted(actor, role, owner)
    /\ (role = "b2b_sub") = (owner # NoSubject)
    /\ Unreserved(p) /\ AgencyInScope(o, owner, AgencyVersion(owner))
    /\ rows' = [rows EXCEPT ![o] = NewRow("invite", actor, p, role, owner)]
    /\ UNCHANGED <<others, calls, provider, remote, looks>>

Open(o) == rows[o].kind = "invite" /\ Unfinished(rows[o])

\* request_revoke: what the provider has is revoked later.
RequestRevoke(o, actor) ==
    /\ LockFree /\ Open(o) /\ ~rows[o].revoked /\ MayHandle(o, actor)
    /\ rows' = [rows EXCEPT ![o].revoked = TRUE,
                            ![o].state = IF @ = "prepared" THEN "cancelled" ELSE @]
    /\ UNCHANGED <<others, calls, provider, remote, looks>>

\* A claim knows how the invitation stood when it began: an answer may be as old.
ClaimedInvite(o, state, task, issues, revokes) ==
    /\ rows[o].fence < MaxFence
    /\ rows' = [rows EXCEPT ![o].state = state, ![o].fence = @ + 1,
                            ![o].attempts = @ + issues, ![o].revokes = @ + revokes]
    /\ calls' = calls \cup {[op |-> o, fence |-> rows[o].fence + 1, task |-> task,
                             from |-> remote[o]]}
    /\ wire' = IF task \in {"issue", "revoke"} THEN wire \cup {Request(o, task)} ELSE wire
    /\ UNCHANGED <<others, account, remote, looks>>

ClaimIssue(o, actor) ==
    /\ LockFree /\ rows[o].kind = "invite" /\ MayHandle(o, actor)
    /\ rows[o].state = "prepared" /\ ~rows[o].revoked
    /\ IssuerStands(o) /\ InScopeRow(o) /\ rows[o].attempts < MaxAttempts
    /\ ClaimedInvite(o, "issuing", "issue", 1, 0)

ClaimRevoke(o, actor) ==
    /\ LockFree /\ rows[o].kind = "invite" /\ MayHandle(o, actor)
    /\ rows[o].state = "pending" /\ rows[o].revoked
    /\ rows[o].revokes < MaxAttempts
    /\ ClaimedInvite(o, "revoking", "revoke", 0, 1)

ClaimInviteObservation(o, actor) ==
    /\ LockFree /\ rows[o].kind = "invite" /\ MayHandle(o, actor)
    /\ \/ rows[o].state = "issue_unknown"
          /\ ClaimedInvite(o, "observing_issue", "observe_issue", 0, 0)
       \/ rows[o].state = "revoke_unknown"
          /\ ClaimedInvite(o, "observing_revoke", "observe_revoke", 0, 0)

StateOfTask == [issue |-> "issuing", observe_issue |-> "observing_issue",
                revoke |-> "revoking", observe_revoke |-> "observing_revoke"]

UnknownOf(state) ==
    IF state \in {"issuing", "observing_issue"} THEN "issue_unknown" ELSE "revoke_unknown"

RecoverInvite(o, actor) ==
    /\ LockFree /\ rows[o].kind = "invite" /\ MayHandle(o, actor)
    /\ \E t \in DOMAIN StateOfTask : rows[o].state = StateOfTask[t]
    /\ rows' = [rows EXCEPT ![o].state = UnknownOf(@)]
    /\ UNCHANGED <<others, calls, provider, remote, looks>>

\* What the provider may have answered to a call by now.
Answers(c) ==
    ({c.from, remote[c.op]}
        \cup (IF c.from = "none" /\ remote[c.op] # "none" THEN {"pending"} ELSE {}))
    \ {"none"}

\* finish: which answers prove something to a claim of this kind.
Proves(c, proof) ==
    /\ proof \in Answers(c)
    /\ c.task = "issue" => proof = "pending" /\ Request(c.op, "issue") \notin wire
    /\ c.task = "revoke" => proof = "revoked" /\ Request(c.op, "revoke") \notin wire
    /\ c.task = "observe_revoke" => proof \in {"revoked", "expired"}

NotSentState(o, task) ==
    IF task = "revoke"
    THEN IF rows[o].revokes < MaxAttempts THEN "pending" ELSE "revoke_unknown"
    ELSE IF rows[o].attempts < MaxAttempts /\ ~rows[o].revoked THEN "prepared" ELSE "cancelled"

InviteResult(c, result) ==
    CASE result \in {"revoked", "expired"} -> result
      [] result \in {"pending", "accepted"} -> "pending"
      [] result = "not_sent" -> NotSentState(c.op, c.task)
      [] OTHER -> UnknownOf(StateOfTask[c.task])

FinishInvite(c, result) ==
    /\ LockFree /\ rows[c.op].kind = "invite" /\ Current(c, c.task, StateOfTask[c.task])
    /\ \/ Proves(c, result)
       \/ result = "not_sent" /\ Request(c.op, c.task) \in wire
       \/ result = "unknown"
    /\ rows' = [rows EXCEPT ![c.op].state = InviteResult(c, result)]
    /\ wire' = IF result = "not_sent" THEN wire \ {Request(c.op, c.task)} ELSE wire
    /\ calls' = calls \ {c}
    /\ UNCHANGED <<others, account, remote, looks>>

\* BUG: an invitation whose revocation was asked for can still be accepted.
AcceptableRevoked(o) == rows[o].kind = "invite" /\ rows[o].state = "pending"

Acceptable(o) ==
    rows[o].kind = "invite" /\ rows[o].state = "pending" /\ ~rows[o].revoked

\* accept, first half: the provider shows an accepted invitation and the account
\* that accepted it.
LookUpAcceptance(o) ==
    /\ LockFree /\ Acceptable(o) /\ IssuerStands(o) /\ InScopeRow(o)
    /\ remote[o] = "accepted" /\ account[rows[o].person] = "live"
    /\ looks' = looks \cup {[op |-> o, was |-> rows[o], saw |-> "accepted"]}
    /\ UNCHANGED <<others, rows, calls, provider, remote>>

\* accept, second half.
Accept(l) ==
    LET o == l.op IN
    /\ l.saw = "accepted"
    /\ LockFree /\ Acceptable(o) /\ IssuerStands(o) /\ InScopeRow(o)
    /\ Admit(o)
    /\ rows' = [rows EXCEPT ![o].state = "accepted"]
    /\ looks' = looks \ {l}
    /\ UNCHANGED <<txn, calls, barred, inbox, trade, provider, remote>>

\* refresh, first half: the row and what the provider says of it.
LookUpInvitation(o, actor) ==
    /\ LockFree /\ rows[o].kind = "invite" /\ rows[o].state = "pending"
    /\ MayHandle(o, actor) /\ remote[o] \in {"revoked", "expired"}
    /\ looks' = looks \cup {[op |-> o, was |-> rows[o], saw |-> remote[o]]}
    /\ UNCHANGED <<others, rows, calls, provider, remote>>

\* refresh, second half: only if the row is as it was, as its version tells.
Refresh(l, actor) ==
    /\ l.saw \in {"revoked", "expired"}
    /\ LockFree /\ MayHandle(l.op, actor) /\ rows[l.op] = l.was
    /\ rows' = [rows EXCEPT ![l.op].state = l.saw]
    /\ looks' = looks \ {l}
    /\ UNCHANGED <<others, calls, provider, remote>>

\* A request that looked something up ends without using it.
Abandon(l) ==
    /\ looks' = looks \ {l}
    /\ UNCHANGED <<others, rows, calls, provider, remote>>

-----------------------------------------------------------------------------
(* Onboarding, and the provider *)

\* BUG: a reserved email does not stop onboarding.
OnboardableAnyway(p) == TRUE

\* creates::guard_onboarding, invitations::guard_onboarding.
Onboardable(p) == Unreserved(p)

\* api::onboard: the account was verified some time before the lock was taken.
Onboard(p) ==
    /\ LockFree /\ account[p] # "none" /\ ~Registered(p)
    /\ NotBarred(p) /\ Onboardable(p) /\ Unreferenced(p)
    /\ user' = [user EXCEPT ![p] = Grantee("customer")]
    /\ UNCHANGED <<agency, memberOf, txn, rows, calls, effects, barred, inbox, trade,
                   provider, remote, looks>>

\* The provider applies a request, early or late.
ProviderApplies(w) ==
    LET p == rows[w.op].person IN
    /\ w.task \in {"create", "issue", "revoke"}
    /\ CASE w.task = "create" -> account[p] = "none"
         [] w.task = "issue" -> account[p] = "none"
         [] w.task = "revoke" -> remote[w.op] = "pending"
    /\ remote' = [remote EXCEPT ![w.op] =
          CASE w.task = "create" -> "made" [] w.task = "issue" -> "pending"
            [] w.task = "revoke" -> "revoked"]
    /\ account' = IF w.task = "create" THEN [account EXCEPT ![p] = "live"] ELSE account
    /\ wire' = wire \ {w}
    /\ UNCHANGED <<others, rows, calls, looks>>

\* A person signs up, with an invitation or without; an invitation expires.
SignUp(p) ==
    /\ account[p] = "none" /\ account' = [account EXCEPT ![p] = "live"]
    /\ remote' \in {remote} \cup {[remote EXCEPT ![o] = "accepted"] :
                        o \in {q \in Ops : remote[q] = "pending" /\ rows[q].person = p}}
    /\ UNCHANGED <<others, rows, calls, wire, looks>>

Expire(o) ==
    /\ remote[o] = "pending" /\ remote' = [remote EXCEPT ![o] = "expired"]
    /\ UNCHANGED <<others, rows, calls, provider, looks>>

-----------------------------------------------------------------------------
NextAccounts ==
    \/ \E o \in Ops, a, p \in Subjects, r \in Grants, w \in Subjects \cup {NoSubject} :
          PrepareCreate(o, a, p, r, w) \/ PrepareInvite(o, a, p, r, w)
    \/ \E o \in Ops, a \in Subjects :
          \/ ClaimCreate(o, a) \/ ClaimCreateObservation(o, a) \/ RecoverCreate(o, a)
          \/ CancelCreate(o, a) \/ LookUpCreated(o, a)
          \/ RequestRevoke(o, a) \/ ClaimIssue(o, a) \/ ClaimRevoke(o, a)
          \/ ClaimInviteObservation(o, a) \/ RecoverInvite(o, a)
          \/ LookUpInvitation(o, a)
    \/ \E c \in calls :
          \/ \E r \in {"confirmed", "not_sent", "unknown"} : FinishCreate(c, r)
          \/ \E r \in {"pending", "accepted", "revoked", "expired", "not_sent", "unknown"} :
                FinishInvite(c, r)
    \/ \E o \in Ops : LookUpAcceptance(o) \/ Expire(o)
    \/ \E l \in looks :
          \/ Accept(l) \/ Abandon(l)
          \/ \E a \in Subjects : FinalizeCreate(l, a) \/ Refresh(l, a)
    \/ \E p \in Subjects : Onboard(p) \/ SignUp(p)
    \/ \E w \in wire : ProviderApplies(w)

Next == NextAccounts \/ (NextAuthority /\ UNCHANGED <<remote, looks>>)

Spec == InitAccounts /\ [][Next]_accountVars

-----------------------------------------------------------------------------
(* Properties *)

AccountsTypeOK ==
    /\ remote \in [Ops -> {"none", "made", "pending", "accepted", "revoked", "expired"}]
    /\ \A l \in looks : l.op \in Ops /\ rows[l.op].kind \in {"create", "invite"}

\* A create or an invitation is offered to be sent again, or closed as if it had
\* never been sent, only when no request of it was or can still be applied at
\* the provider (finish, recover, request_revoke).
SafeToResend ==
    /\ AccountsTypeOK
    /\ \A o \in Ops :
          (/\ rows[o].kind \in {"create", "invite"}
           /\ rows[o].state \in {"prepared", "cancelled"})
              => /\ remote[o] = "none"
                 /\ \A w \in wire : w.op # o

\* An agency never has more people than it may, counting those on their way in
\* through a create or an invitation (agency_scope).
People(s) ==
    {p \in Subjects : p = s \/ (memberOf[p] = s /\ user[p].status # "deleted")
                            \/ \E o \in Ops : Unfinished(rows[o]) /\ rows[o].owner = s
                                                /\ rows[o].person = p}
AgencyWithinLimit ==
    \A s \in Subjects :
        agency[s].status = "active" => Cardinality(People(s)) <= MaxMembers

\* The grants of a step, and what entitles to them.
NewlyGranted(s) == user[s].status = "absent" /\ user'[s].status # "absent"
Granting(o, s) ==
    /\ rows[o].kind \in {"create", "invite"} /\ rows[o].person = s
    /\ Unfinished(rows[o]) /\ ~Unfinished(rows'[o])

\* Nobody gets in otherwise than as they were meant to: not while an account or
\* an invitation for them is under way, and to a role only by an operation that
\* nobody revoked, whose account or acceptance the provider had shown, that
\* somebody still entitled stands behind, and whose agency has not changed
\* since (finalize, accept, onboard).
AdmittedByAuthority ==
    \A s \in Subjects : NewlyGranted(s) =>
        /\ s \notin barred
        /\ \A o \in Ops : Unfinished(rows[o]) /\ rows[o].person = s => Granting(o, s)
        /\ user'[s].role # "customer" => \E o \in Ops :
              /\ Granting(o, s) /\ user'[s].role = rows[o].role /\ ~rows[o].revoked
              /\ remote[o] \in {"made", "accepted"}
              /\ \E a \in Subjects : Permitted(a, rows[o].role, rows[o].owner)
              /\ rows[o].kind = "invite" => Permitted(rows[o].issuer, rows[o].role, rows[o].owner)
              /\ rows[o].owner # NoSubject =>
                    agency[rows[o].owner] = [status |-> "active", version |-> rows[o].version]

AdmittedByAuthorityAlways == [][AdmittedByAuthority]_accountVars

=============================================================================
