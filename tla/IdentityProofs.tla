--------------------------- MODULE IdentityProofs ---------------------------
(***************************************************************************)
(* Theorems about who has an account and a role, for any number of people, *)
(* agencies, operations, attempts and claims.                              *)
(*                                                                         *)
(* First those of IdentityAuthority, of its own specification: what the    *)
(* authority lock and the checks under it exclude.  Then those of          *)
(* IdentityAccounts, whose steps are its own and those of authority: that  *)
(* the same holds while people arrive, requests are repeated safely,       *)
(* agencies stay within their limit and nobody is admitted without         *)
(* authority.                                                              *)
(***************************************************************************)
EXTENDS IdentityAccounts, FiniteSetTheorems, TLAPS

-----------------------------------------------------------------------------
(* Authority: the inductive invariant *)

Statuses == {"absent", "onboarding", "active", "suspended", "deleting", "deleted"}
Alive == {"onboarding", "active", "suspended"}

UserRow == [role: Roles, version: Nat, status: Statuses]
AgencyRow == [status: {"none", "active", "suspended", "archived"}, version: Nat]

ChangeTxn ==
    [kind: {"change"}, target: Subjects, expected: Nat,
     action: {"set_role", "set_access", "provision_agency", "reactivate_agency"},
     role: Roles, status: Alive]
DeleteTxn ==
    [kind: {"delete"}, target: Subjects, expected: Nat, issuer: Subjects]

ChangeRow == [kind: {"change"}, subject: Subjects, expected: Nat]
DeleteRow ==
    [kind: {"delete"}, subject: Subjects, expected: Nat,
     state: {"prepared", "dispatching", "reconciling", "needs_reconciliation",
             "provider_confirmed", "completed"},
     fence: Nat, attempts: Nat]

Intake == {"create", "invite"}
CreateStates ==
    {"prepared", "dispatching", "reconciling", "needs_reconciliation",
     "provider_confirmed", "completed", "cancelled"}
InviteStates ==
    {"prepared", "issuing", "observing_issue", "issue_unknown", "pending", "revoking",
     "observing_revoke", "revoke_unknown", "accepted", "revoked", "expired", "cancelled"}

IntakeRow ==
    [kind: Intake, issuer: Subjects, person: Subjects, subject: Subjects \cup {NoSubject},
     role: Grants, owner: Subjects \cup {NoSubject}, version: Nat,
     state: CreateStates \cup InviteStates, fence: Nat, attempts: Nat, revokes: Nat,
     revoked: BOOLEAN]

Rows == {NoRow} \cup ChangeRow \cup DeleteRow \cup IntakeRow

Event ==
    [state: {"pending", "retry", "processing", "completed", "dead_letter"},
     attempts: 0..MaxAttempts, seen: {"none", "live", "gone"}]

Deletion(o) == rows[o].kind = "delete"

\* What is carried to the provider by claims.
Carried(o) == rows[o].kind \in {"create", "invite", "delete"}

Types ==
    /\ user \in [Subjects -> UserRow]
    /\ agency \in [Subjects -> AgencyRow]
    /\ memberOf \in [Subjects -> Subjects \cup {NoSubject}]
    /\ txn \in [Ops -> {NoTxn} \cup ChangeTxn \cup DeleteTxn]
    /\ rows \in [Ops -> Rows]
    /\ \A c \in calls : /\ c.op \in Ops /\ Carried(c.op)
                        /\ c.fence \in 1..rows[c.op].fence
    /\ inbox \in [Subjects -> {NoEvent} \cup Event]
    /\ effects \subseteq Subjects /\ barred \subseteq Subjects
    /\ business \subseteq Subjects /\ clients \subseteq Subjects
    /\ frozen \subseteq Subjects
    /\ account \in [Subjects -> {"none", "live", "gone"}]
    /\ \A w \in wire : /\ w.op \in Ops /\ Carried(w.op)
                       /\ w.task = "delete" => Deletion(w.op)

\* A superadmin is only changed or deleted by another one.
AnotherRootThan(s) == user[s].role = "superadmin" => Roots \ {s} # {}

\* What a transaction checked is still so when it writes: nobody else had
\* the authority lock.
Ready(o) ==
    txn[o] # NoTxn =>
        LET t == txn[o].target
        IN  /\ \A p \in Ops : txn[p] # NoTxn => p = o
            /\ rows[o] = NoRow
            /\ txn[o].expected = user[t].version
            /\ user[t].status \in Alive
            /\ AnotherRootThan(t)

ChangeReady(o) ==
    txn[o].kind = "change" =>
        LET t == txn[o].target
        IN  /\ txn[o].status # "suspended" => NotBarred(t)
            /\ AgencyAfter(txn[o]).status = "active" =>
                  txn[o].role = "b2b" /\ txn[o].status = "active"

DeletionReady(o) ==
    txn[o].kind = "delete" =>
        LET t == txn[o].target
        IN  /\ \A p \in Ops : Deletion(p) => rows[p].subject # t
            /\ t \notin business /\ WorkOf(t) = {}
            /\ \A m \in Members(t) : user[m].status = "deleted"

\* Rows are made from a version that is gone, each from another one.
Journal(o) ==
    /\ rows[o].kind \in {"change", "delete"} =>
          /\ Registered(rows[o].subject)
          /\ rows[o].expected < user[rows[o].subject].version
    /\ \A p \in Ops :
          /\ o # p /\ rows[o].kind \in {"change", "delete"}
          /\ rows[p].kind \in {"change", "delete"} /\ rows[o].subject = rows[p].subject
          => rows[o].expected # rows[p].expected

\* A deletion that was prepared is of a person that stays denied; while it is
\* dispatched its request is on its way or was applied.
DeletionStands(o) ==
    Deletion(o) =>
        LET t == rows[o].subject
        IN  /\ Terminal(t) /\ t \notin business /\ WorkOf(t) = {}
            /\ \A m \in Members(t) : user[m].status = "deleted"
            /\ rows[o].state = "dispatching" =>
                  Request(o, "delete") \in wire \/ account[t] = "gone"
            /\ rows[o].state \in {"provider_confirmed", "completed"} => account[t] = "gone"

\* Clients belong to people, the provider's word is kept, and people come from
\* the provider.
WorldRight ==
    /\ \A s \in clients : Registered(s)
    /\ \A s \in barred : account[s] = "gone"
    /\ \A s \in Subjects : /\ Registered(s) => account[s] # "none"
                           /\ ~Registered(s) => user[s].role = "customer"

AuthorityInvariant ==
    /\ Types /\ WorldRight
    /\ RootRemains /\ AgencyNeedsOwner /\ DeletionHolds
    /\ \A o \in Ops : /\ Ready(o) /\ ChangeReady(o) /\ DeletionReady(o)
                      /\ Journal(o) /\ DeletionStands(o)

-----------------------------------------------------------------------------
(* Beginnings: the checks under the lock *)

LEMMA RowKinds ==
    ASSUME Types, NEW o \in Ops
    PROVE  /\ Deletion(o) => rows[o] \in DeleteRow
           /\ rows[o].kind = "change" => rows[o] \in ChangeRow
           /\ txn[o].kind = "change" => txn[o] \in ChangeTxn
           /\ txn[o].kind = "delete" => txn[o] \in DeleteTxn
           /\ txn[o] # NoTxn => txn[o] \in ChangeTxn \cup DeleteTxn
           /\ rows[o] = NoRow => ~Deletion(o) /\ ~Carried(o)
           /\ rows[o].kind \in Intake => rows[o] \in IntakeRow
  <1>1. /\ rows[o] \in Rows
        /\ txn[o] \in {NoTxn} \cup ChangeTxn \cup DeleteTxn
    BY DEF Types
  <1> QED BY <1>1 DEF Rows, NoRow, NoTxn, ChangeRow, DeleteRow, IntakeRow, Intake, ChangeTxn,
                      DeleteTxn, Deletion, Carried

\* Rows of changes and deletions are nobody's creates and invitations.
LEMMA LessWork ==
    ASSUME \A p \in Ops : rows'[p] = rows[p] \/ rows'[p] \in ChangeRow \cup DeleteRow,
           NEW t, WorkOf(t) = {}
    PROVE  WorkOf(t)' = {}
  <1>1. \A r \in ChangeRow \cup DeleteRow : ~Unfinished(r)
    BY DEF Unfinished, ChangeRow, DeleteRow
  <1> QED BY <1>1 DEF WorkOf, Unfinished

\* Only another superadmin may change or delete a superadmin.
LEMMA ScopeLeavesRoot ==
    ASSUME Types, NEW actor \in Subjects, NEW target \in Subjects, MayAct(actor),
           InScope(actor, target) \/ MayDelete(actor, target)
    PROVE  AnotherRootThan(target)
  <1> SUFFICES ASSUME user[target].role = "superadmin"
               PROVE  Roots \ {target} # {}
    BY DEF AnotherRootThan
  <1>1. actor # target /\ user[actor].role = "superadmin" /\ user[actor].status = "active"
    BY DEF MayAct, InScope, MayDelete, Manages, CanGrant
  <1> QED BY <1>1 DEF Roots

LEMMA OutcomeTypes ==
    ASSUME NEW target \in Subjects, user[target] \in UserRow, user[target].status \in Alive,
           NEW c \in Changes
    PROVE  /\ Outcome(target, c)[1] \in Roles /\ Outcome(target, c)[2] \in Alive
           /\ c.action \in {"set_role", "set_access", "provision_agency", "reactivate_agency"}
           /\ Outcome(target, c) = <<Outcome(target, c)[1], Outcome(target, c)[2]>>
  <1>1. user[target].role \in Roles
    BY DEF UserRow
  <1>2. CASE c \in [action : {"set_role"}, role : Grants]
    <2>1. c.action = "set_role" /\ c.role \in Roles
      BY <1>2, PeopleAssumption
    <2>2. Outcome(target, c) = <<c.role, user[target].status>>
      BY <2>1 DEF Outcome
    <2> QED BY <2>1, <2>2
  <1>3. CASE c \in [action : {"set_access"}, active : BOOLEAN]
    <2>1. c.action = "set_access"
      BY <1>3
    <2>2. Outcome(target, c) =
             <<user[target].role, IF c.active THEN "active" ELSE "suspended">>
      BY <2>1 DEF Outcome
    <2> QED BY <1>1, <2>1, <2>2 DEF Alive
  <1>4. CASE c \in [action : {"provision_agency"}]
                     \cup [action : {"reactivate_agency"}, agencyVersion : 1..4]
    <2>1. c.action \in {"provision_agency", "reactivate_agency"}
      BY <1>4
    <2>2. Outcome(target, c) = <<"b2b", "active">>
      BY <2>1 DEF Outcome
    <2> QED BY <2>1, <2>2 DEF Alive, Roles
  <1> QED BY <1>2, <1>3, <1>4 DEF Changes

\* An agency is open after a change only if its owner is then an active b2b.
LEMMA AgencyFollows ==
    ASSUME Types, AgencyNeedsOwner, NEW actor \in Subjects, NEW target \in Subjects,
           NEW c \in Changes, Admissible(actor, target, c), NEW t,
           t.target = target, t.action = c.action,
           <<t.role, t.status>> = Outcome(target, c),
           Outcome(target, c) # <<user[target].role, user[target].status>>,
           AgencyAfter(t).status = "active"
    PROVE  t.role = "b2b" /\ t.status = "active"
  <1>1. CASE t.action \notin {"set_role", "set_access"}
    <2>1. Outcome(target, c) = <<"b2b", "active">>
      BY <1>1 DEF Outcome
    <2> QED BY <2>1
  <1>2. CASE t.action \in {"set_role", "set_access"}
    <2>1. agency[target].status = "active"
             /\ ~(t.role = "b2b" /\ t.status = "suspended")
      BY <1>2 DEF AgencyAfter, Marked
    <2>2. user[target].role = "b2b" /\ user[target].status = "active"
      BY <2>1 DEF AgencyNeedsOwner, OwnsActive
    <2>3. CASE t.action = "set_role"
      <3>1. t.role = c.role /\ t.status = "active"
        BY <2>2, <2>3 DEF Outcome
      <3>2. HasMembership(target)
        BY <2>1 DEF HasMembership, NoAgency
      <3>3. c.role = user[target].role
        BY <2>3, <3>2 DEF Admissible
      <3> QED BY <2>2, <3>1, <3>3
    <2>4. CASE t.action = "set_access"
      <3>1. t.role = "b2b" /\ t.status \in {"active", "suspended"}
        BY <2>2, <2>4 DEF Outcome
      <3> QED BY <2>1, <3>1
    <2> QED BY <1>2, <2>3, <2>4
  <1> QED BY <1>1, <1>2

\* A transaction that begins changes nothing else.
BeginStep(o, t) ==
    /\ LockFree /\ rows[o] = NoRow
    /\ txn' = [txn EXCEPT ![o] = t]
    /\ UNCHANGED <<registry, rows, calls, effects, barred, inbox, trade, provider>>

LEMMA BeginKeeps ==
    ASSUME AuthorityInvariant, NEW o \in Ops, NEW t \in ChangeTxn \cup DeleteTxn,
           BeginStep(o, t), (Ready(o) /\ ChangeReady(o) /\ DeletionReady(o))'
    PROVE  AuthorityInvariant'
  <1>1. /\ user' = user /\ agency' = agency /\ memberOf' = memberOf /\ rows' = rows
        /\ calls' = calls /\ effects' = effects /\ barred' = barred /\ inbox' = inbox
        /\ business' = business /\ clients' = clients /\ frozen' = frozen
        /\ account' = account /\ wire' = wire
    BY DEF BeginStep, registry, trade, provider
  <1>2. /\ txn' \in [Ops -> {NoTxn} \cup ChangeTxn \cup DeleteTxn]
        /\ \A p \in Ops \ {o} : txn'[p] = NoTxn
    BY DEF AuthorityInvariant, Types, BeginStep, LockFree
  <1>3. Types'
    BY <1>1, <1>2 DEF AuthorityInvariant, Types, Deletion, Carried
  <1>4. (WorldRight /\ RootRemains /\ AgencyNeedsOwner /\ DeletionHolds)'
    BY <1>1 DEF AuthorityInvariant, WorldRight, RootRemains, AgencyNeedsOwner,
                DeletionHolds, Registered, Roots, OwnsActive, Terminal
  <1>5. ASSUME NEW p \in Ops
        PROVE  (Ready(p) /\ ChangeReady(p) /\ DeletionReady(p) /\ Journal(p)
                 /\ DeletionStands(p))'
    <2>1. Journal(p)' /\ DeletionStands(p)'
      BY <1>1 DEF AuthorityInvariant, Journal, DeletionStands, Deletion, Terminal, Members,
                  Registered, WorkOf, Unfinished
    <2>2. p # o => (Ready(p) /\ ChangeReady(p) /\ DeletionReady(p))'
      BY <1>2 DEF Ready, ChangeReady, DeletionReady, NoTxn
    <2> QED BY <2>1, <2>2
  <1> QED BY <1>3, <1>4, <1>5 DEF AuthorityInvariant

LEMMA BeginChangeKeeps ==
    ASSUME AuthorityInvariant, NEW o \in Ops, NEW actor \in Subjects,
           NEW target \in Subjects, NEW expected \in 1..user[target].version,
           NEW c \in Changes, BeginChange(o, actor, target, expected, c)
    PROVE  AuthorityInvariant'
  <1> DEFINE to == Outcome(target, c)
             t == [kind |-> "change", target |-> target, expected |-> expected,
                   action |-> c.action, role |-> to[1], status |-> to[2]]
  <1>1. Types /\ AgencyNeedsOwner
    BY DEF AuthorityInvariant
  <1>2. /\ rows[o] = NoRow /\ LockFree
        /\ MayAct(actor) /\ InScope(actor, target)
        /\ expected = user[target].version
        /\ Admissible(actor, target, c)
        /\ to # <<user[target].role, user[target].status>>
        /\ to[2] = "active" => NotBarred(target)
        /\ txn' = [txn EXCEPT ![o] = t]
        /\ UNCHANGED <<registry, rows, calls, effects, barred, inbox, trade, provider>>
    BY DEF BeginChange, AsSeen
  <1>3. user[target] \in UserRow /\ user[target].status \in Alive
    <2>1. user[target] \in UserRow
      BY <1>1 DEF Types
    <2>2. user[target].status \notin {"absent", "deleting", "deleted"}
      BY <1>2 DEF InScope, Terminal, Registered
    <2> QED BY <2>1, <2>2 DEF UserRow, Statuses, Alive
  <1>4. /\ to[1] \in Roles /\ to[2] \in Alive /\ to = <<to[1], to[2]>>
        /\ c.action \in {"set_role", "set_access", "provision_agency", "reactivate_agency"}
    BY <1>1, <1>3, OutcomeTypes
  <1>5. to[2] = "onboarding" => user[target].status = "onboarding"
    BY DEF Outcome
  <1>6. PICK x : x = t
    OBVIOUS
  <1>7. /\ x.kind = "change" /\ x.target = target /\ x.expected = expected
        /\ x.action = c.action /\ x.role = to[1] /\ x.status = to[2]
    BY <1>6
  <1>8. x \in ChangeTxn
    BY <1>3, <1>4, <1>6 DEF ChangeTxn, UserRow
  <1>9. BeginStep(o, x)
    BY <1>2, <1>6 DEF BeginStep
  <1>10. /\ user' = user /\ agency' = agency /\ rows' = rows /\ barred' = barred
         /\ txn'[o] = x /\ \A p \in Ops \ {o} : txn'[p] = NoTxn
    BY <1>1, <1>9 DEF BeginStep, registry, Types, LockFree
  <1>11. AnotherRootThan(target)
    BY <1>1, <1>2, ScopeLeavesRoot
  <1>12. Ready(o)'
    BY <1>2, <1>3, <1>7, <1>10, <1>11 DEF Ready, AnotherRootThan, Roots
  <1>13. x.status # "suspended" => NotBarred(target)
    BY <1>2, <1>4, <1>5, <1>7
       DEF Alive, AuthorityInvariant, DeletionHolds, NotBarred
  <1>14. AgencyAfter(x).status = "active" => x.role = "b2b" /\ x.status = "active"
    <2>1. <<x.role, x.status>> = to
      BY <1>4, <1>7
    <2> HIDE DEF to, t
    <2> QED BY <1>1, <1>2, <1>7, <2>1, AgencyFollows DEF to
  <1>15. ChangeReady(o)'
    BY <1>7, <1>10, <1>13, <1>14 DEF ChangeReady, NotBarred, AgencyAfter
  <1>16. DeletionReady(o)'
    BY <1>7, <1>10 DEF DeletionReady
  <1> QED BY <1>8, <1>9, <1>12, <1>15, <1>16, BeginKeeps

LEMMA BeginDeletionKeeps ==
    ASSUME AuthorityInvariant, NEW o \in Ops, NEW actor \in Subjects,
           NEW target \in Subjects, NEW expected \in 1..user[target].version,
           BeginDeletion(o, actor, target, expected)
    PROVE  AuthorityInvariant'
  <1>1. Types
    BY DEF AuthorityInvariant
  <1>2. PICK x : x = [kind |-> "delete", target |-> target, expected |-> expected,
                      issuer |-> actor]
    OBVIOUS
  <1>3. /\ rows[o] = NoRow /\ LockFree
        /\ MayDelete(actor, target)
        /\ \A p \in Ops : rows[p].kind = "delete" => rows[p].subject # target
        /\ expected = user[target].version
        /\ ~Blockers(target) /\ ~Terminal(target)
        /\ txn' = [txn EXCEPT ![o] = x]
        /\ UNCHANGED <<registry, rows, calls, effects, barred, inbox, trade, provider>>
    BY <1>2 DEF BeginDeletion, AsSeen
  <1>4. user[target] \in UserRow /\ user[target].status \in Alive
    <2>1. user[target] \in UserRow
      BY <1>1 DEF Types
    <2>2. user[target].status \notin {"absent", "deleting", "deleted"}
      BY <1>3 DEF MayDelete, Terminal, Registered
    <2> QED BY <2>1, <2>2 DEF UserRow, Statuses, Alive
  <1>5. /\ x \in DeleteTxn
        /\ x.kind = "delete" /\ x.target = target /\ x.expected = expected
    BY <1>2, <1>3, <1>4 DEF DeleteTxn, UserRow
  <1>6. BeginStep(o, x)
    BY <1>3 DEF BeginStep
  <1>7. /\ user' = user /\ agency' = agency /\ rows' = rows /\ barred' = barred
        /\ memberOf' = memberOf /\ business' = business
        /\ txn'[o] = x /\ \A p \in Ops \ {o} : txn'[p] = NoTxn
    BY <1>1, <1>6 DEF BeginStep, registry, trade, Types, LockFree
  <1>8. AnotherRootThan(target)
    BY <1>1, <1>3, ScopeLeavesRoot DEF MayDelete
  <1>9. Ready(o)'
    BY <1>3, <1>4, <1>5, <1>7, <1>8 DEF Ready, AnotherRootThan, Roots
  <1>10. ChangeReady(o)'
    BY <1>5, <1>7 DEF ChangeReady
  <1>11. DeletionReady(o)'
    BY <1>3, <1>5, <1>7 DEF DeletionReady, Deletion, Blockers, Members, WorkOf, Unfinished
  <1> QED BY <1>5, <1>6, <1>9, <1>10, <1>11, BeginKeeps

-----------------------------------------------------------------------------
(* Commits: the writes of a transaction *)

\* Only person t changes, except for versions, which grow.
OnlyChanges(t) ==
    /\ user' \in [Subjects -> UserRow]
    /\ \A s \in Subjects \ {t} : /\ user'[s].role = user[s].role
                                 /\ user'[s].status = user[s].status
                                 /\ user'[s].version >= user[s].version

CommitStep(o, t, row) ==
    /\ txn[o] # NoTxn /\ t = txn[o].target
    /\ OnlyChanges(t) /\ user'[t].version > user[t].version /\ user'[t].status # "absent"
    /\ rows' = [rows EXCEPT ![o] = row]
    /\ row.subject = t /\ row.expected = txn[o].expected
    /\ txn' = [txn EXCEPT ![o] = NoTxn]
    /\ UNCHANGED <<memberOf, calls, barred, inbox, business, provider>>

LEMMA CommitCommon ==
    ASSUME AuthorityInvariant, NEW o \in Ops, NEW t \in Subjects,
           NEW row \in ChangeRow \cup DeleteRow, CommitStep(o, t, row)
    PROVE  /\ \A p \in Ops : (Ready(p) /\ ChangeReady(p) /\ DeletionReady(p) /\ Journal(p))'
           /\ RootRemains'
           /\ rows' \in [Ops -> Rows]
           /\ txn' \in [Ops -> {NoTxn} \cup ChangeTxn \cup DeleteTxn]
           /\ rows'[o] = row /\ \A p \in Ops \ {o} : rows'[p] = rows[p]
           /\ \A c \in calls : c.op # o
           /\ \A w \in wire : w.op # o
           /\ \A s : WorkOf(s) = {} => WorkOf(s)' = {}
  <1>1. Types /\ Ready(o)
    BY DEF AuthorityInvariant
  <1>2. /\ txn[o] # NoTxn /\ t = txn[o].target
        /\ user' \in [Subjects -> UserRow]
        /\ \A s \in Subjects \ {t} : /\ user'[s].role = user[s].role
                                     /\ user'[s].status = user[s].status
                                     /\ user'[s].version >= user[s].version
        /\ user'[t].version > user[t].version /\ user'[t].status # "absent"
        /\ rows' = [rows EXCEPT ![o] = row]
        /\ row.subject = t /\ row.expected = txn[o].expected
        /\ txn' = [txn EXCEPT ![o] = NoTxn]
        /\ account' = account
    BY DEF CommitStep, OnlyChanges, provider
  <1>3. /\ \A p \in Ops : txn[p] # NoTxn => p = o
        /\ rows[o] = NoRow
        /\ row.expected = user[t].version
        /\ AnotherRootThan(t)
    BY <1>1, <1>2 DEF Ready
  <1>4. /\ rows' \in [Ops -> Rows]
        /\ rows'[o] = row /\ \A p \in Ops \ {o} : rows'[p] = rows[p]
        /\ txn' \in [Ops -> {NoTxn} \cup ChangeTxn \cup DeleteTxn]
        /\ txn'[o] = NoTxn /\ \A p \in Ops \ {o} : txn'[p] = txn[p]
    BY <1>1, <1>2 DEF Types, Rows
  <1>5. \A p \in Ops : txn'[p] = NoTxn
    BY <1>3, <1>4
  <1>6. \A p \in Ops : (Ready(p) /\ ChangeReady(p) /\ DeletionReady(p))'
    BY <1>5 DEF Ready, ChangeReady, DeletionReady, NoTxn
  <1>7. \A s \in Subjects : user[s].version \in Nat /\ user'[s].version \in Nat
                            /\ user'[s].version >= user[s].version
    BY <1>1, <1>2 DEF Types, UserRow
  <1>8. \A p \in Ops \ {o} :
            rows[p].kind \in {"change", "delete"} =>
                /\ rows[p].subject \in Subjects /\ rows[p].expected \in Nat
                /\ Registered(rows[p].subject)
                /\ rows[p].expected < user[rows[p].subject].version
    <2> SUFFICES ASSUME NEW p \in Ops \ {o}, rows[p].kind \in {"change", "delete"}
                 PROVE  /\ rows[p].subject \in Subjects /\ rows[p].expected \in Nat
                        /\ Registered(rows[p].subject)
                        /\ rows[p].expected < user[rows[p].subject].version
      OBVIOUS
    <2>1. rows[p].subject \in Subjects /\ rows[p].expected \in Nat
      BY <1>1, RowKinds DEF ChangeRow, DeleteRow, Deletion
    <2>2. Journal(p)
      BY DEF AuthorityInvariant
    <2> QED BY <2>1, <2>2 DEF Journal
  <1>9. ASSUME NEW p \in Ops
        PROVE  Journal(p)'
    <2>1. row.kind \in {"change", "delete"} /\ row.expected \in Nat
      BY DEF ChangeRow, DeleteRow
    <2>2. rows'[p].kind \in {"change", "delete"} =>
              /\ Registered(rows[p].subject)'
              /\ rows'[p].expected < user'[rows'[p].subject].version
      <3>1. CASE p = o
        BY <1>2, <1>3, <1>4, <1>7, <3>1 DEF Registered
      <3>2. CASE p # o
        BY <1>2, <1>4, <1>7, <1>8, <3>2 DEF Registered
      <3> QED BY <3>1, <3>2
    <2>3. ASSUME NEW q \in Ops, p # q, rows'[p].kind \in {"change", "delete"},
                 rows'[q].kind \in {"change", "delete"}, rows'[p].subject = rows'[q].subject
          PROVE  rows'[p].expected # rows'[q].expected
      <3>1. CASE p = o
        BY <1>2, <1>3, <1>4, <1>8, <2>1, <2>3, <3>1
      <3>2. CASE q = o
        BY <1>2, <1>3, <1>4, <1>8, <2>1, <2>3, <3>2
      <3>3. CASE p # o /\ q # o
        BY <1>4, <2>3, <3>3 DEF AuthorityInvariant, Journal
      <3> QED BY <3>1, <3>2, <3>3
    <2> QED BY <2>2, <2>3 DEF Journal
  <1>10. RootRemains'
    <2>1. \A r \in Roots \ {t} : r \in Roots'
      BY <1>2 DEF Roots
    <2>2. CASE \E r \in Roots : r # t
      BY <2>1, <2>2 DEF RootRemains
    <2>3. CASE \A r \in Roots : r = t
      <3>1. t \notin Roots /\ user[t].role # "superadmin"
        BY <1>3, <2>3 DEF AnotherRootThan, Roots
      <3>2. PICK s \in Subjects : user[s].role = "superadmin" /\ account[s] = "gone"
        BY <2>3, <3>1 DEF AuthorityInvariant, RootRemains
      <3>3. s # t /\ user'[s].role = "superadmin" /\ account'[s] = "gone"
        BY <1>2, <3>1, <3>2
      <3> QED BY <3>3 DEF RootRemains
    <2> QED BY <2>2, <2>3
  <1>11. /\ \A c \in calls : c.op # o
         /\ \A w \in wire : w.op # o
    BY <1>1, <1>3, RowKinds DEF Types
  <1>12. ASSUME NEW s, WorkOf(s) = {}
         PROVE  WorkOf(s)' = {}
    BY <1>4, <1>12, LessWork
  <1> QED BY <1>4, <1>6, <1>9, <1>10, <1>11, <1>12

LEMMA CommitChangeKeeps ==
    ASSUME AuthorityInvariant, NEW o \in Ops, CommitChange(o)
    PROVE  AuthorityInvariant'
  <1> DEFINE A == Affected(txn[o])
  <1>1. Types /\ Ready(o) /\ ChangeReady(o)
    BY DEF AuthorityInvariant
  <1>2. PICK x : x = txn[o]
    OBVIOUS
  <1>3. PICK t : t = x.target
    OBVIOUS
  <1>4. /\ x.kind = "change" /\ x \in ChangeTxn /\ txn[o] # NoTxn
        /\ t \in Subjects /\ x.role \in Roles /\ x.status \in Alive
        /\ x.expected \in Nat
    <2>1. txn[o].kind = "change"
      BY DEF CommitChange
    <2> QED BY <1>1, <1>2, <1>3, <2>1, RowKinds DEF ChangeTxn, NoTxn
  <1> DEFINE n == IF x.action = "provision_agency" THEN 2 ELSE 1
  <1>5. /\ user' = [s \in Subjects |->
              IF s = t THEN Updated(user[s], x.role, x.status, n)
              ELSE IF s \in A THEN Touched(user[s]) ELSE user[s]]
        /\ agency' = [agency EXCEPT ![t] = AgencyAfter(x)]
        /\ rows' = [rows EXCEPT ![o] = [kind |-> "change", subject |-> t,
                                        expected |-> x.expected]]
        /\ clients' = clients \ A
        /\ effects' = effects \cup A
        /\ txn' = [txn EXCEPT ![o] = NoTxn]
        /\ UNCHANGED <<memberOf, calls, barred, inbox, business, frozen, provider>>
    BY <1>2, <1>3 DEF CommitChange
  <1>6. A \subseteq Subjects
    BY <1>2, <1>3, <1>4 DEF Affected, Members
  <1> HIDE DEF A
  <1>7. /\ user[t].status \in Alive /\ x.expected = user[t].version
        /\ x.status # "suspended" => NotBarred(t)
        /\ AgencyAfter(x).status = "active" => x.role = "b2b" /\ x.status = "active"
    BY <1>1, <1>2, <1>3, <1>4 DEF Ready, ChangeReady
  <1>8. n \in {1, 2}
    OBVIOUS
  <1> HIDE DEF n
  <1>9. /\ OnlyChanges(t) /\ user'[t].version > user[t].version
        /\ user'[t].role = x.role /\ user'[t].status = x.status
        /\ user'[t].status # "absent"
    <2>1. \A s \in Subjects : user[s] \in UserRow
      BY <1>1 DEF Types
    <2>2. user'[t] = Updated(user[t], x.role, x.status, n)
      BY <1>4, <1>5
    <2>3. /\ user'[t] \in UserRow /\ user'[t].version > user[t].version
          /\ user'[t].role = x.role /\ user'[t].status = x.status
          /\ user'[t].status # "absent"
      BY <1>4, <1>8, <2>1, <2>2 DEF Updated, UserRow, Alive, Statuses
    <2>4. ASSUME NEW s \in Subjects \ {t}
          PROVE  /\ user'[s] \in UserRow
                 /\ user'[s].role = user[s].role /\ user'[s].status = user[s].status
                 /\ user'[s].version >= user[s].version
      <3>1. user'[s] = Touched(user[s]) \/ user'[s] = user[s]
        BY <1>5
      <3>2. Touched(user[s]) = [user[s] EXCEPT !.version = user[s].version + 1]
        BY DEF Touched
      <3> QED BY <2>1, <3>1, <3>2 DEF UserRow
    <2>5. user' = [s \in Subjects |-> user'[s]]
      BY <1>5
    <2> QED BY <2>3, <2>4, <2>5 DEF OnlyChanges
  <1> DEFINE row == [kind |-> "change", subject |-> t, expected |-> x.expected]
  <1>10. /\ row \in ChangeRow /\ row.subject = t /\ row.expected = x.expected
         /\ row.kind = "change"
    BY <1>4, SMTT(60) DEF ChangeRow
  <1> HIDE DEF row
  <1>11. CommitStep(o, t, row)
    BY <1>2, <1>3, <1>4, <1>5, <1>9, <1>10 DEF CommitStep, row
  <1>12. /\ \A p \in Ops : (Ready(p) /\ ChangeReady(p) /\ DeletionReady(p) /\ Journal(p))'
         /\ RootRemains'
         /\ rows' \in [Ops -> Rows]
         /\ txn' \in [Ops -> {NoTxn} \cup ChangeTxn \cup DeleteTxn]
         /\ rows'[o] = row /\ \A p \in Ops \ {o} : rows'[p] = rows[p]
         /\ \A c \in calls : c.op # o
         /\ \A w \in wire : w.op # o
         /\ \A s : WorkOf(s) = {} => WorkOf(s)' = {}
    BY <1>4, <1>10, <1>11, CommitCommon
  <1>13. /\ calls' = calls /\ barred' = barred /\ inbox' = inbox /\ business' = business
         /\ frozen' = frozen /\ account' = account /\ wire' = wire /\ memberOf' = memberOf
         /\ clients' \subseteq clients
    BY <1>5 DEF provider
  <1>14. AgencyAfter(x) \in AgencyRow
    <2>1. agency[t] \in AgencyRow
      BY <1>1, <1>4 DEF Types
    <2> QED BY <1>3, <2>1 DEF AgencyAfter, Marked, AgencyRow
  <1>15. Types'
    <2>1. user' \in [Subjects -> UserRow]
      BY <1>9 DEF OnlyChanges
    <2>2. agency' \in [Subjects -> AgencyRow]
      BY <1>1, <1>5, <1>14 DEF Types
    <2>3. \A c \in calls' : c.op \in Ops /\ Carried(c.op)' /\ c.fence \in 1..rows'[c.op].fence
      BY <1>1, <1>12, <1>13 DEF Types, Deletion, Carried
    <2>4. \A w \in wire' : /\ w.op \in Ops /\ Carried(w.op)'
                           /\ w.task = "delete" => Deletion(w.op)'
      BY <1>1, <1>12, <1>13 DEF Types, Deletion, Carried
    <2>5. effects' \subseteq Subjects
      BY <1>1, <1>5, <1>6 DEF Types
    <2> QED BY <1>1, <1>12, <1>13, <2>1, <2>2, <2>3, <2>4, <2>5 DEF Types
  <1>16. \A s \in Subjects \ {t} : /\ user'[s].role = user[s].role
                                   /\ user'[s].status = user[s].status
    BY <1>9 DEF OnlyChanges
  <1>17. AgencyNeedsOwner'
    <2> SUFFICES ASSUME NEW s \in Subjects, agency'[s].status = "active"
                 PROVE  user'[s].role = "b2b" /\ user'[s].status = "active"
      BY DEF AgencyNeedsOwner, OwnsActive
    <2>1. CASE s = t
      <3>1. agency'[t] = AgencyAfter(x)
        BY <1>1, <1>4, <1>5 DEF Types
      <3> QED BY <1>7, <1>9, <2>1, <3>1
    <2>2. CASE s # t
      BY <1>1, <1>5, <1>16, <2>2 DEF Types, AuthorityInvariant, AgencyNeedsOwner, OwnsActive
    <2> QED BY <2>1, <2>2
  <1>18. DeletionHolds'
    <2>1. \A s \in barred' : user'[s].status \notin {"onboarding", "active"} /\ s \notin clients'
      <3> SUFFICES ASSUME NEW s \in barred
                   PROVE  user'[s].status \notin {"onboarding", "active"} /\ s \notin clients'
        BY <1>13
      <3>1. s \in Subjects /\ user[s].status \notin {"onboarding", "active"} /\ s \notin clients
        BY <1>1 DEF Types, AuthorityInvariant, DeletionHolds
      <3>2. CASE s = t
        <4>1. x.status = "suspended"
          BY <1>7, <3>2 DEF NotBarred
        <4> QED BY <1>9, <1>13, <3>1, <3>2, <4>1
      <3>3. CASE s # t
        BY <1>13, <1>16, <3>1, <3>3
      <3> QED BY <3>2, <3>3
    <2>2. \A s \in Subjects : user'[s].status \in {"deleting", "deleted"} =>
                                 s # t /\ user[s].status = user'[s].status
      BY <1>4, <1>9, <1>16 DEF Alive
    <2>3. \A s \in Subjects : Terminal(s)' => s \in frozen' \ clients'
      BY <1>13, <2>2 DEF Terminal, AuthorityInvariant, DeletionHolds
    <2>4. \A s \in Subjects : user'[s].status = "deleted" => account'[s] = "gone"
      BY <1>13, <2>2 DEF AuthorityInvariant, DeletionHolds
    <2> QED BY <2>1, <2>3, <2>4 DEF DeletionHolds
  <1>19. WorldRight'
    <2>1. \A s \in Subjects : /\ Registered(s)' <=> Registered(s)
                              /\ ~Registered(s)' => user'[s].role = user[s].role
      BY <1>4, <1>7, <1>9, <1>16 DEF Registered, Alive
    <2> QED BY <1>1, <1>13, <2>1 DEF AuthorityInvariant, Types, WorldRight
  <1>20. ASSUME NEW p \in Ops
         PROVE  DeletionStands(p)'
    <2> SUFFICES ASSUME Deletion(p)' PROVE DeletionStands(p)'
      BY DEF DeletionStands
    <2>1. p # o /\ rows'[p] = rows[p] /\ Deletion(p)
      BY <1>10, <1>12 DEF Deletion
    <2>2. rows[p].subject \in Subjects
      BY <1>1, <2>1, RowKinds DEF DeleteRow
    <2>3. DeletionStands(p)
      BY DEF AuthorityInvariant
    <2>4. rows[p].subject # t
      BY <1>7, <2>1, <2>3 DEF DeletionStands, Terminal, Alive
    <2>5. \A m \in Members(rows[p].subject) : m # t /\ m \in Subjects
      BY <1>7, <2>1, <2>3 DEF DeletionStands, Alive, Members
    <2>6. Members(rows[p].subject)' = Members(rows[p].subject)
      BY <1>13, <2>1 DEF Members
    <2>7. (WorkOf(rows[p].subject) = {})'
      <3>1. PICK s : s = rows[p].subject
        OBVIOUS
      <3>2. WorkOf(s)' = {}
        BY <1>12, <2>1, <2>3, <3>1 DEF DeletionStands
      <3> QED BY <2>1, <3>1, <3>2 DEF WorkOf
    <2> QED BY <1>13, <1>16, <2>1, <2>2, <2>3, <2>4, <2>5, <2>6, <2>7
            DEF DeletionStands, Terminal
  <1> QED BY <1>12, <1>15, <1>17, <1>18, <1>19, <1>20 DEF AuthorityInvariant

LEMMA CommitDeletionKeeps ==
    ASSUME AuthorityInvariant, NEW o \in Ops, CommitDeletion(o)
    PROVE  AuthorityInvariant'
  <1>1. Types /\ Ready(o) /\ DeletionReady(o)
    BY DEF AuthorityInvariant
  <1>2. PICK x : x = txn[o]
    OBVIOUS
  <1>3. PICK t : t = x.target
    OBVIOUS
  <1>4. /\ x.kind = "delete" /\ txn[o] # NoTxn
        /\ t \in Subjects /\ x.expected \in Nat
    <2>1. txn[o].kind = "delete"
      BY DEF CommitDeletion
    <2> QED BY <1>1, <1>2, <1>3, <2>1, RowKinds DEF DeleteTxn, NoTxn
  <1> DEFINE row == [kind |-> "delete", subject |-> t, expected |-> x.expected,
                     state |-> "prepared", fence |-> 0, attempts |-> 0]
  <1>5. /\ user' = [user EXCEPT ![t] = Updated(@, @.role, "deleting", 1)]
        /\ agency' = IF OwnsActive(t) THEN [agency EXCEPT ![t] = Marked(@, "suspended")]
                     ELSE agency
        /\ frozen' = frozen \cup {t}
        /\ clients' = clients \ {t}
        /\ rows' = [rows EXCEPT ![o] = row]
        /\ txn' = [txn EXCEPT ![o] = NoTxn]
        /\ UNCHANGED <<memberOf, calls, effects, barred, inbox, business, provider>>
    BY <1>2, <1>3 DEF CommitDeletion, Revoked
  <1>6. /\ user[t].status \in Alive /\ x.expected = user[t].version
        /\ \A p \in Ops : Deletion(p) => rows[p].subject # t
        /\ t \notin business /\ WorkOf(t) = {}
        /\ \A m \in Members(t) : user[m].status = "deleted"
    BY <1>1, <1>2, <1>3, <1>4 DEF Ready, DeletionReady
  <1>7. /\ user'[t].role = user[t].role /\ user'[t].status = "deleting"
        /\ user'[t].version > user[t].version
        /\ \A s \in Subjects \ {t} : user'[s] = user[s]
        /\ user' \in [Subjects -> UserRow]
    <2>1. user[t] \in UserRow
      BY <1>1, <1>4 DEF Types
    <2>2. PICK u : u = Updated(user[t], user[t].role, "deleting", 1)
      OBVIOUS
    <2>3. /\ u \in UserRow /\ u.role = user[t].role /\ u.status = "deleting"
          /\ u.version > user[t].version
      BY <2>1, <2>2 DEF Updated, UserRow, Statuses
    <2>4. user' = [user EXCEPT ![t] = u]
      BY <1>5, <2>2
    <2> QED BY <1>1, <1>4, <2>3, <2>4 DEF Types
  <1>8. OnlyChanges(t)
    <2>1. \A s \in Subjects : user[s].version \in Nat
      BY <1>1 DEF Types, UserRow
    <2> QED BY <1>7, <2>1 DEF OnlyChanges
  <1>9. /\ row \in DeleteRow /\ row.subject = t /\ row.expected = x.expected
        /\ row.kind = "delete" /\ row.state = "prepared"
    BY <1>4 DEF DeleteRow
  <1> HIDE DEF row
  <1>10. CommitStep(o, t, row)
    BY <1>2, <1>3, <1>4, <1>5, <1>7, <1>8, <1>9 DEF CommitStep
  <1>11. /\ \A p \in Ops : (Ready(p) /\ ChangeReady(p) /\ DeletionReady(p) /\ Journal(p))'
         /\ RootRemains'
         /\ rows' \in [Ops -> Rows]
         /\ txn' \in [Ops -> {NoTxn} \cup ChangeTxn \cup DeleteTxn]
         /\ rows'[o] = row /\ \A p \in Ops \ {o} : rows'[p] = rows[p]
         /\ \A c \in calls : c.op # o
         /\ \A w \in wire : w.op # o
         /\ \A s : WorkOf(s) = {} => WorkOf(s)' = {}
    BY <1>4, <1>9, <1>10, CommitCommon
  <1>12. /\ calls' = calls /\ barred' = barred /\ inbox' = inbox /\ business' = business
         /\ account' = account /\ wire' = wire /\ memberOf' = memberOf
         /\ effects' = effects
    BY <1>5 DEF provider
  <1>13. /\ agency' \in [Subjects -> AgencyRow]
         /\ \A s \in Subjects : agency'[s].status = "active" => s # t /\ agency[s].status = "active"
    <2>1. agency[t] \in AgencyRow /\ agency \in [Subjects -> AgencyRow]
      BY <1>1, <1>4 DEF Types
    <2>2. PICK a : a = Marked(agency[t], "suspended")
      OBVIOUS
    <2>3. a \in AgencyRow /\ a.status = "suspended"
      BY <2>1, <2>2 DEF Marked, AgencyRow
    <2>4. agency' = IF agency[t].status = "active" THEN [agency EXCEPT ![t] = a] ELSE agency
      BY <1>5, <2>2 DEF OwnsActive
    <2> QED BY <2>1, <2>3, <2>4
  <1>14. Types'
    <2>1. \A c \in calls' : c.op \in Ops /\ Carried(c.op)' /\ c.fence \in 1..rows'[c.op].fence
      BY <1>1, <1>11, <1>12 DEF Types, Deletion, Carried
    <2>2. \A w \in wire' : /\ w.op \in Ops /\ Carried(w.op)'
                           /\ w.task = "delete" => Deletion(w.op)'
      BY <1>1, <1>11, <1>12 DEF Types, Deletion, Carried
    <2>3. frozen' \subseteq Subjects /\ clients' \subseteq Subjects
      BY <1>1, <1>4, <1>5 DEF Types
    <2> QED BY <1>1, <1>7, <1>11, <1>12, <1>13, <2>1, <2>2, <2>3 DEF Types
  <1>15. AgencyNeedsOwner'
    BY <1>7, <1>13 DEF AgencyNeedsOwner, OwnsActive, AuthorityInvariant
  <1>16. DeletionHolds'
    <2>1. \A s \in barred' : user'[s].status \notin {"onboarding", "active"} /\ s \notin clients'
      BY <1>1, <1>5, <1>7, <1>12 DEF Types, AuthorityInvariant, DeletionHolds
    <2>2. \A s \in Subjects : Terminal(s)' => s \in frozen' \ clients'
      BY <1>5, <1>7 DEF Terminal, AuthorityInvariant, DeletionHolds
    <2>3. \A s \in Subjects : user'[s].status = "deleted" => account'[s] = "gone"
      BY <1>7, <1>12 DEF AuthorityInvariant, DeletionHolds
    <2> QED BY <2>1, <2>2, <2>3 DEF DeletionHolds
  <1>17. WorldRight'
    <2>1. \A s \in Subjects : /\ Registered(s)' <=> Registered(s)
                              /\ user'[s].role = user[s].role
      BY <1>6, <1>7 DEF Registered, Alive
    <2> QED BY <1>1, <1>5, <1>12, <2>1 DEF AuthorityInvariant, Types, WorldRight
  <1>18. ASSUME NEW p \in Ops
         PROVE  DeletionStands(p)'
    <2> SUFFICES ASSUME Deletion(p)' PROVE DeletionStands(p)'
      BY DEF DeletionStands
    <2>1. CASE p = o
      <3>1. rows'[p] = row /\ row.subject = t /\ row.state = "prepared"
        BY <1>9, <1>11, <2>1
      <3>2. Terminal(t)' /\ t \notin business'
        BY <1>6, <1>7, <1>12 DEF Terminal
      <3>3. \A m \in Members(t)' : user'[m].status = "deleted"
        BY <1>6, <1>7, <1>12 DEF Members, Alive
      <3>4. WorkOf(t)' = {}
        BY <1>6, <1>11
      <3> QED BY <3>1, <3>2, <3>3, <3>4 DEF DeletionStands, Members, WorkOf
    <2>2. CASE p # o
      <3>1. rows'[p] = rows[p] /\ Deletion(p)
        BY <1>11, <2>2 DEF Deletion
      <3>2. DeletionStands(p) /\ rows[p].subject # t /\ rows[p].subject \in Subjects
        BY <1>1, <1>6, <3>1, RowKinds DEF AuthorityInvariant, DeleteRow
      <3>3. \A m \in Members(rows[p].subject) : m # t /\ m \in Subjects
        BY <1>6, <3>1, <3>2 DEF DeletionStands, Alive, Members
      <3>4. Members(rows[p].subject)' = Members(rows[p].subject)
        BY <1>12, <3>1 DEF Members
      <3>5. (WorkOf(rows[p].subject) = {})'
        <4>1. PICK s : s = rows[p].subject
          OBVIOUS
        <4>2. WorkOf(s)' = {}
          BY <1>11, <3>1, <3>2, <4>1 DEF DeletionStands
        <4> QED BY <3>1, <4>1, <4>2 DEF WorkOf
      <3> QED BY <1>7, <1>12, <3>1, <3>2, <3>3, <3>4, <3>5 DEF DeletionStands, Terminal
    <2> QED BY <2>1, <2>2
  <1> QED BY <1>11, <1>14, <1>15, <1>16, <1>17, <1>18 DEF AuthorityInvariant

-----------------------------------------------------------------------------
(* What the provider reports *)

\* Nobody is in a transaction; people keep their roles, and at most one that
\* is gone at the provider is suspended.
ReportStep(x) ==
    /\ LockFree
    /\ user' \in [Subjects -> UserRow]
    /\ \A s \in Subjects : /\ user'[s].role = user[s].role
                           /\ user'[s].version >= user[s].version
                           /\ \/ user'[s].status = user[s].status
                              \/ /\ s = x /\ account[x] = "gone"
                                 /\ user[s].status \in Alive /\ user'[s].status = "suspended"
    /\ agency' \in [Subjects -> AgencyRow]
    /\ \A s \in Subjects : agency'[s].status = "active" =>
          agency[s].status = "active" /\ user'[s].status = user[s].status
    /\ clients' \subseteq clients
    /\ barred' \subseteq Subjects
    /\ \A s \in barred' : \/ s \in barred
                          \/ /\ s = x /\ account[x] = "gone" /\ s \notin clients'
                             /\ user'[s].status \notin {"onboarding", "active"}
    /\ inbox' \in [Subjects -> {NoEvent} \cup Event]
    /\ UNCHANGED <<memberOf, txn, rows, calls, effects, business, frozen, provider>>

LEMMA ReportKeeps ==
    ASSUME AuthorityInvariant, NEW x \in Subjects, ReportStep(x)
    PROVE  AuthorityInvariant'
  <1>1. Types
    BY DEF AuthorityInvariant
  <1>2. /\ memberOf' = memberOf /\ txn' = txn /\ rows' = rows /\ calls' = calls
        /\ effects' = effects /\ business' = business /\ frozen' = frozen
        /\ account' = account /\ wire' = wire /\ clients' \subseteq clients
    BY DEF ReportStep, provider
  <1>3. /\ \A s \in Subjects : /\ user'[s].role = user[s].role
                               /\ user'[s].version >= user[s].version
                               /\ \/ user'[s].status = user[s].status
                                  \/ /\ s = x /\ account[x] = "gone"
                                     /\ user[s].status \in Alive
                                     /\ user'[s].status = "suspended"
        /\ user' \in [Subjects -> UserRow]
    BY DEF ReportStep
  <1>4. Types'
    BY <1>1, <1>2 DEF Types, ReportStep, Deletion, Carried
  <1>5. \A s \in Subjects : /\ Registered(s)' <=> Registered(s)
                            /\ Terminal(s)' <=> Terminal(s)
                            /\ user'[s].status = "deleted" <=> user[s].status = "deleted"
    BY <1>3 DEF Registered, Terminal, Alive
  <1>6. \A p \in Ops : txn'[p] = NoTxn
    BY <1>2 DEF ReportStep, LockFree
  <1>7. \A p \in Ops : (Ready(p) /\ ChangeReady(p) /\ DeletionReady(p))'
    BY <1>6 DEF Ready, ChangeReady, DeletionReady, NoTxn
  <1>8. RootRemains'
    <2>1. CASE Roots' # {}
      BY <2>1 DEF RootRemains
    <2>2. CASE Roots' = {} /\ Roots # {}
      <3>1. PICK s \in Roots : TRUE
        BY <2>2
      <3>2. s = x /\ account[x] = "gone"
        BY <1>3, <2>2, <3>1 DEF Roots
      <3> QED BY <1>2, <1>3, <3>1, <3>2 DEF RootRemains, Roots
    <2>3. CASE Roots = {}
      BY <1>2, <1>3, <2>3 DEF RootRemains, AuthorityInvariant
    <2> QED BY <2>1, <2>2, <2>3
  <1>9. AgencyNeedsOwner'
    BY <1>3 DEF ReportStep, AgencyNeedsOwner, OwnsActive, AuthorityInvariant
  <1>10. DeletionHolds'
    <2>1. \A s \in barred' : user'[s].status \notin {"onboarding", "active"} /\ s \notin clients'
      BY <1>1, <1>2, <1>3 DEF ReportStep, Types, AuthorityInvariant, DeletionHolds
    <2>2. \A s \in Subjects : Terminal(s)' => s \in frozen' \ clients'
      BY <1>2, <1>5 DEF AuthorityInvariant, DeletionHolds
    <2>3. \A s \in Subjects : user'[s].status = "deleted" => account'[s] = "gone"
      BY <1>2, <1>5 DEF AuthorityInvariant, DeletionHolds
    <2> QED BY <2>1, <2>2, <2>3 DEF DeletionHolds
  <1>11. WorldRight'
    BY <1>1, <1>2, <1>3, <1>5 DEF ReportStep, AuthorityInvariant, Types, WorldRight
  <1>12. ASSUME NEW p \in Ops
         PROVE  Journal(p)' /\ DeletionStands(p)'
    <2>1. Journal(p) /\ DeletionStands(p)
      BY DEF AuthorityInvariant
    <2>2. rows[p].kind \in {"change", "delete"} =>
              rows[p].subject \in Subjects /\ rows[p].expected \in Nat
      BY <1>1, RowKinds DEF ChangeRow, DeleteRow, Deletion
    <2>3. \A s \in Subjects : user[s].version \in Nat /\ user'[s].version \in Nat
      BY <1>1, <1>3 DEF Types, UserRow
    <2>4. Journal(p)'
      BY <1>2, <1>3, <1>5, <2>1, <2>2, <2>3 DEF Journal
    <2>5. Members(rows[p].subject)' = Members(rows[p].subject)
          /\ Members(rows[p].subject) \subseteq Subjects
      BY <1>2 DEF Members
    <2>6. DeletionStands(p)'
      BY <1>2, <1>5, <2>1, <2>2, <2>5 DEF DeletionStands, Deletion, WorkOf
    <2> QED BY <2>4, <2>6
  <1> QED BY <1>4, <1>7, <1>8, <1>9, <1>10, <1>11, <1>12 DEF AuthorityInvariant

\* Containing a person changes nobody else's role or status.
LEMMA ContainMoves ==
    ASSUME user \in [Subjects -> UserRow], agency \in [Subjects -> AgencyRow],
           NEW x \in Subjects, Contain(x)
    PROVE  /\ user' \in [Subjects -> UserRow]
           /\ \A s \in Subjects : /\ user'[s].role = user[s].role
                                  /\ user'[s].version >= user[s].version
                                  /\ \/ user'[s].status = user[s].status
                                     \/ /\ s = x /\ user[s].status \in Alive
                                        /\ user'[s].status = "suspended"
           /\ agency' \in [Subjects -> AgencyRow]
           /\ \A s \in Subjects : agency'[s].status = "active" =>
                 agency[s].status = "active" /\ user'[s].status = user[s].status
           /\ user'[x].status \notin {"onboarding", "active"}
  <1>1. /\ user \in [Subjects -> UserRow] /\ agency \in [Subjects -> AgencyRow]
        /\ \A s \in Subjects : user[s].version \in Nat
    BY DEF UserRow
  <1>2. CASE ~Registered(x)
    <2>1. user' = user /\ agency' = agency
      BY <1>2 DEF Contain
    <2>2. user[x].status = "absent"
      BY <1>2 DEF Registered
    <2> QED BY <1>1, <2>1, <2>2
  <1>3. CASE Registered(x)
    <2> DEFINE denied == IF Terminal(x) \/ user[x].status = "suspended" THEN user
                         ELSE [user EXCEPT ![x] = Updated(@, @.role, "suspended", 1)]
    <2>1. /\ user' = IF OwnsActive(x) THEN Invalidated(denied, x) ELSE denied
          /\ agency' = ContainedAgency(x)
      BY <1>3 DEF Contain
    <2>2. /\ denied \in [Subjects -> UserRow]
          /\ \A s \in Subjects \ {x} : denied[s] = user[s]
          /\ denied[x].role = user[x].role /\ denied[x].version >= user[x].version
          /\ \/ denied[x].status = user[x].status
             \/ user[x].status \in Alive /\ denied[x].status = "suspended"
          /\ denied[x].status \notin {"onboarding", "active"}
      <3>1. user[x] \in UserRow
        BY <1>1
      <3>2. CASE Terminal(x) \/ user[x].status = "suspended"
        <4>1. denied = user
          BY <3>2
        <4> HIDE DEF denied
        <4> QED BY <1>1, <3>2, <4>1 DEF Terminal
      <3>3. CASE ~(Terminal(x) \/ user[x].status = "suspended")
        <4>1. PICK u : u = Updated(user[x], user[x].role, "suspended", 1)
          OBVIOUS
        <4>2. /\ u \in UserRow /\ u.role = user[x].role /\ u.status = "suspended"
              /\ u.version >= user[x].version
          BY <3>1, <4>1 DEF Updated, UserRow, Statuses
        <4>3. denied = [user EXCEPT ![x] = u]
          BY <3>3, <4>1
        <4>4. user[x].status \in Alive
          BY <1>3, <3>1, <3>3 DEF Terminal, Registered, UserRow, Statuses, Alive
        <4> HIDE DEF denied
        <4> QED BY <1>1, <4>2, <4>3, <4>4
      <3> QED BY <3>2, <3>3
    <2> HIDE DEF denied
    <2>3. /\ user' \in [Subjects -> UserRow]
          /\ \A s \in Subjects : /\ user'[s].role = denied[s].role
                                 /\ user'[s].status = denied[s].status
                                 /\ user'[s].version >= denied[s].version
      <3>1. \A s \in Subjects : /\ Touched(denied[s]) \in UserRow
                                /\ Touched(denied[s]).role = denied[s].role
                                /\ Touched(denied[s]).status = denied[s].status
                                /\ Touched(denied[s]).version >= denied[s].version
        <4> SUFFICES ASSUME NEW s \in Subjects
                     PROVE  /\ Touched(denied[s]) \in UserRow
                            /\ Touched(denied[s]).role = denied[s].role
                            /\ Touched(denied[s]).status = denied[s].status
                            /\ Touched(denied[s]).version >= denied[s].version
          OBVIOUS
        <4>1. PICK u \in UserRow : u = denied[s]
          BY <2>2
        <4>2. Touched(u) = [u EXCEPT !.version = u.version + 1]
          BY DEF Touched
        <4>3. Touched(u) \in UserRow /\ Touched(u).role = u.role
              /\ Touched(u).status = u.status /\ Touched(u).version >= u.version
          BY <4>2 DEF UserRow
        <4> QED BY <4>1, <4>3
      <3>2. CASE OwnsActive(x)
        <4>1. user' = [s \in Subjects |-> IF memberOf[s] = x THEN Touched(denied[s])
                                          ELSE denied[s]]
          BY <2>1, <3>2 DEF Invalidated
        <4>2. \A s \in Subjects : denied[s].version >= denied[s].version
          BY <2>2 DEF UserRow
        <4> QED BY <2>2, <3>1, <4>1, <4>2
      <3>3. CASE ~OwnsActive(x)
        <4>1. \A s \in Subjects : denied[s].version >= denied[s].version
          BY <2>2 DEF UserRow
        <4> QED BY <2>1, <2>2, <3>3, <4>1
      <3> QED BY <3>2, <3>3
    <2>4. /\ agency' \in [Subjects -> AgencyRow]
          /\ \A s \in Subjects : agency'[s].status = "active" =>
                s # x /\ agency[s].status = "active"
      <3>1. PICK a : a = Marked(agency[x], "suspended")
        OBVIOUS
      <3>2. a \in AgencyRow /\ a.status = "suspended"
        BY <1>1, <3>1 DEF Marked, AgencyRow
      <3>3. agency' = IF agency[x].status = "active" THEN [agency EXCEPT ![x] = a] ELSE agency
        BY <2>1, <3>1 DEF ContainedAgency, OwnsActive
      <3> QED BY <1>1, <3>2, <3>3
    <2>5. \A s \in Subjects : user'[s].version \in Nat /\ denied[s].version \in Nat
                              /\ denied[s].version >= user[s].version
      BY <1>1, <2>2, <2>3 DEF UserRow
    <2>6. \A s \in Subjects : user'[s].version >= user[s].version
      BY <1>1, <2>3, <2>5
    <2> QED BY <2>2, <2>3, <2>4, <2>6
  <1> QED BY <1>2, <1>3

LEMMA ContainFacts ==
    ASSUME Types, WorldRight, NEW x \in Subjects, account[x] = "gone", Contain(x)
    PROVE  /\ user' \in [Subjects -> UserRow]
           /\ \A s \in Subjects : /\ user'[s].role = user[s].role
                                  /\ user'[s].version >= user[s].version
                                  /\ \/ user'[s].status = user[s].status
                                     \/ /\ s = x /\ account[x] = "gone"
                                        /\ user[s].status \in Alive
                                        /\ user'[s].status = "suspended"
           /\ agency' \in [Subjects -> AgencyRow]
           /\ \A s \in Subjects : agency'[s].status = "active" =>
                 agency[s].status = "active" /\ user'[s].status = user[s].status
           /\ clients' \subseteq clients /\ x \notin clients'
           /\ user'[x].status \notin {"onboarding", "active"}
  <1>1. user \in [Subjects -> UserRow] /\ agency \in [Subjects -> AgencyRow]
    BY DEF Types
  <1>2. clients' \subseteq clients /\ x \notin clients'
    <2>1. ~Registered(x) => x \notin clients
      BY DEF WorldRight
    <2> QED BY <2>1 DEF Contain, Revoked
  <1> QED BY <1>1, <1>2, ContainMoves

LEMMA IngestDeletedKeeps ==
    ASSUME AuthorityInvariant, NEW x \in Subjects, IngestDeleted(x)
    PROVE  AuthorityInvariant'
  <1>1. /\ LockFree /\ account[x] = "gone" /\ Contain(x)
        /\ barred' = barred \cup {x}
        /\ UNCHANGED <<memberOf, txn, rows, calls, effects, inbox, business, frozen, provider>>
    BY DEF IngestDeleted
  <1>2. Types /\ WorldRight
    BY DEF AuthorityInvariant
  <1>3. ReportStep(x)
    BY <1>1, <1>2, ContainFacts DEF ReportStep, Types
  <1> QED BY <1>3, ReportKeeps

\* The claim, the retry and the expiry of an event only change the event.
LEMMA EventKeeps ==
    ASSUME AuthorityInvariant, NEW x \in Subjects,
           LockFree, inbox' \in [Subjects -> {NoEvent} \cup Event],
           UNCHANGED <<registry, txn, rows, calls, effects, barred, trade, provider>>
    PROVE  AuthorityInvariant'
  <1>1. /\ user \in [Subjects -> UserRow] /\ agency \in [Subjects -> AgencyRow]
        /\ barred \subseteq Subjects
    BY DEF AuthorityInvariant, Types
  <1>2. \A s \in Subjects : user[s].version >= user[s].version
    BY <1>1 DEF UserRow
  <1>3. ReportStep(x)
    BY <1>1, <1>2 DEF ReportStep, registry, trade
  <1> QED BY <1>3, ReportKeeps

LEMMA InboxKeeps ==
    ASSUME AuthorityInvariant, NEW x \in Subjects,
           IngestUpdated(x) \/ ClaimEvent(x) \/ ExpireEvent(x) \/ RetryEvent(x)
    PROVE  AuthorityInvariant'
  <1>1. /\ inbox \in [Subjects -> {NoEvent} \cup Event] /\ account[x] \in {"none", "live", "gone"}
    BY DEF AuthorityInvariant, Types
  <1>2. inbox[x].state \notin {"none"} => inbox[x] \in Event
    BY <1>1 DEF NoEvent
  <1>3. LockFree /\ UNCHANGED <<registry, txn, rows, calls, effects, barred, trade, provider>>
    BY DEF IngestUpdated, ClaimEvent, ExpireEvent, RetryEvent
  <1>4. \E e \in Event : inbox' = [inbox EXCEPT ![x] = e]
    <2>1. CASE IngestUpdated(x)
      <3>1. [state |-> "pending", attempts |-> 0, seen |-> "none"] \in Event
        BY LimitsAssumption DEF Event
      <3> QED BY <2>1, <3>1 DEF IngestUpdated
    <2>2. CASE ClaimEvent(x)
      <3>1. /\ inbox[x].state \in {"pending", "retry"} /\ inbox[x].attempts < MaxAttempts
            /\ inbox' = [inbox EXCEPT ![x] =
                  [state |-> "processing", attempts |-> inbox[x].attempts + 1,
                   seen |-> IF NotBarred(x) THEN account[x] ELSE "none"]]
        BY <2>2 DEF ClaimEvent
      <3>2. [state |-> "processing", attempts |-> inbox[x].attempts + 1,
             seen |-> IF NotBarred(x) THEN account[x] ELSE "none"] \in Event
        BY <1>1, <1>2, <3>1, LimitsAssumption DEF Event
      <3> QED BY <3>1, <3>2
    <2>3. CASE ExpireEvent(x)
      <3>1. inbox[x].state = "processing" /\ inbox' = [inbox EXCEPT ![x] = Deferred(inbox[x])]
        BY <2>3 DEF ExpireEvent
      <3>2. PICK e \in Event : e = inbox[x]
        BY <1>2, <3>1
      <3>3. Deferred(e) \in Event
        BY DEF Deferred, Event
      <3> QED BY <3>1, <3>2, <3>3
    <2>4. CASE RetryEvent(x)
      <3>1. PICK e \in Event : e = inbox[x]
        BY <1>2, <2>4 DEF RetryEvent
      <3>2. [[e EXCEPT !.state = "retry"] EXCEPT !.attempts = 0] \in Event
        <4>1. 0 \in 0..MaxAttempts
          BY LimitsAssumption
        <4>2. PICK f \in Event : f = [e EXCEPT !.state = "retry"]
          BY DEF Event
        <4>3. [f EXCEPT !.attempts = 0] \in Event
          BY <4>1 DEF Event
        <4> QED BY <4>2, <4>3
      <3>3. inbox' = [inbox EXCEPT ![x] = [[e EXCEPT !.state = "retry"] EXCEPT !.attempts = 0]]
        BY <1>1, <2>4, <3>1 DEF RetryEvent
      <3> QED BY <3>2, <3>3
    <2> QED BY <2>1, <2>2, <2>3, <2>4
  <1>5. inbox' \in [Subjects -> {NoEvent} \cup Event]
    BY <1>1, <1>4
  <1> QED BY <1>3, <1>5, EventKeeps

LEMMA FinishEventKeeps ==
    ASSUME AuthorityInvariant, NEW x \in Subjects,
           NEW answer \in {"live", "gone", "unavailable", "skipped"}, FinishEvent(x, answer)
    PROVE  AuthorityInvariant'
  <1>1. Types /\ WorldRight
    BY DEF AuthorityInvariant
  <1>2. /\ LockFree /\ inbox[x].state = "processing"
        /\ answer = "gone" => account[x] = "gone"
        /\ inbox' = [inbox EXCEPT ![x] =
              IF answer = "unavailable" /\ NotBarred(x) THEN Deferred(@)
              ELSE [@ EXCEPT !.state = "completed", !.seen = "none"]]
        /\ UNCHANGED <<memberOf, txn, rows, calls, effects, barred, business, frozen, provider>>
    BY DEF FinishEvent
  <1>3. inbox' \in [Subjects -> {NoEvent} \cup Event]
    <2>1. inbox \in [Subjects -> {NoEvent} \cup Event]
      BY <1>1 DEF Types
    <2>2. PICK e \in Event : e = inbox[x]
      BY <1>2, <2>1 DEF NoEvent
    <2>3. Deferred(e) \in Event /\ [[e EXCEPT !.state = "completed"] EXCEPT !.seen = "none"] \in Event
      BY DEF Deferred, Event
    <2>4. PICK d : d = IF answer = "unavailable" /\ NotBarred(x) THEN Deferred(e)
                       ELSE [[e EXCEPT !.state = "completed"] EXCEPT !.seen = "none"]
      OBVIOUS
    <2>5. inbox' = [inbox EXCEPT ![x] = d] /\ d \in Event
      BY <1>2, <2>2, <2>3, <2>4
    <2> QED BY <2>1, <2>5
  <1>4. CASE NotBarred(x) /\ answer = "gone"
    <2>1. Contain(x)
      BY <1>4 DEF FinishEvent
    <2>2. ReportStep(x)
      BY <1>1, <1>2, <1>3, <1>4, <2>1, ContainFacts DEF ReportStep, Types
    <2> QED BY <2>2, ReportKeeps
  <1>5. CASE ~(NotBarred(x) /\ answer = "gone")
    <2>1. user' \in {user, Refreshed(x)} /\ UNCHANGED <<agency, clients>>
      BY <1>5 DEF FinishEvent
    <2>2. user \in [Subjects -> UserRow] /\ agency \in [Subjects -> AgencyRow]
          /\ barred \subseteq Subjects
      BY <1>1 DEF Types
    <2>3. /\ user' \in [Subjects -> UserRow]
          /\ \A s \in Subjects : /\ user'[s].role = user[s].role
                                 /\ user'[s].version >= user[s].version
                                 /\ user'[s].status = user[s].status
      <3>1. PICK u \in UserRow : u = user[x]
        BY <2>2
      <3>2. Touched(u) = [u EXCEPT !.version = u.version + 1]
        BY DEF Touched
      <3>3. Touched(u) \in UserRow /\ Touched(u).role = u.role
            /\ Touched(u).status = u.status /\ Touched(u).version >= u.version
        BY <3>2 DEF UserRow
      <3>4. user' = user \/ user' = [user EXCEPT ![x] = Touched(u)]
        BY <2>1, <3>1 DEF Refreshed
      <3>5. \A s \in Subjects : user[s].version >= user[s].version
        BY <2>2 DEF UserRow
      <3> QED BY <2>2, <3>1, <3>3, <3>4, <3>5
    <2>4. ReportStep(x)
      BY <1>2, <1>3, <2>1, <2>2, <2>3 DEF ReportStep
    <2> QED BY <2>4, ReportKeeps
  <1> QED BY <1>4, <1>5

-----------------------------------------------------------------------------
(* The journal of a deletion *)

\* One deletion moves on: its claims are of its row, the requests of others
\* stay on their way, and it is only called confirmed when the account is gone.
RowStep(o, row) ==
    /\ LockFree /\ Deletion(o)
    /\ row \in DeleteRow
    /\ row.subject = rows[o].subject /\ row.expected = rows[o].expected
    /\ row.fence >= rows[o].fence
    /\ rows' = [rows EXCEPT ![o] = row]
    /\ \A c \in calls' : c \in calls \/ (c.op = o /\ c.fence \in 1..row.fence)
    /\ \A w \in wire' : w \in wire \/ w.op = o
    /\ \A w \in wire : w.op # o => w \in wire'
    /\ frozen \subseteq frozen' /\ frozen' \subseteq Subjects
    /\ clients' \subseteq clients
    /\ row.state = "dispatching" =>
          Request(o, "delete") \in wire' \/ account[row.subject] = "gone"
    /\ row.state \in {"provider_confirmed", "completed"} => account[row.subject] = "gone"
    /\ UNCHANGED <<registry, txn, effects, barred, inbox, business, account>>

LEMMA RowKeeps ==
    ASSUME AuthorityInvariant, NEW o \in Ops, NEW row, RowStep(o, row)
    PROVE  AuthorityInvariant'
  <1>1. Types
    BY DEF AuthorityInvariant
  <1>2. /\ user' = user /\ agency' = agency /\ memberOf' = memberOf /\ txn' = txn
        /\ effects' = effects /\ barred' = barred /\ inbox' = inbox
        /\ business' = business /\ account' = account
    BY DEF RowStep, registry
  <1>3. /\ rows' \in [Ops -> Rows]
        /\ rows'[o] = row /\ \A p \in Ops \ {o} : rows'[p] = rows[p]
        /\ row.kind = "delete" /\ rows[o].kind = "delete" /\ rows[o] \in DeleteRow
    BY <1>1, RowKinds DEF RowStep, Types, Rows, DeleteRow, Deletion
  <1>4. /\ \A p \in Ops : rows'[p].kind = rows[p].kind
        /\ \A p \in Ops : rows'[p].kind \in {"change", "delete"} =>
              rows'[p].subject = rows[p].subject /\ rows'[p].expected = rows[p].expected
    BY <1>3 DEF RowStep
  <1>5. \A p \in Ops : (Deletion(p)' <=> Deletion(p)) /\ (Carried(p)' <=> Carried(p))
    BY <1>4 DEF Deletion, Carried
  <1>6. Types'
    <2>1. \A c \in calls' : c.op \in Ops /\ Carried(c.op)' /\ c.fence \in 1..rows'[c.op].fence
      <3> SUFFICES ASSUME NEW c \in calls'
                   PROVE  c.op \in Ops /\ Carried(c.op)' /\ c.fence \in 1..rows'[c.op].fence
        OBVIOUS
      <3>1. row.fence \in Nat /\ rows[o].fence \in Nat /\ row.fence >= rows[o].fence
        BY <1>3 DEF RowStep, DeleteRow
      <3>2. CASE c \in calls
        <4>1. c.op \in Ops /\ Carried(c.op) /\ c.fence \in 1..rows[c.op].fence
          BY <1>1, <3>2 DEF Types
        <4>2. CASE c.op = o
          BY <1>3, <1>5, <3>1, <4>1, <4>2
        <4>3. CASE c.op # o
          BY <1>3, <1>5, <4>1, <4>3
        <4> QED BY <4>2, <4>3
      <3>3. CASE c.op = o /\ c.fence \in 1..row.fence
        BY <1>3, <1>5, <3>3 DEF RowStep, Carried
      <3> QED BY <3>2, <3>3 DEF RowStep
    <2>2. \A w \in wire' : /\ w.op \in Ops /\ Carried(w.op)'
                           /\ w.task = "delete" => Deletion(w.op)'
      BY <1>1, <1>3, <1>5 DEF Types, RowStep, Deletion, Carried
    <2>3. frozen' \subseteq Subjects /\ clients' \subseteq Subjects
      BY <1>1 DEF Types, RowStep
    <2> QED BY <1>1, <1>2, <1>3, <2>1, <2>2, <2>3 DEF Types
  <1>7. (WorldRight /\ RootRemains /\ AgencyNeedsOwner)'
    BY <1>2 DEF AuthorityInvariant, RowStep, WorldRight, RootRemains, AgencyNeedsOwner,
                Registered, Roots, OwnsActive
  <1>8. DeletionHolds'
    BY <1>2 DEF AuthorityInvariant, RowStep, DeletionHolds, Terminal
  <1>9. ASSUME NEW p \in Ops
        PROVE  (Ready(p) /\ ChangeReady(p) /\ DeletionReady(p) /\ Journal(p)
                 /\ DeletionStands(p))'
    <2>1. (Ready(p) /\ ChangeReady(p) /\ DeletionReady(p))'
      BY <1>2 DEF RowStep, LockFree, Ready, ChangeReady, DeletionReady, NoTxn
    <2>2. Journal(p)'
      BY <1>2, <1>4 DEF AuthorityInvariant, Journal, Registered
    <2>3. DeletionStands(p)
      BY DEF AuthorityInvariant
    <2>4. DeletionStands(p)'
      <3> SUFFICES ASSUME Deletion(p)'
                   PROVE  DeletionStands(p)'
        BY DEF DeletionStands
      <3>1. Deletion(p) /\ rows'[p].subject = rows[p].subject
        BY <1>4, <1>5 DEF Deletion
      <3>2. PICK t : t = rows[p].subject
        OBVIOUS
      <3>3. /\ Terminal(t)' /\ t \notin business'
            /\ Members(t)' = Members(t)
            /\ \A m \in Members(t) : user'[m].status = "deleted"
        BY <1>2, <2>3, <3>1, <3>2 DEF DeletionStands, Terminal, Members
      <3>4. rows'[p].state = "dispatching" =>
                Request(p, "delete") \in wire' \/ account'[t] = "gone"
        <4>1. CASE p = o
          BY <1>2, <1>3, <3>1, <3>2, <4>1 DEF RowStep
        <4>2. CASE p # o
          <5>1. Request(p, "delete").op # o
            BY <4>2 DEF Request
          <5> QED BY <1>2, <1>3, <2>3, <3>1, <3>2, <4>2, <5>1 DEF RowStep, DeletionStands
        <4> QED BY <4>1, <4>2
      <3>5. rows'[p].state \in {"provider_confirmed", "completed"} => account'[t] = "gone"
        BY <1>2, <1>3, <2>3, <3>1, <3>2 DEF RowStep, DeletionStands
      <3>6. WorkOf(t)' = {}
        <4>1. row \in DeleteRow /\ WorkOf(t) = {}
          BY <2>3, <3>1, <3>2 DEF RowStep, DeletionStands
        <4> QED BY <1>3, <4>1, LessWork
      <3> QED BY <3>1, <3>2, <3>3, <3>4, <3>5, <3>6
              DEF DeletionStands, Request, Members, WorkOf
    <2> QED BY <2>1, <2>2, <2>4
  <1> QED BY <1>6, <1>7, <1>8, <1>9 DEF AuthorityInvariant

\* A claim: the row's fence grows by one, for the call that begins.
LEMMA ClaimRow ==
    ASSUME NEW o \in Ops, rows[o] \in DeleteRow, NEW task, NEW attempts \in {0, 1},
           NEW state \in {"dispatching", "reconciling"}, Claimed(o, state, task, attempts)
    PROVE  \E row \in DeleteRow :
              /\ rows' = [rows EXCEPT ![o] = row]
              /\ row.subject = rows[o].subject /\ row.expected = rows[o].expected
              /\ row.fence = rows[o].fence + 1 /\ row.state = state
  <1>1. PICK r \in DeleteRow : r = rows[o]
    OBVIOUS
  <1>2. PICK a \in DeleteRow : a = [r EXCEPT !.state = state]
    BY DEF DeleteRow
  <1>3. PICK b \in DeleteRow : b = [a EXCEPT !.fence = r.fence + 1]
    <2>1. r.fence + 1 \in Nat
      BY DEF DeleteRow
    <2> QED BY <2>1 DEF DeleteRow
  <1>4. PICK row \in DeleteRow : row = [b EXCEPT !.attempts = r.attempts + attempts]
    <2>1. r.attempts + attempts \in Nat
      BY DEF DeleteRow
    <2> QED BY <2>1 DEF DeleteRow
  <1>5. /\ row.subject = r.subject /\ row.expected = r.expected
        /\ row.fence = r.fence + 1 /\ row.state = state
    BY <1>2, <1>3, <1>4 DEF DeleteRow
  <1>6. rows' = [rows EXCEPT ![o] = row]
    <2>1. rows' = [rows EXCEPT ![o].state = state, ![o].fence = @ + 1,
                               ![o].attempts = @ + attempts]
      BY DEF Claimed
    <2>2. a.fence = r.fence /\ b.attempts = r.attempts
      BY <1>2, <1>3 DEF DeleteRow
    <2> QED BY <1>1, <1>2, <1>3, <1>4, <2>1, <2>2
  <1> QED BY <1>1, <1>5, <1>6, Zenon

LEMMA ClaimKeeps ==
    ASSUME AuthorityInvariant, NEW o \in Ops, NEW actor \in Subjects,
           ClaimDelete(o, actor) \/ ClaimDeleteObservation(o, actor)
    PROVE  AuthorityInvariant'
  <1>1. PICK state \in {"dispatching", "reconciling"}, task \in {"delete", "observe"},
             attempts \in {0, 1} :
             /\ LockFree /\ Deletion(o)
             /\ Claimed(o, state, task, attempts)
             /\ state = "dispatching" => task = "delete"
             /\ UNCHANGED <<registry, txn, effects, barred, inbox, trade, account>>
    <2>1. CASE ClaimDelete(o, actor)
      BY <2>1 DEF ClaimDelete, Deletion
    <2>2. CASE ClaimDeleteObservation(o, actor)
      BY <2>2 DEF ClaimDeleteObservation, Deletion
    <2> QED BY <2>1, <2>2
  <1>2. Types /\ rows[o] \in DeleteRow
    BY <1>1, RowKinds DEF AuthorityInvariant
  <1>3. PICK r \in DeleteRow : r = rows[o]
    BY <1>2
  <1>4. PICK row \in DeleteRow :
           /\ rows' = [rows EXCEPT ![o] = row]
           /\ row.subject = r.subject /\ row.expected = r.expected
           /\ row.fence = r.fence + 1 /\ row.state = state
    BY <1>1, <1>2, <1>3, ClaimRow
  <1>5. row.fence \in Nat /\ r.fence \in Nat /\ row.fence >= r.fence
    BY <1>4 DEF DeleteRow
  <1>6. calls' = calls \cup {[op |-> o, fence |-> r.fence + 1, task |-> task]}
    BY <1>1, <1>3 DEF Claimed
  <1>7. wire' = IF task = "observe" THEN wire ELSE wire \cup {Request(o, task)}
    BY <1>1 DEF Claimed
  <1>8. \A c \in calls' : c \in calls \/ (c.op = o /\ c.fence \in 1..row.fence)
    BY <1>4, <1>5, <1>6
  <1>9. /\ \A w \in wire' : w \in wire \/ w.op = o
        /\ \A w \in wire : w \in wire'
        /\ state = "dispatching" => Request(o, "delete") \in wire'
    BY <1>1, <1>7 DEF Request
  <1>10. frozen' = frozen /\ clients' = clients /\ frozen \subseteq Subjects
         /\ UNCHANGED <<registry, txn, effects, barred, inbox, business, account>>
    BY <1>1, <1>2 DEF trade, Types
  <1>11. RowStep(o, row)
    BY <1>1, <1>3, <1>4, <1>5, <1>8, <1>9, <1>10 DEF RowStep
  <1> QED BY <1>11, RowKeeps

\* What the ends of a claim write into its row: another state.
Moved(o, state) == rows' = [rows EXCEPT ![o].state = state]

LEMMA StateRow ==
    ASSUME NEW o \in Ops, rows[o] \in DeleteRow,
           NEW state \in {"prepared", "needs_reconciliation", "provider_confirmed", "completed"},
           Moved(o, state)
    PROVE  \E row \in DeleteRow :
              /\ rows' = [rows EXCEPT ![o] = row]
              /\ row.subject = rows[o].subject /\ row.expected = rows[o].expected
              /\ row.fence >= rows[o].fence /\ row.state = state
  <1>1. PICK r \in DeleteRow : r = rows[o]
    OBVIOUS
  <1>2. PICK row : row = [r EXCEPT !.state = state]
    OBVIOUS
  <1>3. /\ row \in DeleteRow /\ row.subject = r.subject /\ row.expected = r.expected
        /\ row.fence = r.fence /\ row.state = state /\ r.fence \in Nat
    BY <1>2 DEF DeleteRow
  <1>4. rows' = [rows EXCEPT ![o] = row]
    BY <1>1, <1>2 DEF Moved
  <1>5. row.fence >= r.fence
    BY <1>3
  <1> QED BY <1>1, <1>3, <1>4, <1>5, Zenon

LEMMA RecoverDeleteKeeps ==
    ASSUME AuthorityInvariant, NEW o \in Ops, NEW actor \in Subjects,
           RecoverDelete(o, actor)
    PROVE  AuthorityInvariant'
  <1>1. /\ LockFree /\ Deletion(o)
        /\ Moved(o, "needs_reconciliation")
        /\ KeepDenied(rows[o].subject)
        /\ UNCHANGED <<registry, txn, calls, effects, barred, inbox, business, provider>>
    BY DEF RecoverDelete, Deletion, Moved
  <1>2. Types /\ rows[o] \in DeleteRow
    BY <1>1, RowKinds DEF AuthorityInvariant
  <1>3. PICK row \in DeleteRow :
           /\ rows' = [rows EXCEPT ![o] = row]
           /\ row.subject = rows[o].subject /\ row.expected = rows[o].expected
           /\ row.fence >= rows[o].fence /\ row.state = "needs_reconciliation"
    BY <1>1, <1>2, StateRow
  <1>4. frozen \subseteq frozen' /\ frozen' \subseteq Subjects /\ clients' \subseteq clients
    BY <1>1, <1>2 DEF KeepDenied, Revoked, Types, DeleteRow
  <1>5. wire' = wire /\ account' = account /\ calls' = calls
    BY <1>1 DEF provider
  <1>6. RowStep(o, row)
    BY <1>1, <1>3, <1>4, <1>5 DEF RowStep
  <1> QED BY <1>6, RowKeeps

LEMMA FinishDeleteKeeps ==
    ASSUME AuthorityInvariant, NEW c \in calls,
           NEW result \in {"confirmed", "not_sent", "unknown"}, FinishDelete(c, result)
    PROVE  AuthorityInvariant'
  <1>1. PICK o : o = c.op
    OBVIOUS
  <1>2. PICK state : state = DeleteResult(o, result)
    OBVIOUS
  <1>3. Types /\ o \in Ops /\ Deletion(o) /\ rows[o] \in DeleteRow /\ DeletionStands(o)
    BY <1>1, RowKinds DEF AuthorityInvariant, Types, FinishDelete, Deletion
  <1>4. /\ LockFree /\ rows[o].state = "dispatching"
        /\ result = "confirmed" => Request(o, "delete") \notin wire
        /\ Moved(o, state)
        /\ wire' = IF result = "not_sent" THEN wire \ {Request(o, "delete")} ELSE wire
        /\ calls' = calls \ {c}
        /\ KeepDenied(rows[o].subject)
        /\ UNCHANGED <<registry, txn, effects, barred, inbox, business, account>>
    BY <1>1, <1>2 DEF FinishDelete, Current, Moved
  <1>5. /\ state \in {"prepared", "needs_reconciliation", "provider_confirmed"}
        /\ state = "provider_confirmed" => result = "confirmed"
    BY <1>2 DEF DeleteResult
  <1>6. PICK row \in DeleteRow :
           /\ rows' = [rows EXCEPT ![o] = row]
           /\ row.subject = rows[o].subject /\ row.expected = rows[o].expected
           /\ row.fence >= rows[o].fence /\ row.state = state
    BY <1>3, <1>4, <1>5, StateRow
  <1>7. frozen \subseteq frozen' /\ frozen' \subseteq Subjects /\ clients' \subseteq clients
    BY <1>3, <1>4 DEF KeepDenied, Revoked, Types, DeleteRow
  <1>8. /\ \A w \in wire' : w \in wire \/ w.op = o
        /\ \A w \in wire : w.op # o => w \in wire'
    BY <1>4 DEF Request
  <1>9. state = "provider_confirmed" => account[row.subject] = "gone"
    BY <1>3, <1>4, <1>5, <1>6 DEF DeletionStands
  <1>10. RowStep(o, row)
    BY <1>3, <1>4, <1>5, <1>6, <1>7, <1>8, <1>9 DEF RowStep
  <1> QED BY <1>3, <1>10, RowKeeps

LEMMA FinishDeleteObservationKeeps ==
    ASSUME AuthorityInvariant, NEW c \in calls, NEW found \in BOOLEAN,
           FinishDeleteObservation(c, found)
    PROVE  AuthorityInvariant'
  <1>1. PICK o : o = c.op
    OBVIOUS
  <1>2. PICK t : t = rows[o].subject
    OBVIOUS
  <1>3. PICK state : state = IF Proved(t, found) THEN "provider_confirmed"
                             ELSE "needs_reconciliation"
    OBVIOUS
  <1>4. Types /\ o \in Ops /\ Deletion(o) /\ rows[o] \in DeleteRow /\ WorldRight
    BY <1>1, RowKinds DEF AuthorityInvariant, Types, FinishDeleteObservation, Deletion
  <1>5. /\ LockFree
        /\ Moved(o, state)
        /\ calls' = calls \ {c}
        /\ KeepDenied(t)
        /\ UNCHANGED <<registry, txn, effects, barred, inbox, business, provider>>
    BY <1>1, <1>2, <1>3 DEF FinishDeleteObservation, Moved
  <1>6. state \in {"needs_reconciliation", "provider_confirmed"}
    BY <1>3
  <1>7. PICK row \in DeleteRow :
           /\ rows' = [rows EXCEPT ![o] = row]
           /\ row.subject = rows[o].subject /\ row.expected = rows[o].expected
           /\ row.fence >= rows[o].fence /\ row.state = state
    BY <1>4, <1>5, <1>6, StateRow
  <1>8. frozen \subseteq frozen' /\ frozen' \subseteq Subjects /\ clients' \subseteq clients
    BY <1>2, <1>4, <1>5 DEF KeepDenied, Revoked, Types, DeleteRow
  <1>9. state = "provider_confirmed" => account[row.subject] = "gone"
    BY <1>2, <1>3, <1>4, <1>7 DEF Proved, WorldRight
  <1>10. wire' = wire /\ account' = account
    BY <1>5 DEF provider
  <1>11. RowStep(o, row)
    BY <1>4, <1>5, <1>6, <1>7, <1>8, <1>9, <1>10 DEF RowStep
  <1> QED BY <1>4, <1>11, RowKeeps

\* The end of a deletion: a person whose account is gone is called deleted.
LEMMA FinalizeDeleteKeeps ==
    ASSUME AuthorityInvariant, NEW o \in Ops, NEW actor \in Subjects,
           FinalizeDelete(o, actor)
    PROVE  AuthorityInvariant'
  <1>1. PICK t : t = rows[o].subject
    OBVIOUS
  <1>2. /\ LockFree /\ Deletion(o) /\ rows[o].state = "provider_confirmed"
        /\ user[t].status = "deleting"
        /\ clients' = clients \ {t}
        /\ user' = [user EXCEPT ![t] = Updated(@, @.role, "deleted", 1)]
        /\ agency' = IF agency[t].status \in {"none", "archived"} THEN agency
                     ELSE [agency EXCEPT ![t] = Marked(@, "archived")]
        /\ rows' = [rows EXCEPT ![o].state = "completed"]
        /\ UNCHANGED <<memberOf, txn, calls, effects, barred, inbox, business, frozen, provider>>
    BY <1>1 DEF FinalizeDelete, Deletion, Revoked
  <1>3. Types /\ rows[o] \in DeleteRow /\ t \in Subjects /\ DeletionStands(o)
    BY <1>1, <1>2, RowKinds DEF AuthorityInvariant, DeleteRow
  <1>4. /\ memberOf' = memberOf /\ txn' = txn /\ calls' = calls /\ effects' = effects
        /\ barred' = barred /\ inbox' = inbox /\ business' = business
        /\ frozen' = frozen /\ account' = account /\ wire' = wire
    BY <1>2 DEF provider
  <1>5. account[t] = "gone"
    BY <1>1, <1>2, <1>3 DEF DeletionStands
  <1>6. /\ user'[t].role = user[t].role /\ user'[t].status = "deleted"
        /\ user'[t].version >= user[t].version
        /\ \A s \in Subjects \ {t} : user'[s] = user[s]
        /\ user' \in [Subjects -> UserRow]
    <2>1. user[t] \in UserRow
      BY <1>3 DEF Types
    <2>2. PICK u : u = Updated(user[t], user[t].role, "deleted", 1)
      OBVIOUS
    <2>3. /\ u \in UserRow /\ u.role = user[t].role /\ u.status = "deleted"
          /\ u.version >= user[t].version
      BY <2>1, <2>2 DEF Updated, UserRow, Statuses
    <2>4. user' = [user EXCEPT ![t] = u]
      BY <1>2, <2>2
    <2> QED BY <1>3, <2>3, <2>4 DEF Types
  <1>7. \A s \in Subjects : /\ user[s].version \in Nat /\ user'[s].version \in Nat
                            /\ user'[s].version >= user[s].version
                            /\ user[s].status = "deleted" => user'[s].status = "deleted"
                            /\ Terminal(s)' <=> Terminal(s)
                            /\ Registered(s)' <=> Registered(s)
    BY <1>2, <1>3, <1>6 DEF Types, UserRow, Terminal, Registered
  <1>8. /\ agency' \in [Subjects -> AgencyRow]
        /\ \A s \in Subjects : agency'[s].status = "active" => s # t /\ agency[s].status = "active"
    <2>1. agency[t] \in AgencyRow /\ agency \in [Subjects -> AgencyRow]
      BY <1>3 DEF Types
    <2>2. PICK a : a = Marked(agency[t], "archived")
      OBVIOUS
    <2>3. a \in AgencyRow /\ a.status = "archived"
      BY <2>1, <2>2 DEF Marked, AgencyRow
    <2>4. agency' = IF agency[t].status \in {"none", "archived"} THEN agency
                    ELSE [agency EXCEPT ![t] = a]
      BY <1>2, <2>2
    <2> QED BY <1>3, <2>1, <2>3, <2>4
  <1>9. PICK row \in DeleteRow :
           /\ rows' = [rows EXCEPT ![o] = row]
           /\ row.subject = rows[o].subject /\ row.expected = rows[o].expected
           /\ row.fence = rows[o].fence /\ row.state = "completed"
    <2>1. PICK r \in DeleteRow : r = rows[o]
      BY <1>3
    <2>2. PICK row : row = [r EXCEPT !.state = "completed"]
      OBVIOUS
    <2>3. /\ row \in DeleteRow /\ row.subject = r.subject /\ row.expected = r.expected
          /\ row.fence = r.fence /\ row.state = "completed"
      BY <2>2 DEF DeleteRow
    <2>4. rows' = [rows EXCEPT ![o] = row]
      BY <1>2, <1>3, <2>1, <2>2 DEF Types
    <2> QED BY <2>1, <2>3, <2>4, Zenon
  <1>10. /\ rows' \in [Ops -> Rows]
         /\ rows'[o] = row /\ \A p \in Ops \ {o} : rows'[p] = rows[p]
         /\ row.kind = "delete" /\ rows[o].kind = "delete"
         /\ \A p \in Ops : rows'[p].kind = rows[p].kind
         /\ \A p \in Ops : rows'[p].kind \in {"change", "delete"} =>
               rows'[p].subject = rows[p].subject /\ rows'[p].expected = rows[p].expected
    BY <1>3, <1>9 DEF Types, Rows, DeleteRow
  <1>11. Types'
    <2>1. \A p \in Ops : (Deletion(p)' <=> Deletion(p)) /\ (Carried(p)' <=> Carried(p))
      BY <1>10 DEF Deletion, Carried
    <2>2. \A c \in calls' : c.op \in Ops /\ Carried(c.op)' /\ c.fence \in 1..rows'[c.op].fence
      BY <1>3, <1>4, <1>9, <1>10, <2>1 DEF Types
    <2>3. \A w \in wire' : /\ w.op \in Ops /\ Carried(w.op)'
                           /\ w.task = "delete" => Deletion(w.op)'
      BY <1>3, <1>4, <2>1 DEF Types
    <2>4. clients' \subseteq Subjects
      BY <1>2, <1>3 DEF Types
    <2> QED BY <1>3, <1>4, <1>6, <1>8, <1>10, <2>2, <2>3, <2>4 DEF Types
  <1>12. RootRemains'
    <2>1. \A s \in Subjects : s \in Roots => s \in Roots'
      BY <1>2, <1>6 DEF Roots
    <2>2. \A s \in Subjects : user[s].role = "superadmin" => user'[s].role = "superadmin"
      BY <1>6
    <2>3. Roots # {} => Roots' # {}
      BY <2>1 DEF Roots
    <2> QED BY <1>4, <2>2, <2>3 DEF AuthorityInvariant, RootRemains
  <1>13. AgencyNeedsOwner'
    BY <1>6, <1>8 DEF AuthorityInvariant, AgencyNeedsOwner, OwnsActive
  <1>14. DeletionHolds'
    <2>1. \A s \in barred' : user'[s].status \notin {"onboarding", "active"} /\ s \notin clients'
      BY <1>2, <1>3, <1>4, <1>6 DEF AuthorityInvariant, DeletionHolds, Types
    <2>2. \A s \in Subjects : Terminal(s)' => s \in frozen' \ clients'
      BY <1>2, <1>4, <1>7 DEF AuthorityInvariant, DeletionHolds
    <2>3. \A s \in Subjects : user'[s].status = "deleted" => account'[s] = "gone"
      BY <1>4, <1>5, <1>6 DEF AuthorityInvariant, DeletionHolds
    <2> QED BY <2>1, <2>2, <2>3 DEF DeletionHolds
  <1>15. WorldRight'
    BY <1>2, <1>3, <1>4, <1>6, <1>7 DEF AuthorityInvariant, WorldRight, Types
  <1>16. ASSUME NEW p \in Ops
         PROVE  (Ready(p) /\ ChangeReady(p) /\ DeletionReady(p) /\ Journal(p)
                  /\ DeletionStands(p))'
    <2>1. (Ready(p) /\ ChangeReady(p) /\ DeletionReady(p))'
      BY <1>2, <1>4 DEF LockFree, Ready, ChangeReady, DeletionReady, NoTxn
    <2>2. Journal(p) /\ DeletionStands(p)
      BY DEF AuthorityInvariant
    <2>3. rows[p].kind \in {"change", "delete"} =>
              rows[p].subject \in Subjects /\ rows[p].expected \in Nat
      BY <1>3, RowKinds DEF ChangeRow, DeleteRow, Deletion
    <2>4. Journal(p)'
      BY <1>7, <1>10, <2>2, <2>3 DEF Journal
    <2>5. DeletionStands(p)'
      <3> SUFFICES ASSUME Deletion(p)'
                   PROVE  DeletionStands(p)'
        BY DEF DeletionStands
      <3>1. Deletion(p) /\ rows'[p].subject = rows[p].subject
        BY <1>10 DEF Deletion
      <3>2. PICK s \in Subjects : s = rows[p].subject
        BY <2>3, <3>1 DEF Deletion
      <3>3. /\ Terminal(s)' /\ s \notin business'
            /\ \A m \in Members(s)' : user'[m].status = "deleted"
        BY <1>4, <1>7, <2>2, <3>1, <3>2 DEF DeletionStands, Members
      <3>4. rows'[p].state = "dispatching" =>
                Request(p, "delete") \in wire' \/ account'[s] = "gone"
        BY <1>4, <1>9, <1>10, <2>2, <3>1, <3>2 DEF DeletionStands
      <3>5. rows'[p].state \in {"provider_confirmed", "completed"} => account'[s] = "gone"
        BY <1>1, <1>4, <1>5, <1>10, <2>2, <3>1, <3>2 DEF DeletionStands
      <3>6. WorkOf(s)' = {}
        <4>1. WorkOf(s) = {}
          BY <2>2, <3>1, <3>2 DEF DeletionStands
        <4> QED BY <1>9, <1>10, <4>1, LessWork
      <3> QED BY <3>1, <3>2, <3>3, <3>4, <3>5, <3>6
              DEF DeletionStands, Request, Members, WorkOf
    <2> QED BY <2>1, <2>4, <2>5
  <1> QED BY <1>11, <1>12, <1>13, <1>14, <1>15, <1>16 DEF AuthorityInvariant

-----------------------------------------------------------------------------
(* The world outside *)

\* Registry and journal stay; business and clients are only opened for a person
\* who is neither barred nor being deleted, outside every transaction, and an
\* account that was made or is gone stays so.
WorldStep ==
    /\ calls' \subseteq calls /\ effects' \subseteq Subjects
    /\ business' \subseteq Subjects /\ clients' \subseteq Subjects
    /\ \A s \in business' : s \in business \/ (LockFree /\ Writable(s))
    /\ \A s \in clients' : s \in clients \/ (Registered(s) /\ Writable(s))
    /\ account' \in [Subjects -> {"none", "live", "gone"}]
    /\ \A s \in Subjects : /\ account[s] = "gone" => account'[s] = "gone"
                           /\ account[s] # "none" => account'[s] # "none"
    /\ wire' \subseteq wire
    /\ \A w \in wire :
          w.task = "delete" => w \in wire' \/ account'[rows[w.op].subject] = "gone"
    /\ UNCHANGED <<registry, txn, rows, barred, inbox, frozen>>

LEMMA WorldKeeps ==
    ASSUME AuthorityInvariant, WorldStep
    PROVE  AuthorityInvariant'
  <1>1. Types
    BY DEF AuthorityInvariant
  <1>2. /\ user' = user /\ agency' = agency /\ memberOf' = memberOf /\ txn' = txn
        /\ rows' = rows /\ barred' = barred /\ inbox' = inbox /\ frozen' = frozen
    BY DEF WorldStep, registry
  <1>3. Types'
    BY <1>1, <1>2 DEF Types, WorldStep, Deletion, Carried
  <1>4. WorldRight'
    BY <1>1, <1>2 DEF AuthorityInvariant, WorldRight, WorldStep, Types, Registered
  <1>5. RootRemains'
    BY <1>2 DEF AuthorityInvariant, RootRemains, Roots, WorldStep
  <1>6. AgencyNeedsOwner'
    BY <1>2 DEF AuthorityInvariant, AgencyNeedsOwner, OwnsActive
  <1>7. DeletionHolds'
    BY <1>2 DEF AuthorityInvariant, DeletionHolds, WorldStep, Terminal, Writable, NotBarred
  <1>8. ASSUME NEW p \in Ops
        PROVE  (Ready(p) /\ ChangeReady(p) /\ DeletionReady(p) /\ Journal(p)
                 /\ DeletionStands(p))'
    <2>1. Ready(p) /\ ChangeReady(p) /\ DeletionReady(p) /\ Journal(p) /\ DeletionStands(p)
      BY DEF AuthorityInvariant
    <2>2. Ready(p)'
      BY <1>2, <2>1 DEF Ready, AnotherRootThan, Roots
    <2>3. ChangeReady(p)'
      BY <1>2, <2>1 DEF ChangeReady, NotBarred, AgencyAfter
    <2>4. DeletionReady(p)'
      <3> SUFFICES ASSUME txn[p].kind = "delete"
                   PROVE  DeletionReady(p)'
        BY <1>2 DEF DeletionReady
      <3>1. txn[p] # NoTxn
        BY DEF NoTxn
      <3>2. ~LockFree
        BY <3>1 DEF LockFree
      <3> QED BY <1>2, <2>1, <3>2 DEF DeletionReady, WorldStep, Members, Deletion, WorkOf
    <2>5. Journal(p)'
      BY <1>2, <2>1 DEF Journal, Registered
    <2>6. DeletionStands(p)'
      <3> SUFFICES ASSUME Deletion(p)
                   PROVE  DeletionStands(p)'
        BY <1>2 DEF DeletionStands, Deletion
      <3>1. PICK t \in Subjects : t = rows[p].subject
        BY <1>1, RowKinds DEF DeleteRow
      <3>2. /\ Terminal(t) /\ t \notin business /\ WorkOf(t) = {}
            /\ \A m \in Members(t) : user[m].status = "deleted"
        BY <2>1, <3>1 DEF DeletionStands
      <3>3. Terminal(t)' /\ t \notin business'
        BY <1>2, <3>2 DEF WorldStep, Writable, Terminal
      <3>4. rows[p].state = "dispatching" =>
                Request(p, "delete") \in wire' \/ account'[t] = "gone"
        BY <2>1, <3>1 DEF DeletionStands, WorldStep, Request
      <3>5. rows[p].state \in {"provider_confirmed", "completed"} => account'[t] = "gone"
        BY <2>1, <3>1 DEF DeletionStands, WorldStep
      <3> QED BY <1>2, <3>1, <3>2, <3>3, <3>4, <3>5
              DEF DeletionStands, Request, Members, WorkOf
    <2> QED BY <2>2, <2>3, <2>4, <2>5, <2>6
  <1> QED BY <1>3, <1>4, <1>5, <1>6, <1>7, <1>8 DEF AuthorityInvariant

LEMMA OutsideKeeps ==
    ASSUME AuthorityInvariant,
           \/ \E s \in Subjects : SettleEffects(s) \/ DeletedElsewhere(s)
           \/ \E s \in Traders : OpenBusiness(s) \/ SettleBusiness(s) \/ OpenClient(s)
           \/ \E w \in wire : ProviderDeletes(w)
           \/ \E c \in calls : LoseCall(c)
    PROVE  AuthorityInvariant'
  <1>1. Types
    BY DEF AuthorityInvariant
  <1>2. /\ effects \subseteq Subjects /\ business \subseteq Subjects
        /\ clients \subseteq Subjects /\ Traders \subseteq Subjects
        /\ account \in [Subjects -> {"none", "live", "gone"}]
    BY <1>1, PeopleAssumption DEF Types
  <1>3. CASE \E s \in Subjects : SettleEffects(s) \/ DeletedElsewhere(s)
    <2>1. PICK s \in Subjects : SettleEffects(s) \/ DeletedElsewhere(s)
      BY <1>3
    <2>2. CASE SettleEffects(s)
      <3>1. WorldStep
        BY <1>2, <2>2 DEF SettleEffects, WorldStep, trade, provider
      <3> QED BY <3>1, WorldKeeps
    <2>3. CASE DeletedElsewhere(s)
      <3>1. WorldStep
        BY <1>2, <2>3 DEF DeletedElsewhere, WorldStep, trade
      <3> QED BY <3>1, WorldKeeps
    <2> QED BY <2>1, <2>2, <2>3
  <1>4. CASE \E s \in Traders : OpenBusiness(s) \/ SettleBusiness(s) \/ OpenClient(s)
    <2>1. PICK s \in Traders : OpenBusiness(s) \/ SettleBusiness(s) \/ OpenClient(s)
      BY <1>4
    <2>2. WorldStep
      BY <1>2, <2>1 DEF OpenBusiness, SettleBusiness, OpenClient, WorldStep, provider
    <2> QED BY <2>2, WorldKeeps
  <1>5. CASE \E w \in wire : ProviderDeletes(w)
    <2>1. PICK w \in wire : ProviderDeletes(w)
      BY <1>5
    <2>2. w.op \in Ops /\ Deletion(w.op) /\ rows[w.op].subject \in Subjects
      BY <1>1, <2>1, RowKinds DEF ProviderDeletes, Types, DeleteRow
    <2>3. account' = [account EXCEPT ![rows[w.op].subject] = "gone"] /\ wire' = wire \ {w}
          /\ UNCHANGED <<registry, txn, rows, calls, effects, barred, inbox, trade>>
      BY <2>1 DEF ProviderDeletes
    <2>4. WorldStep
      BY <1>2, <2>2, <2>3 DEF WorldStep, trade
    <2> QED BY <2>4, WorldKeeps
  <1>6. CASE \E c \in calls : LoseCall(c)
    <2>1. WorldStep
      BY <1>2, <1>6 DEF LoseCall, WorldStep, trade, provider
    <2> QED BY <2>1, WorldKeeps
  <1> QED BY <1>3, <1>4, <1>5, <1>6

-----------------------------------------------------------------------------
(* Creates, invitations and people who arrive *)

\* At most one person becomes a user, who was none, is not barred and has an
\* account; an agency that opens is that of an active b2b, and nobody joins one
\* whose owner is being deleted.
PersonArrives(p) ==
    /\ user' \in [Subjects -> UserRow] /\ agency' \in [Subjects -> AgencyRow]
    /\ memberOf' \in [Subjects -> Subjects \cup {NoSubject}]
    /\ \A s \in Subjects : s # p => user'[s] = user[s]
    /\ user'[p] # user[p] => /\ ~Registered(p) /\ NotBarred(p) /\ account[p] # "none"
                             /\ user'[p].status \in {"onboarding", "active"}
    /\ \A s \in Subjects : agency'[s].status = "active" =>
          OwnsActive(s) \/ (user'[s].role = "b2b" /\ user'[s].status = "active")
    /\ \A s \in Subjects : memberOf'[s] = memberOf[s]
                           \/ (s = p /\ (memberOf'[s] = NoSubject \/ ~Terminal(memberOf'[s])))

\* Creates and invitations are prepared and move on, none of them for a person
\* that is being deleted; requests to delete stay on their way.
IntakeMoves ==
    /\ LockFree /\ rows' \in [Ops -> Rows]
    /\ \A o \in Ops : \/ rows'[o] = rows[o]
                      \/ rows[o] = NoRow /\ rows'[o] \in IntakeRow
                      \/ /\ rows[o] \in IntakeRow /\ rows'[o] \in IntakeRow
                         /\ rows'[o].fence >= rows[o].fence
    /\ \A t \in Subjects : Terminal(t) /\ WorkOf(t) = {} => WorkOf(t)' = {}
    /\ \A c \in calls' : \/ c \in calls
                         \/ /\ c.op \in Ops /\ rows'[c.op].kind \in Intake
                            /\ c.fence \in 1..rows'[c.op].fence
    /\ \A w \in wire' : \/ w \in wire
                        \/ w.op \in Ops /\ rows'[w.op].kind \in Intake /\ w.task # "delete"
    /\ \A w \in wire : w.task = "delete" => w \in wire'
    /\ effects' \subseteq Subjects
    /\ UNCHANGED <<txn, barred, inbox, trade, account>>

LEMMA ArrivalKeeps ==
    ASSUME AuthorityInvariant, NEW p \in Subjects, PersonArrives(p), IntakeMoves
    PROVE  AuthorityInvariant'
  <1>1. Types /\ WorldRight /\ RootRemains /\ AgencyNeedsOwner /\ DeletionHolds
    BY DEF AuthorityInvariant
  <1>2. /\ txn' = txn /\ barred' = barred /\ inbox' = inbox /\ business' = business
        /\ clients' = clients /\ frozen' = frozen /\ account' = account
    BY DEF IntakeMoves, trade
  <1>3. /\ \A s \in Subjects : Registered(s) => user'[s] = user[s]
        /\ \A s \in Subjects : user'[s] # user[s] =>
              s = p /\ user'[s].status \in {"onboarding", "active"}
    BY DEF PersonArrives
  <1>4. ASSUME NEW o \in Ops
        PROVE  /\ rows[o].kind \notin Intake \cup {"none"} => rows'[o] = rows[o]
               /\ rows'[o].kind \notin Intake => rows'[o] = rows[o]
               /\ rows[o].kind \in Intake => /\ rows'[o].kind \in Intake
                                             /\ rows'[o].fence >= rows[o].fence
               /\ rows[o].kind \in Intake => rows[o].fence \in Nat /\ rows'[o].fence \in Nat
    <2>1. CASE rows'[o] = rows[o]
      <3>1. rows[o].kind \in Intake => rows[o].fence \in Nat
        BY <1>1, RowKinds DEF IntakeRow
      <3> QED BY <2>1, <3>1
    <2>2. CASE rows[o] = NoRow /\ rows'[o] \in IntakeRow
      BY <2>2 DEF NoRow, IntakeRow, Intake
    <2>3. CASE /\ rows[o] \in IntakeRow /\ rows'[o] \in IntakeRow
               /\ rows'[o].fence >= rows[o].fence
      BY <2>3 DEF IntakeRow, Intake
    <2> QED BY <2>1, <2>2, <2>3 DEF IntakeMoves
  <1>5. ASSUME NEW o \in Ops
        PROVE  /\ Deletion(o)' <=> Deletion(o)
               /\ rows'[o].kind \in {"change", "delete"} => rows'[o] = rows[o]
               /\ Carried(o) => Carried(o)'
    BY <1>4 DEF Deletion, Carried, Intake
  <1>6. Types'
    <2>1. \A c \in calls' : c.op \in Ops /\ Carried(c.op)' /\ c.fence \in 1..rows'[c.op].fence
      <3> SUFFICES ASSUME NEW c \in calls'
                   PROVE  c.op \in Ops /\ Carried(c.op)' /\ c.fence \in 1..rows'[c.op].fence
        OBVIOUS
      <3>1. CASE c \in calls
        <4>1. c.op \in Ops /\ Carried(c.op) /\ c.fence \in 1..rows[c.op].fence
          BY <1>1, <3>1 DEF Types
        <4>2. CASE rows[c.op].kind \in Intake
          <5>1. PICK m \in Nat, n \in Nat : m = rows[c.op].fence /\ n = rows'[c.op].fence
            BY <1>4, <4>1, <4>2
          <5>2. n >= m
            BY <1>4, <4>1, <4>2, <5>1
          <5> QED BY <1>5, <4>1, <5>1, <5>2
        <4>3. CASE rows[c.op].kind \notin Intake
          <5>1. rows'[c.op] = rows[c.op]
            BY <1>4, <4>1, <4>3 DEF Carried
          <5> QED BY <1>5, <4>1, <5>1
        <4> QED BY <4>2, <4>3
      <3>2. CASE c \notin calls
        BY <3>2 DEF IntakeMoves, Carried, Intake
      <3> QED BY <3>1, <3>2
    <2>2. \A w \in wire' : /\ w.op \in Ops /\ Carried(w.op)'
                           /\ w.task = "delete" => Deletion(w.op)'
      BY <1>1, <1>5 DEF Types, IntakeMoves, Carried, Intake
    <2> QED BY <1>1, <1>2, <2>1, <2>2 DEF Types, PersonArrives, IntakeMoves
  <1>7. WorldRight'
    <2>1. \A s \in clients' : Registered(s)'
      BY <1>1, <1>2, <1>3 DEF WorldRight, Types, Registered
    <2>2. \A s \in barred' : account'[s] = "gone"
      BY <1>1, <1>2 DEF WorldRight
    <2>3. ASSUME NEW s \in Subjects
          PROVE  /\ Registered(s)' => account'[s] # "none"
                 /\ ~Registered(s)' => user'[s].role = "customer"
      BY <1>1, <1>2, <1>3 DEF WorldRight, PersonArrives, Registered
    <2> QED BY <2>1, <2>2, <2>3 DEF WorldRight
  <1>8. RootRemains'
    <2>1. CASE Roots # {}
      <3>1. PICK s \in Subjects : user[s].role = "superadmin" /\ user[s].status = "active"
        BY <2>1 DEF Roots
      <3>2. user'[s] = user[s]
        BY <1>3, <3>1 DEF Registered
      <3> QED BY <3>1, <3>2 DEF RootRemains, Roots
    <2>2. CASE \E s \in Subjects : user[s].role = "superadmin" /\ account[s] = "gone"
      <3>1. PICK s \in Subjects : user[s].role = "superadmin" /\ account[s] = "gone"
        BY <2>2
      <3>2. Registered(s)
        BY <1>1, <3>1 DEF WorldRight
      <3> QED BY <1>2, <1>3, <3>1, <3>2 DEF RootRemains
    <2> QED BY <1>1, <2>1, <2>2 DEF RootRemains
  <1>9. AgencyNeedsOwner'
    <2> SUFFICES ASSUME NEW s \in Subjects, agency'[s].status = "active"
                 PROVE  user'[s].role = "b2b" /\ user'[s].status = "active"
      BY DEF AgencyNeedsOwner, OwnsActive
    <2>1. CASE OwnsActive(s)
      <3>1. user[s].role = "b2b" /\ user[s].status = "active"
        BY <1>1, <2>1 DEF AgencyNeedsOwner
      <3> QED BY <1>3, <3>1 DEF Registered
    <2> QED BY <2>1 DEF PersonArrives
  <1>10. DeletionHolds'
    <2>1. \A s \in barred' : user'[s].status \notin {"onboarding", "active"} /\ s \notin clients'
      BY <1>1, <1>2 DEF DeletionHolds, PersonArrives, NotBarred, Types
    <2>2. \A s \in Subjects : Terminal(s)' => s \in frozen' \ clients'
      BY <1>1, <1>2, <1>3 DEF DeletionHolds, Terminal
    <2>3. \A s \in Subjects : user'[s].status = "deleted" => account'[s] = "gone"
      BY <1>1, <1>2, <1>3 DEF DeletionHolds
    <2> QED BY <2>1, <2>2, <2>3 DEF DeletionHolds
  <1>11. ASSUME NEW o \in Ops
         PROVE  (Ready(o) /\ ChangeReady(o) /\ DeletionReady(o) /\ Journal(o)
                  /\ DeletionStands(o))'
    <2>1. (Ready(o) /\ ChangeReady(o) /\ DeletionReady(o))'
      BY <1>2 DEF IntakeMoves, LockFree, Ready, ChangeReady, DeletionReady, NoTxn
    <2>2. Journal(o) /\ DeletionStands(o)
      BY DEF AuthorityInvariant
    <2>3. Journal(o)'
      <3>1. ASSUME rows'[o].kind \in {"change", "delete"}
            PROVE  /\ Registered(rows[o].subject)'
                   /\ rows'[o].expected < user'[rows'[o].subject].version
        <4>1. PICK r : r = rows[o]
          OBVIOUS
        <4>2. rows'[o] = r /\ r.kind \in {"change", "delete"}
          BY <1>5, <3>1, <4>1
        <4>3. r.subject \in Subjects
          BY <1>1, <4>1, <4>2, RowKinds DEF ChangeRow, DeleteRow, Deletion
        <4>4. Registered(r.subject) /\ r.expected < user[r.subject].version
          BY <2>2, <4>1, <4>2 DEF Journal
        <4>5. user'[r.subject] = user[r.subject]
          BY <1>3, <4>3, <4>4
        <4> QED BY <4>2, <4>4, <4>5 DEF Registered
      <3>2. \A q \in Ops :
               (/\ o # q /\ rows'[o].kind \in {"change", "delete"}
                /\ rows'[q].kind \in {"change", "delete"} /\ rows'[o].subject = rows'[q].subject)
               => rows'[o].expected # rows'[q].expected
        BY <1>5, <2>2 DEF Journal
      <3> QED BY <3>1, <3>2 DEF Journal
    <2>4. DeletionStands(o)'
      <3> SUFFICES ASSUME Deletion(o)'
                   PROVE  DeletionStands(o)'
        BY DEF DeletionStands
      <3>1. rows'[o] = rows[o] /\ Deletion(o)
        BY <1>5 DEF Deletion
      <3>2. PICK t \in Subjects : t = rows[o].subject
        BY <1>1, <3>1, RowKinds DEF DeleteRow
      <3>3. /\ Terminal(t) /\ t \notin business /\ WorkOf(t) = {}
            /\ \A m \in Members(t) : user[m].status = "deleted"
            /\ rows[o].state = "dispatching" =>
                  Request(o, "delete") \in wire \/ account[t] = "gone"
            /\ rows[o].state \in {"provider_confirmed", "completed"} => account[t] = "gone"
        BY <2>2, <3>1, <3>2 DEF DeletionStands
      <3>4. Terminal(t)' /\ t \notin business'
        BY <1>2, <1>3, <3>3 DEF Terminal, Registered
      <3>5. WorkOf(t)' = {}
        BY <3>3 DEF IntakeMoves
      <3>6. \A m \in Members(t)' : user'[m].status = "deleted"
        <4> SUFFICES ASSUME NEW m \in Subjects, memberOf'[m] = t
                     PROVE  user'[m].status = "deleted"
          BY DEF Members
        <4>1. memberOf[m] = t
          BY <3>3, PeopleAssumption DEF PersonArrives
        <4>2. user[m].status = "deleted"
          BY <3>3, <4>1 DEF Members
        <4> QED BY <1>3, <4>2 DEF Registered
      <3>7. rows'[o].state = "dispatching" =>
                Request(o, "delete") \in wire' \/ account'[t] = "gone"
        BY <1>2, <3>1, <3>3 DEF IntakeMoves, Request
      <3>8. rows'[o].state \in {"provider_confirmed", "completed"} => account'[t] = "gone"
        BY <1>2, <3>1, <3>3
      <3>9. rows'[o].subject = t
        BY <3>1, <3>2
      <3> QED BY <3>4, <3>5, <3>6, <3>7, <3>8, <3>9 DEF DeletionStands, Request, Members, WorkOf
    <2> QED BY <2>1, <2>3, <2>4
  <1> QED BY <1>6, <1>7, <1>8, <1>9, <1>10, <1>11 DEF AuthorityInvariant

-----------------------------------------------------------------------------
(* Every reachable state *)

LEMMA AuthorityInit ==
    ASSUME Init
    PROVE  AuthorityInvariant
  <1> USE PeopleAssumption DEF Init
  <1>1. \A s \in Subjects :
           /\ s \in DOMAIN Roles0 =>
                 user[s].role = Roles0[s] /\ user[s].status = "active" /\ user[s].version = 1
           /\ s \notin DOMAIN Roles0 =>
                 user[s].role = "customer" /\ user[s].status = "absent" /\ user[s].version = 0
           /\ user[s] \in UserRow
    BY DEF Absent, UserRow, Roles, Statuses
  <1>2. user \in [Subjects -> UserRow]
    BY <1>1
  <1>3. /\ agency \in [Subjects -> AgencyRow]
        /\ \A s \in Subjects : agency[s].status = "active" => user[s].role = "b2b"
    BY DEF NoAgency, AgencyRow
  <1>4. /\ \A o \in Ops : txn[o] = NoTxn /\ rows[o] = NoRow
        /\ calls = {} /\ wire = {} /\ clients = {} /\ barred = {} /\ business = {}
    OBVIOUS
  <1>5. Types
    BY <1>2, <1>3 DEF Types, Rows
  <1>6. RootRemains
    <2>1. PICK s \in DOMAIN Roles0 : Roles0[s] = "superadmin"
      BY BootstrapAssumption
    <2>2. s \in Roots
      BY <1>1, <2>1 DEF Roots
    <2> QED BY <2>2 DEF RootRemains
  <1>7. AgencyNeedsOwner
    BY <1>1, <1>3 DEF AgencyNeedsOwner, OwnsActive
  <1>8. DeletionHolds
    BY <1>1, <1>4 DEF DeletionHolds, Terminal
  <1>9. \A o \in Ops : /\ Ready(o) /\ ChangeReady(o) /\ DeletionReady(o)
                       /\ Journal(o) /\ DeletionStands(o)
    BY <1>4 DEF Ready, ChangeReady, DeletionReady, Journal, DeletionStands, Deletion,
                NoTxn, NoRow
  <1>10. WorldRight
    BY <1>1, <1>4 DEF WorldRight, Registered
  <1> QED BY <1>5, <1>6, <1>7, <1>8, <1>9, <1>10 DEF AuthorityInvariant

LEMMA AuthorityNext ==
    ASSUME AuthorityInvariant, [NextAuthority]_vars
    PROVE  AuthorityInvariant'
  <1>1. ASSUME NEW o \in Ops, NEW a \in Subjects, NEW t \in Subjects,
               \/ \E c \in Changes, e \in 1..user[t].version : BeginChange(o, a, t, e, c)
               \/ \E e \in 1..user[t].version : BeginDeletion(o, a, t, e)
        PROVE  AuthorityInvariant'
    BY <1>1, BeginChangeKeeps, BeginDeletionKeeps
  <1>2. ASSUME NEW o \in Ops, CommitChange(o) \/ CommitDeletion(o)
        PROVE  AuthorityInvariant'
    BY <1>2, CommitChangeKeeps, CommitDeletionKeeps
  <1>3. ASSUME NEW o \in Ops, NEW a \in Subjects,
               \/ ClaimDelete(o, a) \/ ClaimDeleteObservation(o, a)
               \/ RecoverDelete(o, a) \/ FinalizeDelete(o, a)
        PROVE  AuthorityInvariant'
    BY <1>3, ClaimKeeps, RecoverDeleteKeeps, FinalizeDeleteKeeps
  <1>4. ASSUME NEW c \in calls,
               \/ \E r \in {"confirmed", "not_sent", "unknown"} : FinishDelete(c, r)
               \/ \E found \in BOOLEAN : FinishDeleteObservation(c, found)
               \/ LoseCall(c)
        PROVE  AuthorityInvariant'
    <2>1. (\E r \in {"confirmed", "not_sent", "unknown"} : FinishDelete(c, r))
             => AuthorityInvariant'
      BY FinishDeleteKeeps
    <2>2. (\E found \in BOOLEAN : FinishDeleteObservation(c, found)) => AuthorityInvariant'
      BY FinishDeleteObservationKeeps
    <2>3. LoseCall(c) => AuthorityInvariant'
      BY OutsideKeeps
    <2> QED BY <1>4, <2>1, <2>2, <2>3
  <1>5. ASSUME NEW s \in Subjects,
               \/ IngestDeleted(s) \/ IngestUpdated(s)
               \/ ClaimEvent(s) \/ ExpireEvent(s) \/ RetryEvent(s)
               \/ \E r \in {"live", "gone", "unavailable", "skipped"} : FinishEvent(s, r)
        PROVE  AuthorityInvariant'
    BY <1>5, IngestDeletedKeeps, InboxKeeps, FinishEventKeeps
  <1>6. ASSUME \/ \E s \in Subjects : SettleEffects(s) \/ DeletedElsewhere(s)
               \/ \E s \in Traders : OpenBusiness(s) \/ SettleBusiness(s) \/ OpenClient(s)
               \/ \E w \in wire : ProviderDeletes(w)
        PROVE  AuthorityInvariant'
    BY <1>6, OutsideKeeps
  <1>7. ASSUME UNCHANGED vars
        PROVE  AuthorityInvariant'
    <2>1. WorldStep
      BY <1>7 DEF vars, WorldStep, AuthorityInvariant, Types, registry, trade, provider
    <2> QED BY <2>1, WorldKeeps
  <1> QED BY <1>1, <1>2, <1>3, <1>4, <1>5, <1>6, <1>7 DEF NextAuthority

LEMMA AuthorityAlways == SpecAuthority => []AuthorityInvariant
  <1>1. Init => AuthorityInvariant
    BY AuthorityInit
  <1>2. AuthorityInvariant /\ [NextAuthority]_vars => AuthorityInvariant'
    BY AuthorityNext
  <1> QED BY <1>1, <1>2, PTL DEF SpecAuthority

-----------------------------------------------------------------------------
(* What it gives *)

LEMMA VersionsDiffer ==
    ASSUME AuthorityInvariant
    PROVE  OneChangePerVersion
  <1>1. Types
    BY DEF AuthorityInvariant
  <1>2. \A o \in Ops : rows[o].kind # "none" => txn[o] = NoTxn
    BY DEF AuthorityInvariant, Ready, NoRow
  <1>3. \A s \in Subjects : inbox[s].attempts \in 0..MaxAttempts
    <2>1. 0 \in 0..MaxAttempts
      BY LimitsAssumption
    <2> QED BY <1>1, <2>1 DEF Types, NoEvent, Event
  <1>4. AuthorityTypeOK
    BY <1>1, <1>2, <1>3 DEF Types, AuthorityTypeOK, UserRow, AgencyRow, Statuses
  <1>5. \A o, p \in Ops :
           (/\ o # p /\ {rows[o].kind, rows[p].kind} \subseteq {"change", "delete"}
            /\ rows[o].subject = rows[p].subject) => rows[o].expected # rows[p].expected
    BY DEF AuthorityInvariant, Journal
  <1> QED BY <1>4, <1>5 DEF OneChangePerVersion

LEMMA NothingIsLeft ==
    ASSUME AuthorityInvariant
    PROVE  NothingLeftBehind
  <1> SUFFICES ASSUME NEW o \in Ops, rows[o].kind = "delete"
               PROVE  /\ rows[o].subject \notin business
                      /\ \A m \in Members(rows[o].subject) : user[m].status = "deleted"
                      /\ WorkOf(rows[o].subject) = {}
    BY DEF NothingLeftBehind
  <1> QED BY DEF AuthorityInvariant, DeletionStands, Deletion

\* Administrators cannot leave the portal without a superadmin, whoever changes
\* or deletes whom at the same time (begin_mutation, guard_last_superadmin):
\* when none is active, the account of one is gone at the provider.
THEOREM SuperadminRemains == SpecAuthority => []RootRemains
  <1>1. AuthorityInvariant => RootRemains
    BY DEF AuthorityInvariant
  <1> QED BY <1>1, AuthorityAlways, PTL

\* Two decisions that were made on one version of a person's row are not both
\* carried out (the comparison of the expected version in change and prepare,
\* and the version every write bumps); and the rows keep their types.
THEOREM DecisionsAreOnCurrentRows == SpecAuthority => []OneChangePerVersion
  <1>1. AuthorityInvariant => OneChangePerVersion
    BY VersionsDiffer
  <1> QED BY <1>1, AuthorityAlways, PTL

\* An agency is open only while its owner is an active b2b, whatever change,
\* reactivate, contain, prepare and finalize do to either of them, in any order.
THEOREM AgencyClosesWithOwner == SpecAuthority => []AgencyNeedsOwner
  <1>1. AuthorityInvariant => AgencyNeedsOwner
    BY DEF AuthorityInvariant
  <1> QED BY <1>1, AuthorityAlways, PTL

\* Who was denied stays denied: a person the provider reported as deleted never
\* acts again, one the portal is deleting has no client and a frozen wallet, and
\* is called deleted only when its account is gone (contain, prepare, finalize).
THEOREM DeniedStaysDenied == SpecAuthority => []DeletionHolds
  <1>1. AuthorityInvariant => DeletionHolds
    BY DEF AuthorityInvariant
  <1> QED BY <1>1, AuthorityAlways, PTL

\* From the moment a deletion is prepared its person has no open business, its
\* agency no live sub-user, and no unfinished work (dependencies in deletions.rs,
\* and the barrier of migration 0042 that keeps it so).
THEOREM DeletionLeavesNothing == SpecAuthority => []NothingLeftBehind
  <1>1. AuthorityInvariant => NothingLeftBehind
    BY NothingIsLeft
  <1> QED BY <1>1, AuthorityAlways, PTL

-----------------------------------------------------------------------------
(* Accounts: the inductive invariant *)

\* What a create and an invitation keep from their preparation on.
SameIntent(r, q) ==
    /\ r.kind = q.kind /\ r.issuer = q.issuer /\ r.person = q.person
    /\ r.role = q.role /\ r.owner = q.owner /\ r.version = q.version

RowRight(r) ==
    /\ r.kind \in Intake => (r.role = "b2b_sub") = (r.owner # NoSubject)
    /\ r.kind = "create" => r.state \in CreateStates /\ ~r.revoked
    /\ r.kind = "invite" => r.state \in InviteStates

AccountTypes ==
    /\ user \in [Subjects -> UserRow]
    /\ agency \in [Subjects -> AgencyRow]
    /\ memberOf \in [Subjects -> Subjects \cup {NoSubject}]
    /\ txn \in [Ops -> {NoTxn} \cup ChangeTxn \cup DeleteTxn]
    /\ rows \in [Ops -> Rows]
    /\ remote \in [Ops -> {"none", "made", "pending", "accepted", "revoked", "expired"}]

Wired(o) == {w \in wire : w.op = o}

CallsRight ==
    \A c \in calls : /\ c.op \in Ops /\ rows[c.op].kind \in Intake \cup {"delete"}
                     /\ rows[c.op].kind = "invite" =>
                           c.task \in DOMAIN StateOfTask /\ c.from # "not_sent"

WireRight ==
    \A w \in wire : /\ w \in [op : Ops, task : {"create", "issue", "revoke", "delete"}]
                    /\ rows[w.op].kind = "create" => w.task = "create"
                    /\ rows[w.op].kind = "invite" => w.task \in {"issue", "revoke"}
                    /\ rows[w.op].kind \notin Intake => w.task = "delete"
                    /\ w.task \in {"create", "issue"} => remote[w.op] = "none"

\* A proof of the provider, once shown, stays true.
LooksRight ==
    \A l \in looks : /\ l.op \in Ops
                     /\ \/ l.saw = "live" /\ rows[l.op].kind = "create"
                        \/ /\ l.saw \in {"accepted", "revoked", "expired"}
                           /\ rows[l.op].kind = "invite"
                     /\ l.saw = "accepted" => remote[l.op] = "accepted"

\* One transaction runs at a time, and its person stays registered until it writes.
TxnRight ==
    \A o \in Ops : txn[o] # NoTxn => /\ user[txn[o].target].status \in Alive
                                     /\ rows[o] = NoRow
                                     /\ \A p \in Ops : txn[p] # NoTxn => p = o

Untouched(o) == remote[o] = "none" /\ Wired(o) = {}

OpSafe(o) ==
    /\ RowRight(rows[o])
    /\ rows[o].kind \in {"none", "change"} => Untouched(o)
    /\ rows[o].kind \in Intake /\ rows[o].state \in {"prepared", "cancelled"} => Untouched(o)
    /\ rows[o].kind = "create" /\ rows[o].state = "provider_confirmed" => remote[o] = "made"
    /\ rows[o].kind = "invite" /\ rows[o].state \in {"issuing", "observing_issue", "issue_unknown"}
          => \A w \in Wired(o) : w.task = "issue"

OnePerPerson ==
    \A o, p \in Ops :
        (Unfinished(rows[o]) /\ Unfinished(rows[p]) /\ rows[o].person = rows[p].person) => o = p

\* Whoever the provider made an account for, or took an acceptance from, has one;
\* nobody else makes a user of a person whose account is on its way.
ArrivalsRight ==
    \A o \in Ops : rows[o].kind \in Intake =>
        /\ remote[o] \in {"made", "accepted"} => account[rows[o].person] # "none"
        /\ remote[o] = "made" /\ Unfinished(rows[o]) => ~Registered(rows[o].person)

Bounded(s) == IsFiniteSet(People(s)) /\ Cardinality(People(s)) <= MaxMembers

Started == {o \in Ops : rows[o] # NoRow}

PlacesRight == IsFiniteSet(Started) /\ \A s \in Subjects : Bounded(s)

AccountsInvariant ==
    /\ AccountTypes /\ CallsRight /\ WireRight /\ LooksRight /\ TxnRight
    /\ \A o \in Ops : OpSafe(o)
    /\ OnePerPerson /\ PlacesRight /\ ArrivalsRight

-----------------------------------------------------------------------------
(* What every step keeps *)

LEMMA FewerPeople ==
    ASSUME NEW s, Bounded(s), People(s)' \subseteq People(s)
    PROVE  Bounded(s)'
  <1>1. /\ IsFiniteSet(People(s)') /\ Cardinality(People(s)') <= Cardinality(People(s))
        /\ Cardinality(People(s)') \in Nat /\ Cardinality(People(s)) \in Nat
    BY FS_Subset, FS_CardinalityType DEF Bounded
  <1> QED BY <1>1, MembersAssumption DEF Bounded

LEMMA IntakeRows ==
    ASSUME AccountTypes, NEW o \in Ops
    PROVE  /\ rows[o].kind \in Intake <=> rows[o] \in IntakeRow
           /\ rows[o].kind = "delete" <=> rows[o] \in DeleteRow
           /\ rows[o].kind = "change" <=> rows[o] \in ChangeRow
           /\ rows[o].kind = "none" <=> rows[o] = NoRow
           /\ Unfinished(rows[o]) => rows[o] \in IntakeRow
           /\ rows[o].kind \in {"none", "change", "delete"} \cup Intake
  <1>1. rows[o] \in {NoRow} \cup ChangeRow \cup DeleteRow \cup IntakeRow
    BY DEF AccountTypes, Rows
  <1>2. ASSUME rows[o] = NoRow
        PROVE  rows[o].kind = "none"
    BY <1>2 DEF NoRow
  <1>3. ASSUME rows[o] \in ChangeRow
        PROVE  rows[o].kind = "change"
    BY <1>3 DEF ChangeRow
  <1>4. ASSUME rows[o] \in DeleteRow
        PROVE  rows[o].kind = "delete"
    BY <1>4 DEF DeleteRow
  <1>5. ASSUME rows[o] \in IntakeRow
        PROVE  rows[o].kind \in {"create", "invite"}
    BY <1>5 DEF IntakeRow, Intake
  <1> QED BY <1>1, <1>2, <1>3, <1>4, <1>5 DEF Intake, Unfinished

\* A step of an administrator, the inbox or a deletion changes no create and no
\* invitation, makes nobody a user, and brings nobody back.
UserMoves ==
    /\ user' \in [Subjects -> UserRow] /\ agency' \in [Subjects -> AgencyRow]
    /\ memberOf' = memberOf
    /\ \A s \in Subjects : /\ user[s].status = "absent" <=> user'[s].status = "absent"
                           /\ user[s].status = "deleted" => user'[s].status = "deleted"

RowMoves(r, q) ==
    \/ q = r
    \/ r = NoRow /\ q \in ChangeRow \cup DeleteRow
    \/ r \in DeleteRow /\ q \in DeleteRow

AuthorityMoves ==
    /\ UserMoves
    /\ txn' \in [Ops -> {NoTxn} \cup ChangeTxn \cup DeleteTxn] /\ TxnRight'
    /\ rows' \in [Ops -> Rows]
    /\ \A o \in Ops : RowMoves(rows[o], rows'[o])
    /\ \E x : Started' \subseteq Started \cup {x}
    /\ \A c \in calls' : c \in calls \/ (c.op \in Ops /\ rows[c.op].kind = "delete")
    /\ \A w \in wire' : \/ w \in wire
                        \/ w \in [op : Ops, task : {"delete"}] /\ rows[w.op].kind = "delete"
    /\ remote' = remote /\ looks' = looks

AccountsStay == \A s \in Subjects : account[s] # "none" => account'[s] # "none"

LEMMA AuthorityMovesKeep ==
    ASSUME AccountsInvariant, AuthorityMoves, AccountsStay
    PROVE  AccountsInvariant' /\ AdmittedByAuthority
  <1>1. AccountTypes /\ AccountTypes'
    BY DEF AccountsInvariant, AccountTypes, AuthorityMoves, UserMoves
  <1>2. ASSUME NEW o \in Ops
        PROVE  /\ rows'[o].kind \in Intake \/ rows[o].kind \in Intake => rows'[o] = rows[o]
               /\ \/ rows'[o].kind = rows[o].kind
                  \/ rows[o].kind = "none" /\ rows'[o].kind \in {"change", "delete"}
               /\ Unfinished(rows'[o]) <=> Unfinished(rows[o])
               /\ rows'[o].kind \in {"none", "change"} => rows[o].kind \in {"none", "change"}
    <2>1. RowMoves(rows[o], rows'[o])
      BY DEF AuthorityMoves
    <2>2. CASE rows'[o] = rows[o]
      BY <2>2 DEF Unfinished
    <2>3. CASE rows[o] = NoRow /\ rows'[o] \in ChangeRow
      BY <2>3 DEF NoRow, ChangeRow, Unfinished, Intake
    <2>4. CASE rows[o] = NoRow /\ rows'[o] \in DeleteRow
      BY <2>4 DEF NoRow, DeleteRow, Unfinished, Intake
    <2>5. CASE rows[o] \in DeleteRow /\ rows'[o] \in DeleteRow
      BY <2>5 DEF DeleteRow, Unfinished, Intake
    <2> QED BY <2>1, <2>2, <2>3, <2>4, <2>5 DEF RowMoves
  <1>3. CallsRight'
    <2>1. \A c \in calls : c.op \in Ops /\ rows[c.op].kind \in {"create", "invite", "delete"}
      BY DEF AccountsInvariant, CallsRight, Intake
    <2> QED BY <1>2, <2>1 DEF AccountsInvariant, CallsRight, AuthorityMoves, Intake
  <1>4. WireRight'
    <2> SUFFICES ASSUME NEW w \in wire'
                 PROVE  /\ w \in [op : Ops, task : {"create", "issue", "revoke", "delete"}]
                        /\ rows'[w.op].kind = "create" => w.task = "create"
                        /\ rows'[w.op].kind = "invite" => w.task \in {"issue", "revoke"}
                        /\ rows'[w.op].kind \notin Intake => w.task = "delete"
                        /\ w.task \in {"create", "issue"} => remote[w.op] = "none"
      BY DEF WireRight, AuthorityMoves
    <2>1. CASE w \in wire
      <3>1. WireRight
        BY DEF AccountsInvariant
      <3>2. w.op \in Ops
        BY <2>1, <3>1 DEF WireRight
      <3> QED BY <1>2, <2>1, <3>1, <3>2 DEF WireRight, Intake
    <2>2. CASE w \in [op : Ops, task : {"delete"}] /\ rows[w.op].kind = "delete"
      <3>1. rows'[w.op].kind = "delete"
        BY <1>2, <2>2
      <3> QED BY <2>2, <3>1
    <2> QED BY <2>1, <2>2 DEF AuthorityMoves
  <1>5. LooksRight'
    BY <1>2 DEF AccountsInvariant, LooksRight, AuthorityMoves
  <1>6. ASSUME NEW o \in Ops
        PROVE  OpSafe(o)'
    <2>1. OpSafe(o) /\ WireRight
      BY DEF AccountsInvariant
    <2>2. rows[o].kind # "delete" => Wired(o)' \subseteq Wired(o)
      BY DEF Wired, AuthorityMoves
    <2>3. remote' = remote
      BY DEF AuthorityMoves
    <2>4. CASE rows[o].kind \in Intake
      <3>1. rows'[o] = rows[o] /\ rows[o].kind # "delete"
        BY <1>2, <2>4 DEF Intake
      <3> QED BY <2>1, <2>2, <2>3, <3>1 DEF OpSafe, Untouched
    <2>5. CASE rows[o].kind \notin Intake
      <3>1. rows'[o].kind \notin Intake
        BY <1>2, <2>5
      <3>2. rows'[o].kind \in {"none", "change"} => rows[o].kind \in {"none", "change"}
        BY <1>2
      <3> QED BY <2>1, <2>2, <2>3, <3>1, <3>2 DEF OpSafe, Untouched, RowRight, Intake
    <2> QED BY <2>4, <2>5
  <1>7. OnePerPerson'
    <2>1. ASSUME NEW o \in Ops, NEW p \in Ops, Unfinished(rows'[o]), Unfinished(rows'[p]),
                 rows'[o].person = rows'[p].person
          PROVE  o = p
      <3>1. rows'[o] = rows[o] /\ rows'[p] = rows[p]
        BY <1>2, <2>1 DEF Unfinished, Intake
      <3> QED BY <2>1, <3>1 DEF AccountsInvariant, OnePerPerson
    <2> QED BY <2>1 DEF OnePerPerson
  <1>8. PlacesRight'
    <2>1. IsFiniteSet(Started')
      <3>1. PICK x : Started' \subseteq Started \cup {x}
        BY DEF AuthorityMoves
      <3>2. IsFiniteSet(Started \cup {x})
        BY FS_AddElement DEF AccountsInvariant, PlacesRight
      <3> QED BY <3>1, <3>2, FS_Subset
    <2>2. ASSUME NEW s \in Subjects
          PROVE  People(s)' \subseteq People(s)
      <3>1. \A o \in Ops : Unfinished(rows'[o]) => rows'[o] = rows[o]
        BY <1>2 DEF Unfinished, Intake
      <3> QED BY <3>1 DEF People, AuthorityMoves, UserMoves
    <2> QED BY <2>1, <2>2, FewerPeople DEF AccountsInvariant, PlacesRight
  <1>9. AdmittedByAuthority
    BY DEF AdmittedByAuthority, NewlyGranted, AuthorityMoves, UserMoves
  <1>10. TxnRight'
    BY DEF AuthorityMoves
  <1>11. ArrivalsRight'
    <2> SUFFICES ASSUME NEW o \in Ops, rows'[o].kind \in Intake
                 PROVE  /\ remote'[o] \in {"made", "accepted"} =>
                              account'[rows'[o].person] # "none"
                        /\ remote'[o] = "made" /\ Unfinished(rows'[o]) =>
                              user'[rows'[o].person].status = "absent"
      BY DEF ArrivalsRight, Registered
    <2>1. rows'[o] = rows[o] /\ rows[o].kind \in Intake
      BY <1>2
    <2>2. PICK p \in Subjects : p = rows[o].person
      BY <1>1, <2>1, IntakeRows DEF IntakeRow
    <2>3. /\ remote[o] \in {"made", "accepted"} => account[p] # "none"
          /\ remote[o] = "made" /\ Unfinished(rows[o]) => user[p].status = "absent"
      BY <2>1, <2>2 DEF AccountsInvariant, ArrivalsRight, Registered
    <2>4. /\ account[p] # "none" => account'[p] # "none"
          /\ user[p].status = "absent" => user'[p].status = "absent"
          /\ remote' = remote /\ rows'[o].person = p
      BY <2>1, <2>2 DEF AuthorityMoves, UserMoves, AccountsStay
    <2> QED BY <2>1, <2>3, <2>4
  <1> QED BY <1>1, <1>3, <1>4, <1>5, <1>6, <1>7, <1>8, <1>9, <1>10, <1>11
          DEF AccountsInvariant

\* Steps that touch neither people nor rows.
LEMMA QuietMoves ==
    ASSUME AccountsInvariant, UNCHANGED <<registry, txn, rows, remote, looks>>,
           calls' \subseteq calls, wire' \subseteq wire
    PROVE  AuthorityMoves
  <1>1. /\ user' = user /\ agency' = agency /\ memberOf' = memberOf /\ txn' = txn
        /\ rows' = rows /\ remote' = remote /\ looks' = looks
    BY DEF registry
  <1>2. AccountTypes /\ TxnRight
    BY DEF AccountsInvariant
  <1>3. UserMoves
    BY <1>1, <1>2 DEF UserMoves, AccountTypes
  <1>4. TxnRight'
    BY <1>1, <1>2 DEF TxnRight
  <1>5. (\A o \in Ops : RowMoves(rows[o], rows'[o])) /\ Started' = Started
    BY <1>1 DEF RowMoves, Started
  <1>6. \E x : Started' \subseteq Started \cup {x}
    BY <1>5
  <1> QED BY <1>1, <1>2, <1>3, <1>4, <1>5, <1>6 DEF AuthorityMoves, AccountTypes

LEMMA QuietActionMoves ==
    ASSUME AccountsInvariant, UNCHANGED <<remote, looks>>,
           \/ \E s \in Subjects : \/ IngestUpdated(s) \/ ClaimEvent(s) \/ ExpireEvent(s)
                                  \/ RetryEvent(s) \/ SettleEffects(s) \/ DeletedElsewhere(s)
           \/ \E s \in Traders : OpenBusiness(s) \/ SettleBusiness(s) \/ OpenClient(s)
           \/ \E c \in calls : LoseCall(c)
           \/ \E w \in wire : ProviderDeletes(w)
    PROVE  AuthorityMoves
  <1>1. /\ UNCHANGED <<registry, txn, rows, remote, looks>>
        /\ calls' \subseteq calls /\ wire' \subseteq wire
    <2>1. CASE \E s \in Subjects : \/ IngestUpdated(s) \/ ClaimEvent(s) \/ ExpireEvent(s)
                                   \/ RetryEvent(s) \/ SettleEffects(s) \/ DeletedElsewhere(s)
      BY <2>1 DEF IngestUpdated, ClaimEvent, ExpireEvent, RetryEvent, SettleEffects,
                  DeletedElsewhere, provider
    <2>2. CASE \E s \in Traders : OpenBusiness(s) \/ SettleBusiness(s) \/ OpenClient(s)
      BY <2>2 DEF OpenBusiness, SettleBusiness, OpenClient, provider
    <2>3. CASE \E c \in calls : LoseCall(c)
      BY <2>3 DEF LoseCall, provider
    <2>4. CASE \E w \in wire : ProviderDeletes(w)
      BY <2>4 DEF ProviderDeletes
    <2> QED BY <2>1, <2>2, <2>3, <2>4
  <1> QED BY <1>1, QuietMoves

LEMMA BeginMoves ==
    ASSUME AccountsInvariant, NEW o \in Ops, NEW x \in ChangeTxn \cup DeleteTxn,
           BeginStep(o, x), user[x.target].status \in Alive, UNCHANGED <<remote, looks>>
    PROVE  AuthorityMoves
  <1>1. /\ user' = user /\ agency' = agency /\ memberOf' = memberOf
        /\ rows' = rows /\ remote' = remote /\ looks' = looks /\ calls' = calls
        /\ wire' = wire /\ rows[o] = NoRow /\ txn' = [txn EXCEPT ![o] = x]
    BY DEF BeginStep, registry, provider
  <1>2. AccountTypes /\ TxnRight
    BY DEF AccountsInvariant
  <1>3. UserMoves
    BY <1>1, <1>2 DEF UserMoves, AccountTypes
  <1>4. /\ txn' \in [Ops -> {NoTxn} \cup ChangeTxn \cup DeleteTxn]
        /\ txn'[o] = x /\ \A p \in Ops \ {o} : txn'[p] = NoTxn
    BY <1>1, <1>2 DEF AccountTypes, BeginStep, LockFree
  <1>5. TxnRight'
    BY <1>1, <1>2, <1>4 DEF TxnRight
  <1>6. (\A p \in Ops : RowMoves(rows[p], rows'[p])) /\ Started' = Started
    BY <1>1 DEF RowMoves, Started
  <1>7. \E y : Started' \subseteq Started \cup {y}
    BY <1>6
  <1> QED BY <1>1, <1>2, <1>3, <1>4, <1>5, <1>6, <1>7 DEF AuthorityMoves, AccountTypes

LEMMA BeginActionMoves ==
    ASSUME AccountsInvariant, UNCHANGED <<remote, looks>>, NEW o \in Ops,
           NEW actor \in Subjects, NEW target \in Subjects,
           NEW expected \in 1..user[target].version,
           \/ \E c \in Changes : BeginChange(o, actor, target, expected, c)
           \/ BeginDeletion(o, actor, target, expected)
    PROVE  AuthorityMoves
  <1>1. user[target] \in UserRow
    BY DEF AccountsInvariant, AccountTypes
  <1>2. expected \in Nat
    BY <1>1 DEF UserRow
  <1>3. CASE \E c \in Changes : BeginChange(o, actor, target, expected, c)
    <2>1. PICK c \in Changes : BeginChange(o, actor, target, expected, c)
      BY <1>3
    <2>2. user[target].status \in Alive
      BY <1>1, <2>1 DEF BeginChange, InScope, Terminal, Registered, UserRow, Statuses, Alive
    <2>3. PICK x : x = [kind |-> "change", target |-> target, expected |-> expected,
                        action |-> c.action, role |-> Outcome(target, c)[1],
                        status |-> Outcome(target, c)[2]]
      OBVIOUS
    <2>4. x \in ChangeTxn /\ x.target = target
      BY <1>1, <1>2, <2>2, <2>3, OutcomeTypes DEF ChangeTxn
    <2>5. BeginStep(o, x)
      BY <2>1, <2>3 DEF BeginChange, BeginStep
    <2> QED BY <2>2, <2>4, <2>5, BeginMoves
  <1>4. CASE BeginDeletion(o, actor, target, expected)
    <2>1. user[target].status \in Alive
      BY <1>1, <1>4 DEF BeginDeletion, MayDelete, Terminal, Registered, UserRow, Statuses, Alive
    <2>2. PICK x : x = [kind |-> "delete", target |-> target, expected |-> expected,
                        issuer |-> actor]
      OBVIOUS
    <2>3. x \in DeleteTxn /\ x.target = target
      BY <1>2, <2>2 DEF DeleteTxn
    <2>4. BeginStep(o, x)
      BY <1>4, <2>2 DEF BeginDeletion, BeginStep
    <2> QED BY <2>1, <2>3, <2>4, BeginMoves
  <1> QED BY <1>3, <1>4

\* The writes of a transaction: one row, and people who stay registered.
LEMMA CommitMoves ==
    ASSUME AccountsInvariant, UNCHANGED <<remote, looks>>, UserMoves,
           NEW o \in Ops, NEW row \in ChangeRow \cup DeleteRow, txn[o] # NoTxn,
           rows' = [rows EXCEPT ![o] = row], txn' = [txn EXCEPT ![o] = NoTxn],
           UNCHANGED <<calls, wire>>
    PROVE  AuthorityMoves
  <1>1. AccountTypes /\ TxnRight
    BY DEF AccountsInvariant
  <1>2. rows[o] = NoRow /\ \A p \in Ops : txn[p] # NoTxn => p = o
    BY <1>1 DEF TxnRight
  <1>3. /\ rows' \in [Ops -> Rows]
        /\ rows'[o] = row /\ \A p \in Ops \ {o} : rows'[p] = rows[p]
        /\ txn' \in [Ops -> {NoTxn} \cup ChangeTxn \cup DeleteTxn]
        /\ \A p \in Ops : txn'[p] = NoTxn
    BY <1>1, <1>2 DEF AccountTypes, Rows
  <1>4. TxnRight'
    BY <1>3 DEF TxnRight
  <1>5. \A p \in Ops : RowMoves(rows[p], rows'[p])
    BY <1>2, <1>3 DEF RowMoves
  <1>6. Started' \subseteq Started \cup {o}
    BY <1>3 DEF Started
  <1> QED BY <1>3, <1>4, <1>5, <1>6 DEF AuthorityMoves

LEMMA CommitChangeMoves ==
    ASSUME AccountsInvariant, UNCHANGED <<remote, looks>>,
           NEW o \in Ops, CommitChange(o)
    PROVE  AuthorityMoves
  <1> DEFINE A == Affected(txn[o])
  <1>1. AccountTypes /\ TxnRight
    BY DEF AccountsInvariant
  <1>2. PICK x : x = txn[o]
    OBVIOUS
  <1>3. PICK t : t = x.target
    OBVIOUS
  <1>4. /\ x.kind = "change" /\ x \in ChangeTxn /\ txn[o] # NoTxn
        /\ t \in Subjects /\ x.role \in Roles /\ x.status \in Alive
        /\ x.expected \in Nat
    <2>1. txn[o].kind = "change" /\ txn[o] \in {NoTxn} \cup ChangeTxn \cup DeleteTxn
      BY <1>1 DEF CommitChange, AccountTypes
    <2> QED BY <1>2, <1>3, <2>1 DEF ChangeTxn, DeleteTxn, NoTxn
  <1> DEFINE n == IF x.action = "provision_agency" THEN 2 ELSE 1
  <1>5. /\ user' = [s \in Subjects |->
              IF s = t THEN Updated(user[s], x.role, x.status, n)
              ELSE IF s \in A THEN Touched(user[s]) ELSE user[s]]
        /\ agency' = [agency EXCEPT ![t] = AgencyAfter(x)]
        /\ rows' = [rows EXCEPT ![o] = [kind |-> "change", subject |-> t,
                                        expected |-> x.expected]]
        /\ txn' = [txn EXCEPT ![o] = NoTxn]
        /\ memberOf' = memberOf /\ calls' = calls /\ wire' = wire
    BY <1>2, <1>3 DEF CommitChange, provider
  <1> HIDE DEF A
  <1>6. user[t].status \in Alive
    BY <1>1, <1>2, <1>3, <1>4 DEF TxnRight
  <1>7. n \in Nat
    OBVIOUS
  <1> HIDE DEF n
  <1>8. ASSUME NEW s \in Subjects
        PROVE  /\ user'[s] \in UserRow
               /\ user[s].status = "absent" <=> user'[s].status = "absent"
               /\ user[s].status = "deleted" => user'[s].status = "deleted"
    <2>1. PICK u \in UserRow : u = user[s]
      BY <1>1 DEF AccountTypes
    <2>2. CASE s = t
      <3>1. PICK v : v = Updated(u, x.role, x.status, n)
        OBVIOUS
      <3>2. v \in UserRow /\ v.status = x.status
        BY <1>4, <1>7, <2>1, <3>1 DEF Updated, UserRow, Alive, Statuses
      <3> QED BY <1>4, <1>5, <1>6, <2>1, <2>2, <3>1, <3>2 DEF Alive
    <2>3. CASE s # t
      <3>1. Touched(u) = [u EXCEPT !.version = u.version + 1]
        BY DEF Touched
      <3>2. Touched(u) \in UserRow /\ Touched(u).status = u.status
        BY <3>1 DEF UserRow
      <3> QED BY <1>5, <2>1, <2>3, <3>2
    <2> QED BY <2>2, <2>3
  <1>9. agency' \in [Subjects -> AgencyRow]
    <2>1. PICK a \in AgencyRow : a = agency[t]
      BY <1>1, <1>4 DEF AccountTypes
    <2>2. \A status \in {"active", "suspended"} : Marked(a, status) \in AgencyRow
      BY DEF Marked, AgencyRow
    <2>3. [status |-> "active", version |-> 1] \in AgencyRow
      BY DEF AgencyRow
    <2>4. AgencyAfter(x) \in AgencyRow
      BY <1>3, <2>1, <2>2, <2>3 DEF AgencyAfter
    <2> QED BY <1>1, <1>5, <2>4 DEF AccountTypes
  <1>10. UserMoves
    BY <1>5, <1>8, <1>9 DEF UserMoves
  <1>11. PICK row : row = [kind |-> "change", subject |-> t, expected |-> x.expected]
    OBVIOUS
  <1>12. row \in ChangeRow /\ rows' = [rows EXCEPT ![o] = row]
    BY <1>4, <1>5, <1>11 DEF ChangeRow
  <1> QED BY <1>4, <1>5, <1>10, <1>12, CommitMoves

LEMMA CommitDeletionMoves ==
    ASSUME AccountsInvariant, UNCHANGED <<remote, looks>>,
           NEW o \in Ops, CommitDeletion(o)
    PROVE  AuthorityMoves
  <1>1. AccountTypes /\ TxnRight
    BY DEF AccountsInvariant
  <1>2. PICK x : x = txn[o]
    OBVIOUS
  <1>3. PICK t : t = x.target
    OBVIOUS
  <1>4. txn[o] # NoTxn /\ t \in Subjects /\ x.expected \in Nat
    <2>1. txn[o].kind = "delete" /\ txn[o] \in {NoTxn} \cup ChangeTxn \cup DeleteTxn
      BY <1>1 DEF CommitDeletion, AccountTypes
    <2> QED BY <1>2, <1>3, <2>1 DEF ChangeTxn, DeleteTxn, NoTxn
  <1>5. PICK row : row = [kind |-> "delete", subject |-> t, expected |-> x.expected,
                          state |-> "prepared", fence |-> 0, attempts |-> 0]
    OBVIOUS
  <1>6. /\ user' = [user EXCEPT ![t] = Updated(user[t], user[t].role, "deleting", 1)]
        /\ agency' = IF OwnsActive(t) THEN [agency EXCEPT ![t] = Marked(agency[t], "suspended")]
                     ELSE agency
        /\ rows' = [rows EXCEPT ![o] = row]
        /\ txn' = [txn EXCEPT ![o] = NoTxn]
        /\ memberOf' = memberOf /\ calls' = calls /\ wire' = wire
    BY <1>2, <1>3, <1>5 DEF CommitDeletion, provider
  <1>7. user[t].status \in Alive
    BY <1>1, <1>2, <1>3, <1>4 DEF TxnRight
  <1>8. UserMoves
    <2>1. user[t] \in UserRow /\ agency[t] \in AgencyRow
      BY <1>1, <1>4 DEF AccountTypes
    <2>2. PICK u : u = Updated(user[t], user[t].role, "deleting", 1)
      OBVIOUS
    <2>3. u \in UserRow /\ u.status = "deleting"
      BY <2>1, <2>2 DEF Updated, UserRow, Statuses
    <2>4. Marked(agency[t], "suspended") \in AgencyRow
      BY <2>1 DEF Marked, AgencyRow
    <2>5. /\ user' = [user EXCEPT ![t] = u]
          /\ user \in [Subjects -> UserRow] /\ agency \in [Subjects -> AgencyRow]
      BY <1>1, <1>6, <2>2 DEF AccountTypes
    <2> QED BY <1>4, <1>6, <1>7, <2>3, <2>4, <2>5 DEF UserMoves, Alive
  <1>9. row \in DeleteRow
    BY <1>4, <1>5 DEF DeleteRow
  <1> QED BY <1>4, <1>6, <1>8, <1>9, CommitMoves

\* The inbox contains people, or notes that their contact data changed.
LEMMA InboxMoves ==
    ASSUME AccountsInvariant, UNCHANGED <<remote, looks>>, NEW x \in Subjects,
           \/ IngestDeleted(x)
           \/ \E answer \in {"live", "gone", "unavailable", "skipped"} : FinishEvent(x, answer)
    PROVE  AuthorityMoves
  <1>1. AccountTypes
    BY DEF AccountsInvariant
  <1>2. user \in [Subjects -> UserRow] /\ agency \in [Subjects -> AgencyRow]
    BY <1>1 DEF AccountTypes
  <1> DEFINE Reported ==
            /\ memberOf' = memberOf /\ txn' = txn /\ rows' = rows
            /\ calls' = calls /\ wire' = wire
            /\ \/ Contain(x)
               \/ user' \in {user, Refreshed(x)} /\ agency' = agency
  <1>3. Reported
    <2>1. CASE IngestDeleted(x)
      BY <2>1 DEF IngestDeleted, provider
    <2>2. ASSUME NEW answer \in {"live", "gone", "unavailable", "skipped"},
                 FinishEvent(x, answer)
          PROVE  Reported
      BY <2>2 DEF FinishEvent, provider
    <2> QED BY <2>1, <2>2
  <1>4. UserMoves
    <2>1. CASE Contain(x)
      BY <1>2, <1>3, <2>1, ContainMoves DEF UserMoves, Alive
    <2>2. CASE user' \in {user, Refreshed(x)} /\ agency' = agency
      <3>1. PICK u \in UserRow : u = user[x]
        BY <1>2
      <3>2. Touched(u) = [u EXCEPT !.version = u.version + 1]
        BY DEF Touched
      <3>3. Touched(u) \in UserRow /\ Touched(u).status = u.status
        BY <3>2 DEF UserRow
      <3>4. user' = user \/ user' = [user EXCEPT ![x] = Touched(u)]
        BY <2>2, <3>1 DEF Refreshed
      <3> QED BY <1>2, <1>3, <2>2, <3>1, <3>3, <3>4 DEF UserMoves
    <2> QED BY <1>3, <2>1, <2>2
  <1>5. TxnRight'
    <2>1. TxnRight /\ LockFree
      BY DEF AccountsInvariant, IngestDeleted, FinishEvent
    <2> QED BY <1>3, <2>1 DEF TxnRight, LockFree
  <1>6. (\A o \in Ops : RowMoves(rows[o], rows'[o])) /\ Started' = Started
    BY <1>3 DEF RowMoves, Started
  <1>7. \E y : Started' \subseteq Started \cup {y}
    BY <1>6
  <1> QED BY <1>1, <1>3, <1>4, <1>5, <1>6, <1>7 DEF AuthorityMoves, AccountTypes

\* One deletion moves on.
LEMMA DeletionMoves ==
    ASSUME AccountsInvariant, UNCHANGED <<remote, looks, txn>>, UserMoves, LockFree,
           NEW o \in Ops, rows[o] \in DeleteRow, NEW row \in DeleteRow,
           rows' = [rows EXCEPT ![o] = row],
           \A c \in calls' : c \in calls \/ c.op = o,
           \A w \in wire' : w \in wire \/ w = Request(o, "delete")
    PROVE  AuthorityMoves
  <1>1. AccountTypes /\ rows[o].kind = "delete" /\ rows[o] # NoRow
    BY IntakeRows DEF AccountsInvariant, NoRow
  <1>2. /\ rows' \in [Ops -> Rows]
        /\ rows'[o] = row /\ \A p \in Ops \ {o} : rows'[p] = rows[p]
    BY <1>1 DEF AccountTypes, Rows
  <1>3. \A p \in Ops : RowMoves(rows[p], rows'[p])
    BY <1>2 DEF RowMoves
  <1>4. Started' \subseteq Started \cup {o}
    BY <1>2 DEF Started
  <1>5. TxnRight'
    BY DEF TxnRight, LockFree
  <1>6. /\ \A c \in calls' : c \in calls \/ (c.op \in Ops /\ rows[c.op].kind = "delete")
        /\ \A w \in wire' : \/ w \in wire
                            \/ w \in [op : Ops, task : {"delete"}] /\ rows[w.op].kind = "delete"
    BY <1>1 DEF Request
  <1> QED BY <1>1, <1>2, <1>3, <1>4, <1>5, <1>6 DEF AuthorityMoves, AccountTypes

LEMMA DeletionClaimMoves ==
    ASSUME AccountsInvariant, UNCHANGED <<remote, looks>>,
           NEW o \in Ops, NEW actor \in Subjects,
           ClaimDelete(o, actor) \/ ClaimDeleteObservation(o, actor)
    PROVE  AuthorityMoves
  <1>1. PICK state \in {"dispatching", "reconciling"}, task \in {"delete", "observe"},
             attempts \in {0, 1} :
             /\ LockFree /\ rows[o].kind = "delete"
             /\ Claimed(o, state, task, attempts)
             /\ UNCHANGED <<registry, txn>>
    BY DEF ClaimDelete, ClaimDeleteObservation
  <1>2. AccountTypes /\ rows[o] \in DeleteRow
    BY <1>1, IntakeRows DEF AccountsInvariant
  <1>3. UserMoves
    BY <1>1, <1>2 DEF UserMoves, registry, AccountTypes
  <1>4. PICK row \in DeleteRow : rows' = [rows EXCEPT ![o] = row]
    BY <1>1, <1>2, ClaimRow
  <1>5. /\ \A c \in calls' : c \in calls \/ c.op = o
        /\ \A w \in wire' : w \in wire \/ w = Request(o, "delete")
    BY <1>1 DEF Claimed
  <1> QED BY <1>1, <1>2, <1>3, <1>4, <1>5, DeletionMoves

LEMMA DeletionEndMoves ==
    ASSUME AccountsInvariant, UNCHANGED <<remote, looks>>,
           \/ \E o \in Ops, actor \in Subjects : RecoverDelete(o, actor)
           \/ \E c \in calls : \E r \in {"confirmed", "not_sent", "unknown"} : FinishDelete(c, r)
           \/ \E c \in calls : \E found \in BOOLEAN : FinishDeleteObservation(c, found)
    PROVE  AuthorityMoves
  <1>1. PICK o \in Ops,
             state \in {"prepared", "needs_reconciliation", "provider_confirmed", "completed"} :
             /\ LockFree /\ rows[o].kind = "delete" /\ Moved(o, state)
             /\ calls' \subseteq calls /\ wire' \subseteq wire
             /\ UNCHANGED <<registry, txn>>
    <2>1. \A c \in calls : c.op \in Ops
      BY DEF AccountsInvariant, CallsRight
    <2>2. CASE \E o \in Ops, actor \in Subjects : RecoverDelete(o, actor)
      BY <2>2 DEF RecoverDelete, Moved, provider
    <2>3. CASE \E c \in calls : \E r \in {"confirmed", "not_sent", "unknown"} : FinishDelete(c, r)
      <3>1. PICK c \in calls, r \in {"confirmed", "not_sent", "unknown"} : FinishDelete(c, r)
        BY <2>3
      <3>2. DeleteResult(c.op, r) \in {"prepared", "needs_reconciliation", "provider_confirmed"}
        BY DEF DeleteResult
      <3> QED BY <2>1, <3>1, <3>2 DEF FinishDelete, Moved
    <2>4. CASE \E c \in calls : \E found \in BOOLEAN : FinishDeleteObservation(c, found)
      <3>1. PICK c \in calls, found \in BOOLEAN : FinishDeleteObservation(c, found)
        BY <2>4
      <3>2. PICK state \in {"needs_reconciliation", "provider_confirmed"} :
               state = IF Proved(rows[c.op].subject, found) THEN "provider_confirmed"
                       ELSE "needs_reconciliation"
        OBVIOUS
      <3> QED BY <2>1, <3>1, <3>2 DEF FinishDeleteObservation, Moved, provider
    <2> QED BY <2>2, <2>3, <2>4
  <1>2. AccountTypes /\ rows[o] \in DeleteRow
    BY <1>1, IntakeRows DEF AccountsInvariant
  <1>3. UserMoves
    BY <1>1, <1>2 DEF UserMoves, registry, AccountTypes
  <1>4. PICK row \in DeleteRow : rows' = [rows EXCEPT ![o] = row]
    BY <1>1, <1>2, StateRow
  <1> QED BY <1>1, <1>2, <1>3, <1>4, DeletionMoves

LEMMA FinalizeDeleteMoves ==
    ASSUME AccountsInvariant, UNCHANGED <<remote, looks>>,
           NEW o \in Ops, NEW actor \in Subjects, FinalizeDelete(o, actor)
    PROVE  AuthorityMoves
  <1>1. PICK t : t = rows[o].subject
    OBVIOUS
  <1>2. /\ LockFree /\ rows[o].kind = "delete" /\ user[t].status = "deleting"
        /\ user' = [user EXCEPT ![t] = Updated(user[t], user[t].role, "deleted", 1)]
        /\ agency' = IF agency[t].status \in {"none", "archived"} THEN agency
                     ELSE [agency EXCEPT ![t] = Marked(agency[t], "archived")]
        /\ Moved(o, "completed")
        /\ memberOf' = memberOf /\ txn' = txn /\ calls' = calls /\ wire' = wire
    BY <1>1 DEF FinalizeDelete, Moved, provider
  <1>3. AccountTypes /\ rows[o] \in DeleteRow /\ t \in Subjects
    BY <1>1, <1>2, IntakeRows DEF AccountsInvariant, DeleteRow
  <1>4. UserMoves
    <2>1. user[t] \in UserRow /\ agency[t] \in AgencyRow
      BY <1>3 DEF AccountTypes
    <2>2. PICK u : u = Updated(user[t], user[t].role, "deleted", 1)
      OBVIOUS
    <2>3. u \in UserRow /\ u.status = "deleted"
      BY <2>1, <2>2 DEF Updated, UserRow, Statuses
    <2>4. Marked(agency[t], "archived") \in AgencyRow
      BY <2>1 DEF Marked, AgencyRow
    <2>5. /\ user' = [user EXCEPT ![t] = u]
          /\ user \in [Subjects -> UserRow] /\ agency \in [Subjects -> AgencyRow]
      BY <1>2, <1>3, <2>2 DEF AccountTypes
    <2> QED BY <1>2, <1>3, <2>3, <2>4, <2>5 DEF UserMoves
  <1>5. PICK row \in DeleteRow : rows' = [rows EXCEPT ![o] = row]
    BY <1>2, <1>3, StateRow
  <1> QED BY <1>2, <1>3, <1>4, <1>5, DeletionMoves

\* Only the provider touches accounts, and it makes none go unmade.
LEMMA AuthorityAccounts ==
    ASSUME Types, NextAuthority
    PROVE  AccountsStay
  <1>1. ASSUME NEW o \in Ops, NEW a \in Subjects, NEW t \in Subjects,
               \/ \E c \in Changes, e \in 1..user[t].version : BeginChange(o, a, t, e, c)
               \/ \E e \in 1..user[t].version : BeginDeletion(o, a, t, e)
        PROVE  account' = account
    BY <1>1 DEF BeginChange, BeginDeletion, provider
  <1>2. ASSUME NEW o \in Ops, CommitChange(o) \/ CommitDeletion(o)
        PROVE  account' = account
    BY <1>2 DEF CommitChange, CommitDeletion, provider
  <1>3. ASSUME NEW o \in Ops, NEW a \in Subjects,
               \/ ClaimDelete(o, a) \/ ClaimDeleteObservation(o, a)
               \/ RecoverDelete(o, a) \/ FinalizeDelete(o, a)
        PROVE  account' = account
    BY <1>3 DEF ClaimDelete, ClaimDeleteObservation, RecoverDelete, FinalizeDelete, provider
  <1>4. ASSUME NEW c \in calls,
               \/ \E r \in {"confirmed", "not_sent", "unknown"} : FinishDelete(c, r)
               \/ \E found \in BOOLEAN : FinishDeleteObservation(c, found)
               \/ LoseCall(c)
        PROVE  account' = account
    BY <1>4 DEF FinishDelete, FinishDeleteObservation, LoseCall, provider
  <1>5. ASSUME NEW s \in Subjects,
               \/ IngestDeleted(s) \/ IngestUpdated(s)
               \/ ClaimEvent(s) \/ ExpireEvent(s) \/ RetryEvent(s)
               \/ \E r \in {"live", "gone", "unavailable", "skipped"} : FinishEvent(s, r)
               \/ SettleEffects(s)
        PROVE  account' = account
    BY <1>5 DEF IngestDeleted, IngestUpdated, ClaimEvent, ExpireEvent, RetryEvent,
                FinishEvent, SettleEffects, provider
  <1>6. ASSUME \E s \in Traders : OpenBusiness(s) \/ SettleBusiness(s) \/ OpenClient(s)
        PROVE  account' = account
    BY <1>6 DEF OpenBusiness, SettleBusiness, OpenClient, provider
  <1>7. ASSUME \/ \E s \in Subjects : DeletedElsewhere(s)
               \/ \E w \in wire : ProviderDeletes(w)
        PROVE  \E x : account' = [account EXCEPT ![x] = "gone"]
    BY <1>7 DEF DeletedElsewhere, ProviderDeletes
  <1>8. account' = account \/ \E x : account' = [account EXCEPT ![x] = "gone"]
    BY <1>1, <1>2, <1>3, <1>4, <1>5, <1>6, <1>7 DEF NextAuthority
  <1> QED BY <1>8 DEF AccountsStay, Types

LEMMA AuthorityStepKeeps ==
    ASSUME AuthorityInvariant, AccountsInvariant, NextAuthority /\ UNCHANGED <<remote, looks>>
    PROVE  AuthorityInvariant' /\ AccountsInvariant' /\ AdmittedByAuthority
  <1>1. ASSUME NEW o \in Ops, NEW a \in Subjects, NEW t \in Subjects,
               \/ \E c \in Changes, e \in 1..user[t].version : BeginChange(o, a, t, e, c)
               \/ \E e \in 1..user[t].version : BeginDeletion(o, a, t, e)
        PROVE  AuthorityMoves
    BY <1>1, BeginActionMoves
  <1>2. ASSUME NEW o \in Ops, CommitChange(o) \/ CommitDeletion(o)
        PROVE  AuthorityMoves
    BY <1>2, CommitChangeMoves, CommitDeletionMoves
  <1>3. ASSUME NEW o \in Ops, NEW a \in Subjects,
               \/ ClaimDelete(o, a) \/ ClaimDeleteObservation(o, a)
               \/ RecoverDelete(o, a) \/ FinalizeDelete(o, a)
        PROVE  AuthorityMoves
    BY <1>3, DeletionClaimMoves, DeletionEndMoves, FinalizeDeleteMoves
  <1>4. ASSUME NEW c \in calls,
               \/ \E r \in {"confirmed", "not_sent", "unknown"} : FinishDelete(c, r)
               \/ \E found \in BOOLEAN : FinishDeleteObservation(c, found)
               \/ LoseCall(c)
        PROVE  AuthorityMoves
    BY <1>4, DeletionEndMoves, QuietActionMoves
  <1>5. ASSUME NEW s \in Subjects,
               \/ IngestDeleted(s) \/ IngestUpdated(s)
               \/ ClaimEvent(s) \/ ExpireEvent(s) \/ RetryEvent(s)
               \/ \E r \in {"live", "gone", "unavailable", "skipped"} : FinishEvent(s, r)
               \/ SettleEffects(s) \/ DeletedElsewhere(s)
        PROVE  AuthorityMoves
    BY <1>5, InboxMoves, QuietActionMoves
  <1>6. ASSUME \/ \E s \in Traders : OpenBusiness(s) \/ SettleBusiness(s) \/ OpenClient(s)
               \/ \E w \in wire : ProviderDeletes(w)
        PROVE  AuthorityMoves
    BY <1>6, QuietActionMoves
  <1>7. AuthorityMoves
    BY <1>1, <1>2, <1>3, <1>4, <1>5, <1>6 DEF NextAuthority
  <1>8. AuthorityInvariant' /\ AccountsStay
    BY AuthorityNext, AuthorityAccounts DEF AuthorityInvariant
  <1> QED BY <1>7, <1>8, AuthorityMovesKeep

-----------------------------------------------------------------------------
(* Creates and invitations move on *)

\* A request that a claim of this create or invitation may send.
NewRequest(o, row, w) ==
    /\ w.op = o /\ w = Request(o, w.task)
    /\ w.task \in (IF row.kind = "create" THEN {"create"} ELSE {"issue", "revoke"})
    /\ w.task \in {"create", "issue"} => remote[o] = "none"

\* One create or invitation moves on; no other is touched.
IntakeRowStep(o, row) ==
    /\ LockFree /\ rows[o] \in IntakeRow /\ row \in IntakeRow
    /\ SameIntent(row, rows[o]) /\ (Unfinished(row) => Unfinished(rows[o]))
    /\ row.fence >= rows[o].fence
    /\ row.subject # rows[o].subject => remote[o] = "made" /\ row.subject = rows[o].person
    /\ rows' = [rows EXCEPT ![o] = row]
    /\ txn' = txn /\ remote' = remote /\ looks' \subseteq looks
    /\ UNCHANGED <<barred, inbox, trade, account>>
    /\ \A c \in calls' : \/ c \in calls
                         \/ /\ c.op = o /\ c.fence \in 1..row.fence
                            /\ row.kind = "invite" =>
                                  c.task \in DOMAIN StateOfTask /\ c.from # "not_sent"
    /\ \A w \in wire' : w \in wire \/ NewRequest(o, row, w)
    /\ \A w \in wire : w.task = "delete" => w \in wire'

LEMMA IntakeRowStepKeeps ==
    ASSUME AccountsInvariant, NEW o \in Ops, NEW row, IntakeRowStep(o, row), OpSafe(o)'
    PROVE  /\ rows' \in [Ops -> Rows]
           /\ CallsRight' /\ WireRight' /\ LooksRight' /\ TxnRight'
           /\ \A p \in Ops : OpSafe(p)'
           /\ OnePerPerson' /\ IsFiniteSet(Started')
           /\ rows'[o] = row /\ \A p \in Ops \ {o} : rows'[p] = rows[p]
           /\ \A p \in Ops : /\ rows'[p].kind = rows[p].kind
                             /\ Unfinished(rows'[p]) => Unfinished(rows[p])
                             /\ rows'[p].person = rows[p].person
                             /\ rows'[p].owner = rows[p].owner
  <1>1. /\ AccountTypes /\ CallsRight /\ WireRight /\ LooksRight /\ TxnRight
        /\ OnePerPerson /\ PlacesRight
    BY DEF AccountsInvariant
  <1>2. /\ rows' \in [Ops -> Rows]
        /\ rows'[o] = row /\ \A p \in Ops \ {o} : rows'[p] = rows[p]
        /\ rows[o].kind \in Intake /\ row.kind = rows[o].kind
    <2>1. rows[o].kind \in Intake
      BY DEF IntakeRowStep, IntakeRow
    <2>2. rows' = [rows EXCEPT ![o] = row] /\ row \in IntakeRow /\ row.kind = rows[o].kind
      BY DEF IntakeRowStep, SameIntent
    <2>3. rows \in [Ops -> Rows]
      BY <1>1 DEF AccountTypes
    <2> QED BY <2>1, <2>2, <2>3 DEF Rows
  <1>3. ASSUME NEW p \in Ops
        PROVE  /\ rows'[p].kind = rows[p].kind
               /\ Unfinished(rows'[p]) => Unfinished(rows[p])
               /\ rows'[p].person = rows[p].person /\ rows'[p].owner = rows[p].owner
    <2>1. SameIntent(row, rows[o]) /\ (Unfinished(row) => Unfinished(rows[o]))
      BY DEF IntakeRowStep
    <2>2. CASE p = o
      BY <1>2, <2>1, <2>2 DEF SameIntent
    <2>3. CASE p # o
      <3>1. rows'[p] = rows[p]
        BY <1>2, <2>3
      <3> QED BY <3>1 DEF Unfinished
    <2> QED BY <2>2, <2>3
  <1>4. CallsRight'
    BY <1>1, <1>2, <1>3 DEF CallsRight, IntakeRowStep
  <1>5. WireRight'
    <2> SUFFICES ASSUME NEW w \in wire'
                 PROVE  /\ w \in [op : Ops, task : {"create", "issue", "revoke", "delete"}]
                        /\ rows[w.op].kind = "create" => w.task = "create"
                        /\ rows[w.op].kind = "invite" => w.task \in {"issue", "revoke"}
                        /\ rows[w.op].kind \notin Intake => w.task = "delete"
                        /\ w.task \in {"create", "issue"} => remote[w.op] = "none"
      <3>1. ASSUME NEW w \in wire', w.op \in Ops
            PROVE  rows'[w.op].kind = rows[w.op].kind
        BY <1>3, <3>1
      <3> QED BY <3>1 DEF WireRight, IntakeRowStep
    <2>1. CASE w \in wire
      BY <1>1, <2>1 DEF WireRight
    <2>2. CASE NewRequest(o, row, w)
      <3>1. PICK task : task = w.task
        OBVIOUS
      <3>2. w = [op |-> o, task |-> task] /\ w.op = o
            /\ task \in {"create", "issue", "revoke"}
        BY <2>2, <3>1 DEF NewRequest, Request
      <3>3. w \in [op : Ops, task : {"create", "issue", "revoke", "delete"}]
        BY <3>2
      <3> QED BY <1>2, <2>2, <3>2, <3>3 DEF NewRequest, Intake
    <2> QED BY <2>1, <2>2 DEF IntakeRowStep
  <1>6. LooksRight'
    BY <1>1, <1>3 DEF LooksRight, IntakeRowStep
  <1>7. TxnRight'
    BY DEF TxnRight, IntakeRowStep, LockFree
  <1>8. ASSUME NEW p \in Ops
        PROVE  OpSafe(p)'
    <2>1. CASE p = o
      BY <2>1
    <2>2. CASE p # o
      <3>1. OpSafe(p)
        BY DEF AccountsInvariant
      <3>2. rows'[p] = rows[p] /\ remote' = remote
        BY <1>2, <2>2 DEF IntakeRowStep
      <3>3. Wired(p)' \subseteq Wired(p)
        BY <2>2 DEF Wired, IntakeRowStep, NewRequest
      <3> QED BY <3>1, <3>2, <3>3 DEF OpSafe, Untouched
    <2> QED BY <2>1, <2>2
  <1>9. OnePerPerson'
    BY <1>1, <1>3 DEF OnePerPerson
  <1>10. IsFiniteSet(Started')
    <2>1. Started' \subseteq Started
      BY <1>2 DEF Started, NoRow, Intake
    <2> QED BY <1>1, <2>1, FS_Subset DEF PlacesRight
  <1> QED BY <1>2, <1>3, <1>4, <1>5, <1>6, <1>7, <1>8, <1>9, <1>10

\* None of this is work of a person that is being deleted: the account that the
\* provider made is of somebody who is no user yet.
LEMMA IntakeRowMoves ==
    ASSUME AuthorityInvariant, AccountsInvariant, NEW o \in Ops, NEW row,
           IntakeRowStep(o, row), effects' \subseteq Subjects,
           rows' \in [Ops -> Rows], CallsRight', WireRight'
    PROVE  IntakeMoves
  <1>1. Types /\ AccountTypes /\ WireRight /\ ArrivalsRight
    BY DEF AuthorityInvariant, AccountsInvariant
  <1>2. /\ LockFree /\ rows[o] \in IntakeRow /\ row \in IntakeRow
        /\ SameIntent(row, rows[o]) /\ row.fence >= rows[o].fence
        /\ rows'[o] = row /\ \A q \in Ops \ {o} : rows'[q] = rows[q]
    BY <1>1 DEF IntakeRowStep, Types
  <1>3. PICK r \in IntakeRow : r = rows[o]
    BY <1>2
  <1>4. r.kind \in Intake /\ row.kind = r.kind /\ r.person \in Subjects
    BY <1>2, <1>3 DEF SameIntent, IntakeRow
  <1>5. ASSUME NEW t \in Subjects, Terminal(t), WorkOf(t) = {}
        PROVE  WorkOf(t)' = {}
    <2>1. \A q \in Ops : ~(Unfinished(rows[q])
                            /\ t \in {rows[q].issuer, rows[q].subject, rows[q].owner})
      BY <1>5 DEF WorkOf
    <2>2. ~(Unfinished(row) /\ t \in {row.issuer, row.subject, row.owner})
      <3> SUFFICES ASSUME Unfinished(row), t \in {row.issuer, row.subject, row.owner}
                   PROVE  FALSE
        OBVIOUS
      <3>1. Unfinished(r) /\ row.issuer = r.issuer /\ row.owner = r.owner
        BY <1>2, <1>3 DEF IntakeRowStep, SameIntent
      <3>2. row.subject # r.subject /\ t = row.subject
        BY <1>3, <2>1, <3>1
      <3>3. remote[o] = "made" /\ t = r.person
        BY <1>3, <3>2 DEF IntakeRowStep
      <3>4. ~Registered(t)
        BY <1>1, <1>3, <1>4, <3>1, <3>3 DEF ArrivalsRight
      <3> QED BY <1>5, <3>4 DEF Terminal, Registered
    <2>3. \A q \in Ops : ~(Unfinished(rows'[q])
                            /\ t \in {rows'[q].issuer, rows'[q].subject, rows'[q].owner})
      BY <1>2, <2>1, <2>2 DEF Unfinished
    <2> QED BY <2>3 DEF WorkOf, Unfinished
  <1>6. \A c \in calls' : \/ c \in calls
                          \/ /\ c.op \in Ops /\ rows'[c.op].kind \in Intake
                             /\ c.fence \in 1..rows'[c.op].fence
    BY <1>2, <1>4 DEF IntakeRowStep
  <1>7. \A w \in wire' : \/ w \in wire
                         \/ w.op \in Ops /\ rows'[w.op].kind \in Intake /\ w.task # "delete"
    BY <1>2, <1>4 DEF IntakeRowStep, NewRequest
  <1> QED BY <1>2, <1>5, <1>6, <1>7 DEF IntakeMoves, IntakeRowStep

IntakeStep(o, row) == IntakeRowStep(o, row) /\ UNCHANGED <<registry, effects>>

LEMMA IntakeStepKeeps ==
    ASSUME AuthorityInvariant, AccountsInvariant,
           NEW o \in Ops, NEW row, IntakeStep(o, row), OpSafe(o)'
    PROVE  AuthorityInvariant' /\ AccountsInvariant' /\ AdmittedByAuthority
  <1>1. /\ IntakeRowStep(o, row)
        /\ user' = user /\ agency' = agency /\ memberOf' = memberOf
    BY DEF IntakeStep, registry
  <1>2. /\ rows' \in [Ops -> Rows]
        /\ CallsRight' /\ WireRight' /\ LooksRight' /\ TxnRight'
        /\ \A p \in Ops : OpSafe(p)'
        /\ OnePerPerson' /\ IsFiniteSet(Started')
        /\ \A p \in Ops : /\ rows'[p].kind = rows[p].kind
                          /\ Unfinished(rows'[p]) => Unfinished(rows[p])
                          /\ rows'[p].person = rows[p].person /\ rows'[p].owner = rows[p].owner
    BY <1>1, IntakeRowStepKeeps
  <1>3. AccountTypes'
    BY <1>1, <1>2 DEF AccountsInvariant, AccountTypes, IntakeRowStep
  <1>4. PlacesRight'
    <2>1. ASSUME NEW s \in Subjects
          PROVE  People(s)' \subseteq People(s)
      BY <1>1, <1>2 DEF People
    <2> QED BY <1>2, <2>1, FewerPeople DEF AccountsInvariant, PlacesRight
  <1>5. AdmittedByAuthority
    BY <1>1 DEF AdmittedByAuthority, NewlyGranted
  <1>6. ArrivalsRight'
    BY <1>1, <1>2 DEF AccountsInvariant, ArrivalsRight, IntakeRowStep, Registered
  <1>7. AuthorityInvariant'
    <2>1. Types /\ rows[o] \in IntakeRow /\ effects' = effects
      BY <1>1 DEF AuthorityInvariant, IntakeStep, IntakeRowStep
    <2>2. IntakeMoves
      BY <1>1, <1>2, <2>1, IntakeRowMoves DEF Types
    <2>3. PICK p \in Subjects : p = rows[o].person
      BY <2>1 DEF IntakeRow
    <2>4. PersonArrives(p)
      BY <1>1, <2>1 DEF PersonArrives, Types, OwnsActive
    <2> QED BY <2>2, <2>4, ArrivalKeeps
  <1> QED BY <1>2, <1>3, <1>4, <1>5, <1>6, <1>7 DEF AccountsInvariant

\* What these steps write: a state, a count more, a subject, a mark.
LEMMA IntakeFields ==
    ASSUME NEW r \in IntakeRow
    PROVE  /\ \A v \in CreateStates \cup InviteStates :
                 /\ [r EXCEPT !.state = v] \in IntakeRow
                 /\ SameIntent([r EXCEPT !.state = v], r)
                 /\ [r EXCEPT !.state = v].state = v
                 /\ [r EXCEPT !.state = v].fence = r.fence
                 /\ [r EXCEPT !.state = v].attempts = r.attempts
                 /\ [r EXCEPT !.state = v].revokes = r.revokes
                 /\ [r EXCEPT !.state = v].revoked = r.revoked
                 /\ [r EXCEPT !.state = v].subject = r.subject
           /\ \A v \in Nat :
                 /\ [r EXCEPT !.fence = v] \in IntakeRow
                 /\ SameIntent([r EXCEPT !.fence = v], r)
                 /\ [r EXCEPT !.fence = v].state = r.state
                 /\ [r EXCEPT !.fence = v].attempts = r.attempts
                 /\ [r EXCEPT !.fence = v].revokes = r.revokes
                 /\ [r EXCEPT !.fence = v].revoked = r.revoked
                 /\ [r EXCEPT !.fence = v].fence = v
                 /\ [r EXCEPT !.fence = v].subject = r.subject
           /\ \A v \in Nat :
                 /\ [r EXCEPT !.attempts = v] \in IntakeRow
                 /\ SameIntent([r EXCEPT !.attempts = v], r)
                 /\ [r EXCEPT !.attempts = v].state = r.state
                 /\ [r EXCEPT !.attempts = v].revokes = r.revokes
                 /\ [r EXCEPT !.attempts = v].revoked = r.revoked
                 /\ [r EXCEPT !.attempts = v].fence = r.fence
                 /\ [r EXCEPT !.attempts = v].subject = r.subject
           /\ \A v \in Nat :
                 /\ [r EXCEPT !.revokes = v] \in IntakeRow
                 /\ SameIntent([r EXCEPT !.revokes = v], r)
                 /\ [r EXCEPT !.revokes = v].state = r.state
                 /\ [r EXCEPT !.revokes = v].revoked = r.revoked
                 /\ [r EXCEPT !.revokes = v].fence = r.fence
                 /\ [r EXCEPT !.revokes = v].subject = r.subject
           /\ \A v \in Subjects \cup {NoSubject} :
                 /\ [r EXCEPT !.subject = v] \in IntakeRow
                 /\ SameIntent([r EXCEPT !.subject = v], r)
                 /\ [r EXCEPT !.subject = v].state = r.state
                 /\ [r EXCEPT !.subject = v].revoked = r.revoked
                 /\ [r EXCEPT !.subject = v].fence = r.fence
                 /\ [r EXCEPT !.subject = v].subject = v
           /\ \A v \in BOOLEAN :
                 /\ [r EXCEPT !.revoked = v] \in IntakeRow
                 /\ SameIntent([r EXCEPT !.revoked = v], r)
                 /\ [r EXCEPT !.revoked = v].state = r.state
                 /\ [r EXCEPT !.revoked = v].revoked = v
                 /\ [r EXCEPT !.revoked = v].fence = r.fence
                 /\ [r EXCEPT !.revoked = v].subject = r.subject
  BY DEF IntakeRow, SameIntent

LEMMA MovedIntake ==
    ASSUME NEW o \in Ops, rows[o] \in IntakeRow, NEW state \in CreateStates \cup InviteStates,
           Moved(o, state)
    PROVE  \E row \in IntakeRow :
              /\ rows' = [rows EXCEPT ![o] = row] /\ SameIntent(row, rows[o])
              /\ row.state = state /\ row.revoked = rows[o].revoked
              /\ row.subject = rows[o].subject /\ row.fence = rows[o].fence
  <1>1. PICK r \in IntakeRow : r = rows[o]
    OBVIOUS
  <1>2. PICK row \in IntakeRow : row = [r EXCEPT !.state = state]
    BY IntakeFields
  <1>3. /\ SameIntent(row, r) /\ row.state = state /\ row.revoked = r.revoked
        /\ row.subject = r.subject /\ row.fence = r.fence
    BY <1>2, IntakeFields
  <1>4. rows' = [rows EXCEPT ![o] = row]
    BY <1>1, <1>2 DEF Moved
  <1> QED BY <1>1, <1>3, <1>4, Zenon

LEMMA ClaimedIntake ==
    ASSUME NEW o \in Ops, rows[o] \in IntakeRow, NEW state \in CreateStates \cup InviteStates,
           NEW issues \in {0, 1}, NEW revokes \in {0, 1},
           \/ rows' = [rows EXCEPT ![o].state = state, ![o].fence = @ + 1,
                                   ![o].attempts = @ + issues]
           \/ rows' = [rows EXCEPT ![o].state = state, ![o].fence = @ + 1,
                                   ![o].attempts = @ + issues, ![o].revokes = @ + revokes]
    PROVE  \E row \in IntakeRow :
              /\ rows' = [rows EXCEPT ![o] = row] /\ SameIntent(row, rows[o])
              /\ row.state = state /\ row.revoked = rows[o].revoked
              /\ row.subject = rows[o].subject /\ row.fence = rows[o].fence + 1
  <1>1. PICK r \in IntakeRow : r = rows[o]
    OBVIOUS
  <1>2. /\ r.fence + 1 \in Nat /\ r.attempts + issues \in Nat /\ r.revokes + revokes \in Nat
    BY DEF IntakeRow
  <1>3. PICK a \in IntakeRow : a = [r EXCEPT !.state = state]
    BY IntakeFields
  <1>4. /\ SameIntent(a, r) /\ a.state = state /\ a.revoked = r.revoked
        /\ a.fence = r.fence /\ a.attempts = r.attempts /\ a.revokes = r.revokes
        /\ a.subject = r.subject
    BY <1>3 DEF IntakeRow, SameIntent
  <1>5. PICK b \in IntakeRow : b = [a EXCEPT !.fence = r.fence + 1]
    BY <1>2, IntakeFields
  <1>6. /\ SameIntent(b, a) /\ b.state = state /\ b.revoked = r.revoked
        /\ b.attempts = r.attempts /\ b.revokes = r.revokes
        /\ b.fence = r.fence + 1 /\ b.subject = r.subject
    BY <1>2, <1>4, <1>5, IntakeFields
  <1>7. PICK d \in IntakeRow : d = [b EXCEPT !.attempts = r.attempts + issues]
    BY <1>2, IntakeFields
  <1>8. /\ SameIntent(d, b) /\ d.state = state /\ d.revoked = r.revoked
        /\ d.revokes = r.revokes /\ d.fence = r.fence + 1 /\ d.subject = r.subject
    BY <1>2, <1>6, <1>7, IntakeFields
  <1>9. PICK e \in IntakeRow : e = [d EXCEPT !.revokes = r.revokes + revokes]
    BY <1>2, IntakeFields
  <1>10. /\ SameIntent(e, d) /\ e.state = state /\ e.revoked = r.revoked
         /\ e.fence = r.fence + 1 /\ e.subject = r.subject
    BY <1>2, <1>8, <1>9, IntakeFields
  <1>11. SameIntent(d, r) /\ SameIntent(e, r)
    BY <1>4, <1>6, <1>8, <1>10 DEF SameIntent
  <1>12. rows' = [rows EXCEPT ![o] = d] \/ rows' = [rows EXCEPT ![o] = e]
    <2>1. CASE rows' = [rows EXCEPT ![o].state = state, ![o].fence = @ + 1,
                                    ![o].attempts = @ + issues]
      BY <1>1, <1>3, <1>4, <1>5, <1>6, <1>7, <2>1, ZenonT(90)
    <2>2. CASE rows' = [rows EXCEPT ![o].state = state, ![o].fence = @ + 1,
                                    ![o].attempts = @ + issues, ![o].revokes = @ + revokes]
      BY <1>1, <1>3, <1>4, <1>5, <1>6, <1>7, <1>8, <1>9, <2>2, ZenonT(90)
    <2> QED BY <2>1, <2>2
  <1> QED BY <1>1, <1>8, <1>10, <1>11, <1>12, Zenon

LEMMA CreateSafe ==
    ASSUME AccountsInvariant, NEW o \in Ops, rows[o].kind = "create",
           NEW row \in IntakeRow, rows' = [rows EXCEPT ![o] = row], SameIntent(row, rows[o]),
           row.state \in CreateStates, row.revoked = rows[o].revoked, remote' = remote,
           row.state \in {"prepared", "cancelled"} => Untouched(o)',
           row.state = "provider_confirmed" => remote[o] = "made"
    PROVE  OpSafe(o)'
  <1>1. rows'[o] = row
    BY DEF AccountsInvariant, AccountTypes
  <1>2. RowRight(rows[o])
    BY DEF AccountsInvariant, OpSafe
  <1>3. RowRight(row) /\ row.kind = "create"
    BY <1>2 DEF RowRight, SameIntent, Intake
  <1> QED BY <1>1, <1>3 DEF OpSafe, Intake

LEMMA InviteSafe ==
    ASSUME AccountsInvariant, NEW o \in Ops, rows[o].kind = "invite",
           NEW row \in IntakeRow, rows' = [rows EXCEPT ![o] = row], SameIntent(row, rows[o]),
           row.state \in InviteStates, remote' = remote,
           row.state \in {"prepared", "cancelled"} => Untouched(o)',
           row.state \in {"issuing", "observing_issue", "issue_unknown"} =>
              \A w \in Wired(o)' : w.task = "issue"
    PROVE  OpSafe(o)'
  <1>1. rows'[o] = row
    BY DEF AccountsInvariant, AccountTypes
  <1>2. RowRight(rows[o])
    BY DEF AccountsInvariant, OpSafe
  <1>3. RowRight(row) /\ row.kind = "invite"
    BY <1>2 DEF RowRight, SameIntent, Intake
  <1> QED BY <1>1, <1>3 DEF OpSafe, Intake

LEMMA CreateClaimKeeps ==
    ASSUME AuthorityInvariant, AccountsInvariant, NEW o \in Ops, NEW actor \in Subjects,
           ClaimCreate(o, actor) \/ ClaimCreateObservation(o, actor)
    PROVE  AuthorityInvariant' /\ AccountsInvariant' /\ AdmittedByAuthority
  <1>1. PICK state \in {"dispatching", "reconciling"}, task \in {"create", "observe"},
             attempts \in {0, 1} :
             /\ LockFree /\ rows[o].kind = "create" /\ Unfinished(rows[o])
             /\ Claimed(o, state, task, attempts)
             /\ task = "create" => rows[o].state = "prepared"
             /\ UNCHANGED <<others, account, remote, looks>>
    BY DEF ClaimCreate, ClaimCreateObservation, Unfinished
  <1>2. rows[o] \in IntakeRow /\ OpSafe(o)
    BY <1>1, IntakeRows, SMTT(60) DEF AccountsInvariant, Intake
  <1>3. PICK row \in IntakeRow :
           /\ rows' = [rows EXCEPT ![o] = row] /\ SameIntent(row, rows[o])
           /\ row.state = state /\ row.revoked = rows[o].revoked
           /\ row.subject = rows[o].subject /\ row.fence = rows[o].fence + 1
    BY <1>1, <1>2, ClaimedIntake DEF Claimed, CreateStates
  <1>4. /\ \A c \in calls' : c \in calls \/ (c.op = o /\ c.fence \in 1..row.fence)
        /\ row.fence >= rows[o].fence /\ \A w \in wire : w \in wire'
    <2>1. PICK n \in Nat : n = rows[o].fence
      BY <1>2 DEF IntakeRow
    <2>2. row.fence = n + 1 /\ n + 1 \in 1..(n + 1) /\ n + 1 >= n
      BY <1>3, <2>1
    <2>3. \A c \in calls' : c \in calls \/ (c.op = o /\ c.fence = n + 1)
      BY <1>1, <2>1 DEF Claimed
    <2> QED BY <1>1, <2>1, <2>2, <2>3 DEF Claimed
  <1>5. \A w \in wire' : w \in wire \/ NewRequest(o, row, w)
    <2>1. row.kind = "create"
      BY <1>1, <1>3 DEF SameIntent
    <2>2. task = "create" => remote[o] = "none"
      BY <1>1, <1>2 DEF OpSafe, Untouched, Intake
    <2>3. \A w \in wire' : w \in wire \/ (task = "create" /\ w = Request(o, "create"))
      BY <1>1 DEF Claimed
    <2> QED BY <2>1, <2>2, <2>3 DEF NewRequest, Request
  <1>6. row.kind = "create"
    BY <1>1, <1>3 DEF SameIntent
  <1>7. IntakeStep(o, row)
    BY <1>1, <1>2, <1>3, <1>4, <1>5, <1>6 DEF IntakeStep, IntakeRowStep, others
  <1>8. OpSafe(o)'
    BY <1>1, <1>3, CreateSafe DEF CreateStates
  <1> QED BY <1>7, <1>8, IntakeStepKeeps

LEMMA CreateEndKeeps ==
    ASSUME AuthorityInvariant, AccountsInvariant, NEW o \in Ops, NEW actor \in Subjects,
           RecoverCreate(o, actor) \/ CancelCreate(o, actor)
    PROVE  AuthorityInvariant' /\ AccountsInvariant' /\ AdmittedByAuthority
  <1>1. PICK state \in {"needs_reconciliation", "cancelled"} :
             /\ LockFree /\ rows[o].kind = "create" /\ Unfinished(rows[o])
             /\ Moved(o, state)
             /\ state = "cancelled" => rows[o].state = "prepared"
             /\ UNCHANGED <<others, calls, provider, remote, looks>>
    BY DEF RecoverCreate, CancelCreate, Unfinished, Moved
  <1>2. rows[o] \in IntakeRow /\ OpSafe(o)
    BY <1>1, IntakeRows DEF AccountsInvariant, Intake
  <1>3. PICK row \in IntakeRow :
           /\ rows' = [rows EXCEPT ![o] = row] /\ SameIntent(row, rows[o])
           /\ row.state = state /\ row.revoked = rows[o].revoked
           /\ row.subject = rows[o].subject /\ row.fence = rows[o].fence
    BY <1>1, <1>2, MovedIntake DEF CreateStates
  <1>4. IntakeStep(o, row)
    <2>1. row.fence \in Nat /\ row.fence >= rows[o].fence
      BY <1>3 DEF IntakeRow
    <2> QED BY <1>1, <1>2, <1>3, <2>1 DEF IntakeStep, IntakeRowStep, others, provider
  <1>5. state = "cancelled" => Untouched(o)'
    BY <1>1, <1>2 DEF OpSafe, Untouched, Wired, Intake, provider
  <1>6. OpSafe(o)'
    BY <1>1, <1>3, <1>5, CreateSafe DEF CreateStates
  <1> QED BY <1>4, <1>6, IntakeStepKeeps

\* A request that never left is off the wire: nothing of the operation is left.
LEMMA NotSentUntouched ==
    ASSUME AccountsInvariant, NEW o \in Ops, NEW task \in {"create", "issue"},
           Request(o, task) \in wire, \A w \in Wired(o) : w.task = task,
           wire' = wire \ {Request(o, task)}, remote' = remote
    PROVE  Untouched(o)'
  <1>1. PICK w : w = Request(o, task)
    OBVIOUS
  <1>2. w.op = o /\ w.task = task /\ w \in wire
    BY <1>1 DEF Request
  <1>3. remote[o] = "none"
    BY <1>2 DEF AccountsInvariant, WireRight
  <1>4. ASSUME NEW v \in wire, v.op = o
        PROVE  v = Request(o, task)
    <2>1. v.task = task
      BY <1>4 DEF Wired
    <2>2. v \in [op : Ops, task : {"create", "issue", "revoke", "delete"}]
      BY DEF AccountsInvariant, WireRight
    <2> QED BY <1>4, <2>1, <2>2 DEF Request
  <1> QED BY <1>3, <1>4 DEF Untouched, Wired

LEMMA FinishCreateKeeps ==
    ASSUME AuthorityInvariant, AccountsInvariant, NEW c \in calls,
           NEW result \in {"confirmed", "not_sent", "unknown"}, FinishCreate(c, result)
    PROVE  AuthorityInvariant' /\ AccountsInvariant' /\ AdmittedByAuthority
  <1>1. PICK o \in Ops : o = c.op
    BY DEF AccountsInvariant, CallsRight
  <1>2. PICK state : state = CreateResult(o, result)
    OBVIOUS
  <1>3. PICK s : s = IF result = "confirmed" THEN rows[o].person ELSE rows[o].subject
    OBVIOUS
  <1>4. /\ LockFree /\ rows[o].kind = "create" /\ Unfinished(rows[o])
        /\ result = "confirmed" => remote[o] = "made"
        /\ result = "not_sent" => Request(o, "create") \in wire
        /\ rows' = [rows EXCEPT ![o].state = state, ![o].subject = s]
        /\ wire' = IF result = "not_sent" THEN wire \ {Request(o, "create")} ELSE wire
        /\ calls' = calls \ {c}
        /\ UNCHANGED <<others, account, remote, looks>>
    <2>1. rows' = [rows EXCEPT ![o].state = state, ![o].subject =
                        IF result = "confirmed" THEN rows[o].person ELSE @]
      BY <1>1, <1>2 DEF FinishCreate
    <2>2. rows' = [rows EXCEPT ![o].state = state, ![o].subject = s]
      BY <1>3, <2>1
    <2> QED BY <1>1, <2>2 DEF FinishCreate, Current, Unfinished
  <1>5. rows[o] \in IntakeRow /\ OpSafe(o)
    BY <1>4, IntakeRows DEF AccountsInvariant, Intake
  <1>6. /\ state \in CreateStates
        /\ state \in {"prepared", "cancelled"} => result = "not_sent"
        /\ state = "provider_confirmed" => result = "confirmed"
    BY <1>2 DEF CreateResult, CreateStates
  <1>7. PICK row \in IntakeRow :
           /\ rows' = [rows EXCEPT ![o] = row] /\ SameIntent(row, rows[o])
           /\ row.state = state /\ row.revoked = rows[o].revoked
           /\ row.subject = s /\ row.fence = rows[o].fence
    <2>1. PICK r \in IntakeRow : r = rows[o]
      BY <1>5
    <2>2. s \in Subjects \cup {NoSubject}
      BY <1>3, <2>1 DEF IntakeRow
    <2>3. PICK a \in IntakeRow : a = [r EXCEPT !.state = state]
      BY <1>6, IntakeFields
    <2>4. /\ SameIntent(a, r) /\ a.state = state /\ a.revoked = r.revoked
          /\ a.fence = r.fence
      BY <1>6, <2>3, IntakeFields
    <2>5. PICK row \in IntakeRow : row = [a EXCEPT !.subject = s]
      BY <2>2, IntakeFields
    <2>6. /\ SameIntent(row, a) /\ row.state = state /\ row.revoked = r.revoked
          /\ row.subject = s /\ row.fence = r.fence
      BY <2>2, <2>4, <2>5, IntakeFields
    <2>7. rows' = [rows EXCEPT ![o] = row]
      BY <1>4, <2>1, <2>3, <2>5
    <2>8. SameIntent(row, r)
      BY <2>4, <2>6 DEF SameIntent
    <2> QED BY <2>1, <2>6, <2>7, <2>8, Zenon
  <1>8. IntakeStep(o, row)
    <2>1. row.fence \in Nat /\ row.fence >= rows[o].fence
      BY <1>7 DEF IntakeRow
    <2>2. row.subject # rows[o].subject => remote[o] = "made" /\ row.subject = rows[o].person
      BY <1>3, <1>4, <1>7
    <2>3. \A w \in wire : w.task = "delete" => w \in wire'
      BY <1>4 DEF Request
    <2> QED BY <1>4, <1>5, <1>7, <2>1, <2>2, <2>3 DEF IntakeStep, IntakeRowStep, others
  <1>9. state \in {"prepared", "cancelled"} => Untouched(o)'
    <2>1. \A w \in Wired(o) : w.task = "create"
      BY <1>4 DEF Wired, AccountsInvariant, WireRight
    <2> QED BY <1>4, <1>6, <2>1, NotSentUntouched
  <1>10. OpSafe(o)'
    BY <1>4, <1>6, <1>7, <1>9, CreateSafe
  <1> QED BY <1>8, <1>10, IntakeStepKeeps

LEMMA RequestRevokeKeeps ==
    ASSUME AuthorityInvariant, AccountsInvariant,
           NEW o \in Ops, NEW actor \in Subjects, RequestRevoke(o, actor)
    PROVE  AuthorityInvariant' /\ AccountsInvariant' /\ AdmittedByAuthority
  <1>1. PICK state : state = IF rows[o].state = "prepared" THEN "cancelled" ELSE rows[o].state
    OBVIOUS
  <1>2. /\ LockFree /\ rows[o].kind = "invite" /\ Unfinished(rows[o])
        /\ rows' = [rows EXCEPT ![o].revoked = TRUE, ![o].state = state]
        /\ UNCHANGED <<others, calls, provider, remote, looks>>
    <2>1. rows' = [rows EXCEPT ![o].revoked = TRUE,
                               ![o].state = IF @ = "prepared" THEN "cancelled" ELSE @]
      BY DEF RequestRevoke
    <2>2. rows' = [rows EXCEPT ![o].revoked = TRUE, ![o].state = state]
      <3>1. PICK q : q = [rows[o] EXCEPT !.revoked = TRUE]
        OBVIOUS
      <3>2. rows[o] \in IntakeRow
        BY IntakeRows DEF RequestRevoke, Open, AccountsInvariant
      <3>3. q.state = rows[o].state
        BY <3>1, <3>2 DEF IntakeRow
      <3> QED BY <1>1, <2>1, <3>1, <3>3
    <2> QED BY <2>2 DEF RequestRevoke, Open
  <1>3. rows[o] \in IntakeRow /\ OpSafe(o) /\ RowRight(rows[o])
    BY <1>2, IntakeRows DEF AccountsInvariant, OpSafe
  <1>4. state \in InviteStates
    BY <1>1, <1>2, <1>3 DEF RowRight, InviteStates
  <1>5. PICK row \in IntakeRow :
           /\ rows' = [rows EXCEPT ![o] = row] /\ SameIntent(row, rows[o])
           /\ row.state = state
           /\ row.subject = rows[o].subject /\ row.fence = rows[o].fence
    <2>1. PICK r \in IntakeRow : r = rows[o]
      BY <1>3
    <2>2. PICK a \in IntakeRow : a = [r EXCEPT !.revoked = TRUE]
      BY IntakeFields
    <2>3. SameIntent(a, r) /\ a.subject = r.subject /\ a.fence = r.fence
      BY <2>2, IntakeFields
    <2>4. PICK row \in IntakeRow : row = [a EXCEPT !.state = state]
      BY <1>4, IntakeFields
    <2>5. /\ SameIntent(row, a) /\ row.state = state
          /\ row.subject = r.subject /\ row.fence = r.fence
      BY <1>4, <2>3, <2>4, IntakeFields
    <2>6. rows' = [rows EXCEPT ![o] = row]
      BY <1>2, <2>1, <2>2, <2>4
    <2>7. SameIntent(row, r)
      BY <2>3, <2>5 DEF SameIntent
    <2> QED BY <2>1, <2>5, <2>6, <2>7, Zenon
  <1>6. IntakeStep(o, row)
    <2>1. row.fence \in Nat /\ row.fence >= rows[o].fence
      BY <1>5 DEF IntakeRow
    <2> QED BY <1>2, <1>3, <1>5, <2>1 DEF IntakeStep, IntakeRowStep, others, provider
  <1>7. Wired(o)' = Wired(o) /\ remote' = remote
    BY <1>2 DEF Wired, provider
  <1>8. /\ state \in {"prepared", "cancelled"} => Untouched(o)'
        /\ state \in {"issuing", "observing_issue", "issue_unknown"}
              => \A w \in Wired(o)' : w.task = "issue"
    BY <1>1, <1>2, <1>3, <1>7 DEF OpSafe, Untouched, Intake
  <1>9. OpSafe(o)'
    BY <1>2, <1>4, <1>5, <1>7, <1>8, InviteSafe
  <1> QED BY <1>6, <1>9, IntakeStepKeeps

LEMMA InviteClaimKeeps ==
    ASSUME AuthorityInvariant, AccountsInvariant, NEW o \in Ops, NEW actor \in Subjects,
           ClaimIssue(o, actor) \/ ClaimRevoke(o, actor) \/ ClaimInviteObservation(o, actor)
    PROVE  AuthorityInvariant' /\ AccountsInvariant' /\ AdmittedByAuthority
  <1>1. PICK task \in DOMAIN StateOfTask, issues \in {0, 1}, revokes \in {0, 1} :
             /\ LockFree /\ rows[o].kind = "invite" /\ Unfinished(rows[o])
             /\ ClaimedInvite(o, StateOfTask[task], task, issues, revokes)
             /\ task = "issue" => rows[o].state = "prepared"
             /\ task = "observe_issue" => rows[o].state = "issue_unknown"
    <2>1. CASE ClaimIssue(o, actor)
      BY <2>1 DEF ClaimIssue, Unfinished, StateOfTask
    <2>2. CASE ClaimRevoke(o, actor)
      BY <2>2 DEF ClaimRevoke, Unfinished, StateOfTask
    <2>3. CASE ClaimInviteObservation(o, actor)
      BY <2>3 DEF ClaimInviteObservation, Unfinished, StateOfTask
    <2> QED BY <2>1, <2>2, <2>3
  <1>2. PICK state : state = StateOfTask[task]
    OBVIOUS
  <1>3. /\ state \in InviteStates /\ state \notin {"prepared", "cancelled", "issue_unknown"}
        /\ task \in {"issue", "observe_issue", "revoke", "observe_revoke"}
        /\ state = "issuing" <=> task = "issue"
        /\ state = "observing_issue" <=> task = "observe_issue"
    BY <1>2 DEF StateOfTask, InviteStates
  <1>4. /\ rows' = [rows EXCEPT ![o].state = state, ![o].fence = @ + 1,
                                ![o].attempts = @ + issues, ![o].revokes = @ + revokes]
        /\ \A c \in calls' : \/ c \in calls
                             \/ /\ c.op = o /\ c.fence = rows[o].fence + 1
                                /\ c.task = task /\ c.from = remote[o]
        /\ wire' = IF task \in {"issue", "revoke"} THEN wire \cup {Request(o, task)} ELSE wire
        /\ UNCHANGED <<others, account, remote, looks>>
    BY <1>1, <1>2 DEF ClaimedInvite
  <1>5. rows[o] \in IntakeRow /\ OpSafe(o)
    BY <1>1, IntakeRows, SMTT(60) DEF AccountsInvariant
  <1>6. PICK row \in IntakeRow :
           /\ rows' = [rows EXCEPT ![o] = row] /\ SameIntent(row, rows[o])
           /\ row.state = state /\ row.revoked = rows[o].revoked
           /\ row.subject = rows[o].subject /\ row.fence = rows[o].fence + 1
    <2>1. state \in CreateStates \cup InviteStates
      BY <1>3
    <2>2. rows' = [rows EXCEPT ![o].state = state, ![o].fence = @ + 1,
                               ![o].attempts = @ + issues, ![o].revokes = @ + revokes]
      BY <1>4
    <2> QED BY <1>5, <2>1, <2>2, ClaimedIntake, ZenonT(90)
  <1>7. row.kind = "invite"
    BY <1>1, <1>6 DEF SameIntent
  <1>8. task = "issue" => Untouched(o)
    BY <1>1, <1>5 DEF OpSafe, Intake
  <1>9. \A w \in wire' : w \in wire \/ NewRequest(o, row, w)
    BY <1>3, <1>4, <1>7, <1>8 DEF NewRequest, Request, Untouched
  <1>10. IntakeStep(o, row)
    <2>1. remote[o] # "not_sent"
      BY DEF AccountsInvariant, AccountTypes
    <2>2. PICK n \in Nat : n = rows[o].fence
      BY <1>5 DEF IntakeRow
    <2>3. row.fence = n + 1 /\ n + 1 \in 1..(n + 1) /\ n + 1 >= n
      BY <1>6, <2>2
    <2>4. /\ \A c \in calls' : \/ c \in calls
                              \/ /\ c.op = o /\ c.fence \in 1..row.fence
                                 /\ c.task \in DOMAIN StateOfTask /\ c.from # "not_sent"
          /\ row.fence >= rows[o].fence /\ \A w \in wire : w \in wire'
      BY <1>4, <2>1, <2>2, <2>3
    <2> QED BY <1>1, <1>4, <1>5, <1>6, <1>9, <2>4 DEF IntakeStep, IntakeRowStep, others
  <1>11. state \in {"issuing", "observing_issue"} => \A w \in Wired(o)' : w.task = "issue"
    <2>1. CASE task = "issue"
      BY <1>4, <1>8, <2>1 DEF Wired, Untouched, Request
    <2>2. CASE task = "observe_issue"
      <3>1. \A w \in Wired(o) : w.task = "issue"
        BY <1>1, <1>5, <2>2 DEF OpSafe
      <3> QED BY <1>4, <2>2, <3>1 DEF Wired
    <2> QED BY <1>3, <2>1, <2>2
  <1>12. OpSafe(o)'
    BY <1>1, <1>3, <1>4, <1>6, <1>11, InviteSafe
  <1> QED BY <1>10, <1>12, IntakeStepKeeps

LEMMA RecoverInviteKeeps ==
    ASSUME AuthorityInvariant, AccountsInvariant,
           NEW o \in Ops, NEW actor \in Subjects, RecoverInvite(o, actor)
    PROVE  AuthorityInvariant' /\ AccountsInvariant' /\ AdmittedByAuthority
  <1>1. PICK state : state = UnknownOf(rows[o].state)
    OBVIOUS
  <1>2. /\ LockFree /\ rows[o].kind = "invite" /\ Unfinished(rows[o])
        /\ rows[o].state \in {"issuing", "observing_issue", "revoking", "observing_revoke"}
        /\ Moved(o, state)
        /\ UNCHANGED <<others, calls, provider, remote, looks>>
    BY <1>1 DEF RecoverInvite, Unfinished, Moved, StateOfTask
  <1>3. rows[o] \in IntakeRow /\ OpSafe(o)
    BY <1>2, IntakeRows DEF AccountsInvariant
  <1>4. /\ state \in {"issue_unknown", "revoke_unknown"} /\ state \in InviteStates
        /\ state = "issue_unknown" => rows[o].state \in {"issuing", "observing_issue"}
    BY <1>1 DEF UnknownOf, InviteStates
  <1>5. PICK row \in IntakeRow :
           /\ rows' = [rows EXCEPT ![o] = row] /\ SameIntent(row, rows[o])
           /\ row.state = state
           /\ row.subject = rows[o].subject /\ row.fence = rows[o].fence
    BY <1>2, <1>3, <1>4, MovedIntake
  <1>6. IntakeStep(o, row)
    <2>1. row.fence \in Nat /\ row.fence >= rows[o].fence
      BY <1>5 DEF IntakeRow
    <2> QED BY <1>2, <1>3, <1>5, <2>1 DEF IntakeStep, IntakeRowStep, others, provider
  <1>7. Wired(o)' = Wired(o) /\ remote' = remote
    BY <1>2 DEF Wired, provider
  <1>8. state = "issue_unknown" => \A w \in Wired(o)' : w.task = "issue"
    BY <1>2, <1>3, <1>4, <1>7 DEF OpSafe
  <1>9. OpSafe(o)'
    BY <1>2, <1>4, <1>5, <1>7, <1>8, InviteSafe
  <1> QED BY <1>6, <1>9, IntakeStepKeeps

LEMMA FinishInviteKeeps ==
    ASSUME AuthorityInvariant, AccountsInvariant, NEW c \in calls,
           NEW result \in {"pending", "accepted", "revoked", "expired", "not_sent", "unknown"},
           FinishInvite(c, result)
    PROVE  AuthorityInvariant' /\ AccountsInvariant' /\ AdmittedByAuthority
  <1>1. PICK o \in Ops : o = c.op
    BY DEF AccountsInvariant, CallsRight
  <1>2. PICK task : task = c.task
    OBVIOUS
  <1>3. PICK state : state = InviteResult(c, result)
    OBVIOUS
  <1>4. /\ LockFree /\ rows[o].kind = "invite" /\ rows[o].state = StateOfTask[task]
        /\ result = "not_sent" => Request(o, task) \in wire
        /\ Moved(o, state)
        /\ wire' = IF result = "not_sent" THEN wire \ {Request(o, task)} ELSE wire
        /\ calls' \subseteq calls
        /\ UNCHANGED <<others, account, remote, looks>>
    <2>1. ~Proves(c, "not_sent")
      <3>1. c.from # "not_sent"
        BY DEF FinishInvite, AccountsInvariant, CallsRight
      <3>2. remote[o] # "not_sent"
        BY DEF AccountsInvariant, AccountTypes
      <3> QED BY <1>1, <3>1, <3>2 DEF Proves, Answers
    <2> QED BY <1>1, <1>2, <1>3, <2>1 DEF FinishInvite, Current, Moved
  <1>5. /\ task \in {"issue", "observe_issue", "revoke", "observe_revoke"}
        /\ task = "issue" => rows[o].state = "issuing"
        /\ task = "observe_issue" => rows[o].state = "observing_issue"
        /\ rows[o].state \in {"issuing", "observing_issue", "revoking", "observing_revoke"}
        /\ task \in {"issue", "observe_issue"} <=> rows[o].state \in {"issuing", "observing_issue"}
    <2>1. task \in DOMAIN StateOfTask
      BY <1>1, <1>2, <1>4 DEF AccountsInvariant, CallsRight
    <2> QED BY <1>4, <2>1 DEF StateOfTask
  <1>6. rows[o] \in IntakeRow /\ OpSafe(o) /\ Unfinished(rows[o])
    BY <1>4, <1>5, IntakeRows DEF AccountsInvariant, Unfinished, Intake
  <1>7. result = "not_sent" => task \in {"issue", "revoke"}
    <2> SUFFICES ASSUME result = "not_sent"
                 PROVE  task \in {"issue", "revoke"}
      OBVIOUS
    <2>1. PICK w \in wire : w = Request(o, task)
      BY <1>4
    <2>2. w.op = o /\ w.task = task
      BY <2>1 DEF Request
    <2> QED BY <1>4, <2>1, <2>2 DEF AccountsInvariant, WireRight
  <1>8. /\ state \in InviteStates
        /\ state \in {"prepared", "cancelled"} => result = "not_sent" /\ task = "issue"
        /\ state \notin {"issuing", "observing_issue"}
        /\ state = "issue_unknown" =>
              rows[o].state \in {"issuing", "observing_issue"} /\ result # "not_sent"
    <2>1. CASE result = "not_sent"
      <3>1. state = NotSentState(o, task)
        BY <1>1, <1>2, <1>3, <2>1 DEF InviteResult
      <3>2. CASE task = "revoke"
        <4>1. state \in {"pending", "revoke_unknown"}
          BY <3>1, <3>2 DEF NotSentState
        <4> QED BY <4>1 DEF InviteStates
      <3>3. CASE task = "issue"
        <4>1. state \in {"prepared", "cancelled"}
          BY <3>1, <3>3 DEF NotSentState
        <4> QED BY <2>1, <3>3, <4>1 DEF InviteStates
      <3> QED BY <1>7, <2>1, <3>2, <3>3
    <2>2. CASE result = "unknown"
      <3>1. state = UnknownOf(rows[o].state)
        BY <1>2, <1>3, <1>4, <2>2 DEF InviteResult
      <3> QED BY <2>2, <3>1 DEF UnknownOf, InviteStates
    <2>3. CASE result \in {"pending", "accepted", "revoked", "expired"}
      BY <1>3, <2>3 DEF InviteResult, InviteStates
    <2> QED BY <2>1, <2>2, <2>3
  <1>9. PICK row \in IntakeRow :
           /\ rows' = [rows EXCEPT ![o] = row] /\ SameIntent(row, rows[o])
           /\ row.state = state
           /\ row.subject = rows[o].subject /\ row.fence = rows[o].fence
    BY <1>4, <1>6, <1>8, MovedIntake
  <1>10. IntakeStep(o, row)
    <2>1. row.fence \in Nat /\ row.fence >= rows[o].fence
      BY <1>9 DEF IntakeRow
    <2>2. \A w \in wire : w.task = "delete" => w \in wire'
      BY <1>4, <1>5 DEF Request
    <2> QED BY <1>4, <1>6, <1>9, <2>1, <2>2 DEF IntakeStep, IntakeRowStep, others
  <1>11. rows[o].state \in {"issuing", "observing_issue"} => \A w \in Wired(o) : w.task = "issue"
    BY <1>4, <1>6 DEF OpSafe
  <1>12. state \in {"prepared", "cancelled"} => Untouched(o)'
    BY <1>4, <1>5, <1>8, <1>11, NotSentUntouched
  <1>13. state = "issue_unknown" => \A w \in Wired(o)' : w.task = "issue"
    BY <1>4, <1>8, <1>11 DEF Wired
  <1>14. OpSafe(o)'
    BY <1>4, <1>8, <1>9, <1>12, <1>13, InviteSafe
  <1> QED BY <1>10, <1>14, IntakeStepKeeps

LEMMA RefreshKeeps ==
    ASSUME AuthorityInvariant, AccountsInvariant,
           NEW l \in looks, NEW actor \in Subjects, Refresh(l, actor)
    PROVE  AuthorityInvariant' /\ AccountsInvariant' /\ AdmittedByAuthority
  <1>1. PICK o \in Ops : o = l.op
    BY DEF AccountsInvariant, LooksRight
  <1>2. PICK state \in {"revoked", "expired"} : state = l.saw
    BY DEF Refresh
  <1>3. /\ LockFree /\ rows[o].kind = "invite" /\ Moved(o, state)
        /\ looks' = looks \ {l}
        /\ UNCHANGED <<others, calls, provider, remote>>
    BY <1>1, <1>2 DEF Refresh, Moved, AccountsInvariant, LooksRight
  <1>4. rows[o] \in IntakeRow
    BY <1>3, IntakeRows DEF AccountsInvariant, Intake
  <1>5. state \in InviteStates
    BY DEF InviteStates
  <1>6. PICK row \in IntakeRow :
           /\ rows' = [rows EXCEPT ![o] = row] /\ SameIntent(row, rows[o])
           /\ row.state = state
           /\ row.subject = rows[o].subject /\ row.fence = rows[o].fence
    BY <1>3, <1>4, <1>5, MovedIntake
  <1>7. ~Unfinished(row)
    BY <1>3, <1>6 DEF SameIntent, Unfinished
  <1>8. IntakeStep(o, row)
    <2>1. row.fence \in Nat /\ row.fence >= rows[o].fence
      BY <1>6 DEF IntakeRow
    <2> QED BY <1>3, <1>4, <1>6, <1>7, <2>1 DEF IntakeStep, IntakeRowStep, others, provider
  <1>9. OpSafe(o)'
    BY <1>3, <1>5, <1>6, InviteSafe
  <1> QED BY <1>8, <1>9, IntakeStepKeeps

-----------------------------------------------------------------------------
(* The provider, and what is read from it *)

\* At the provider an operation advances by a request of its own, or from an
\* invitation that is open.
RemoteMoves(o) ==
    remote'[o] # remote[o] =>
        /\ remote[o] \in {"none", "pending"} /\ (remote[o] = "none" => Wired(o) # {})
        /\ \A w \in wire' : w.op = o => w.task \notin {"create", "issue"}
        /\ remote'[o] \in {"made", "accepted"} => account'[rows[o].person] # "none"
        /\ remote'[o] = "made" => account[rows[o].person] = "none"

LEMMA OutsideMovesKeep ==
    ASSUME AuthorityInvariant, AccountsInvariant, WorldStep, LooksRight',
           remote' \in [Ops -> {"none", "made", "pending", "accepted", "revoked", "expired"}],
           \A o \in Ops : RemoteMoves(o)
    PROVE  AuthorityInvariant' /\ AccountsInvariant' /\ AdmittedByAuthority
  <1>1. /\ AccountTypes /\ CallsRight /\ WireRight /\ TxnRight /\ OnePerPerson /\ PlacesRight
    BY DEF AccountsInvariant
  <1>2. /\ user' = user /\ agency' = agency /\ memberOf' = memberOf /\ txn' = txn
        /\ rows' = rows /\ calls' \subseteq calls /\ wire' \subseteq wire
    BY DEF WorldStep, registry
  <1>3. AccountTypes' /\ CallsRight' /\ TxnRight' /\ OnePerPerson'
    BY <1>1, <1>2 DEF AccountTypes, CallsRight, TxnRight, OnePerPerson
  <1>4. WireRight'
    BY <1>1, <1>2 DEF WireRight, RemoteMoves
  <1>5. PlacesRight'
    <2>1. Started' = Started /\ \A s \in Subjects : People(s)' = People(s)
      BY <1>2 DEF Started, People
    <2> QED BY <1>1, <2>1 DEF PlacesRight, Bounded
  <1>6. ASSUME NEW o \in Ops
        PROVE  OpSafe(o)'
    <2>1. OpSafe(o) /\ RemoteMoves(o) /\ Wired(o)' \subseteq Wired(o)
      BY <1>2 DEF AccountsInvariant, Wired
    <2>2. Untouched(o) => Untouched(o)'
      BY <2>1 DEF Untouched, RemoteMoves
    <2>3. remote[o] = "made" => remote'[o] = "made"
      BY <2>1 DEF RemoteMoves
    <2> QED BY <1>2, <2>1, <2>2, <2>3 DEF OpSafe
  <1>7. AdmittedByAuthority
    BY <1>2 DEF AdmittedByAuthority, NewlyGranted
  <1>8. ArrivalsRight'
    <2> SUFFICES ASSUME NEW o \in Ops, rows[o].kind \in Intake
                 PROVE  /\ remote'[o] \in {"made", "accepted"} =>
                              account'[rows[o].person] # "none"
                        /\ remote'[o] = "made" /\ Unfinished(rows[o]) =>
                              ~Registered(rows[o].person)
      BY <1>2 DEF ArrivalsRight, Registered
    <2>1. RemoteMoves(o) /\ rows[o].person \in Subjects
      BY <1>1, IntakeRows DEF IntakeRow
    <2>2. CASE remote'[o] = remote[o]
      BY <2>1, <2>2 DEF AccountsInvariant, ArrivalsRight, WorldStep
    <2>3. CASE remote'[o] # remote[o]
      BY <2>1, <2>3 DEF RemoteMoves, AuthorityInvariant, WorldRight
    <2> QED BY <2>2, <2>3
  <1>9. AuthorityInvariant'
    BY WorldKeeps
  <1> QED BY <1>3, <1>4, <1>5, <1>6, <1>7, <1>8, <1>9 DEF AccountsInvariant

LEMMA LookKeeps ==
    ASSUME AuthorityInvariant, AccountsInvariant,
           \/ \E o \in Ops, a \in Subjects : LookUpCreated(o, a) \/ LookUpInvitation(o, a)
           \/ \E o \in Ops : LookUpAcceptance(o)
           \/ \E l \in looks : Abandon(l)
    PROVE  AuthorityInvariant' /\ AccountsInvariant' /\ AdmittedByAuthority
  <1>1. UNCHANGED <<others, rows, calls, provider, remote>>
    BY DEF LookUpCreated, LookUpInvitation, LookUpAcceptance, Abandon
  <1>2. LooksRight
    BY DEF AccountsInvariant
  <1>3. LooksRight'
    <2>1. CASE \E o \in Ops, a \in Subjects : LookUpCreated(o, a)
      BY <1>1, <1>2, <2>1 DEF LookUpCreated, LooksRight
    <2>2. CASE \E o \in Ops, a \in Subjects : LookUpInvitation(o, a)
      BY <1>1, <1>2, <2>2 DEF LookUpInvitation, LooksRight
    <2>3. CASE \E o \in Ops : LookUpAcceptance(o)
      BY <1>1, <1>2, <2>3 DEF LookUpAcceptance, Acceptable, LooksRight
    <2>4. CASE \E l \in looks : Abandon(l)
      BY <1>1, <1>2, <2>4 DEF Abandon, LooksRight
    <2> QED BY <2>1, <2>2, <2>3, <2>4
  <1>4. /\ remote' \in [Ops -> {"none", "made", "pending", "accepted", "revoked", "expired"}]
        /\ \A o \in Ops : RemoteMoves(o)
    BY <1>1 DEF AccountsInvariant, AccountTypes, RemoteMoves
  <1>5. WorldStep
    BY <1>1 DEF AuthorityInvariant, Types, WorldStep, others, trade, provider
  <1> QED BY <1>3, <1>4, <1>5, OutsideMovesKeep

LEMMA ProviderAppliesKeeps ==
    ASSUME AuthorityInvariant, AccountsInvariant, NEW w \in wire, ProviderApplies(w)
    PROVE  AuthorityInvariant' /\ AccountsInvariant' /\ AdmittedByAuthority
  <1>1. PICK o \in Ops : o = w.op
    BY DEF AccountsInvariant, WireRight
  <1>2. PICK task : task = w.task
    OBVIOUS
  <1>3. PICK now : now = (CASE task = "create" -> "made" [] task = "issue" -> "pending"
                           [] task = "revoke" -> "revoked")
    OBVIOUS
  <1>4. /\ task \in {"create", "issue", "revoke"} /\ now \in {"made", "pending", "revoked"}
        /\ task = "revoke" => remote[o] = "pending"
        /\ remote' = [remote EXCEPT ![o] = now]
        /\ wire' = wire \ {w}
        /\ task = "create" => /\ account[rows[o].person] = "none"
                              /\ account' = [account EXCEPT ![rows[o].person] = "live"]
        /\ task # "create" => account' = account
        /\ now = "made" <=> task = "create"
        /\ UNCHANGED <<others, rows, calls, looks>>
    BY <1>1, <1>2, <1>3 DEF ProviderApplies
  <1>5. /\ WireRight /\ LooksRight
        /\ remote \in [Ops -> {"none", "made", "pending", "accepted", "revoked", "expired"}]
    BY DEF AccountsInvariant, AccountTypes
  <1>6. remote[o] \in {"none", "pending"} /\ w \in Wired(o)
    BY <1>1, <1>2, <1>4, <1>5 DEF WireRight, Wired
  <1>7. ASSUME NEW v \in wire', v.op = o
        PROVE  v.task \notin {"create", "issue"}
    <2>1. v \in wire /\ v # w
      BY <1>4
    <2>2. /\ v \in [op : Ops, task : {"create", "issue", "revoke", "delete"}]
          /\ w \in [op : Ops, task : {"create", "issue", "revoke", "delete"}]
      BY <1>5, <2>1 DEF WireRight
    <2>3. v.task # w.task
      BY <1>1, <1>7, <2>1, <2>2
    <2>4. v.task \in {"create", "issue"} => remote[o] = "none"
      BY <1>5, <1>7, <2>1 DEF WireRight
    <2>5. /\ rows[o].kind = "create" => v.task = "create" /\ w.task = "create"
          /\ rows[o].kind = "invite" =>
                v.task \in {"issue", "revoke"} /\ w.task \in {"issue", "revoke"}
          /\ rows[o].kind \notin Intake => w.task = "delete"
      BY <1>1, <1>5, <1>7, <2>1 DEF WireRight
    <2> QED BY <1>2, <1>4, <2>3, <2>4, <2>5 DEF Intake
  <1>8. task = "create" => rows[o].person \in Subjects
    <2>1. task = "create" => rows[o].kind = "create"
      BY <1>1, <1>2, <1>5, IntakeRows DEF AccountsInvariant, WireRight, Intake
    <2> QED BY <2>1, IntakeRows DEF AccountsInvariant, IntakeRow, Intake
  <1>9. \A p \in Ops : RemoteMoves(p)
    <2>1. \A p \in Ops \ {o} : remote'[p] = remote[p]
      BY <1>4, <1>5
    <2>2. remote'[o] = now
      BY <1>4, <1>5
    <2>3. now = "made" => account'[rows[o].person] # "none"
      BY <1>4, <1>8 DEF AuthorityInvariant, Types
    <2> QED BY <1>4, <1>6, <1>7, <2>1, <2>2, <2>3 DEF RemoteMoves
  <1>10. remote' \in [Ops -> {"none", "made", "pending", "accepted", "revoked", "expired"}]
    BY <1>4, <1>5
  <1>11. LooksRight'
    BY <1>4, <1>5, <1>6 DEF LooksRight
  <1>12. WorldStep
    <2>1. PICK p : p = rows[o].person
      OBVIOUS
    <2>2. account' \in [Subjects -> {"none", "live", "gone"}]
      BY <1>4 DEF AuthorityInvariant, Types
    <2>3. \A s \in Subjects : /\ account[s] = "gone" => account'[s] = "gone"
                             /\ account[s] # "none" => account'[s] # "none"
      BY <1>4, <2>1 DEF AuthorityInvariant, Types
    <2>4. \A v \in wire : v.task = "delete" => v \in wire'
      BY <1>2, <1>4
    <2> QED BY <1>4, <2>2, <2>3, <2>4
            DEF AuthorityInvariant, Types, WorldStep, others, trade
  <1> QED BY <1>9, <1>10, <1>11, <1>12, OutsideMovesKeep

LEMMA PersonActsKeeps ==
    ASSUME AuthorityInvariant, AccountsInvariant,
           \/ \E p \in Subjects : SignUp(p)
           \/ \E o \in Ops : Expire(o)
    PROVE  AuthorityInvariant' /\ AccountsInvariant' /\ AdmittedByAuthority
  <1>1. /\ WireRight /\ LooksRight
        /\ remote \in [Ops -> {"none", "made", "pending", "accepted", "revoked", "expired"}]
    BY DEF AccountsInvariant, AccountTypes
  <1>2. /\ UNCHANGED <<others, rows, calls, looks, wire>>
        /\ \/ remote' = remote
           \/ \E o \in Ops, now \in {"accepted", "expired"} :
                 /\ remote[o] = "pending" /\ remote' = [remote EXCEPT ![o] = now]
                 /\ now = "accepted" => account'[rows[o].person] # "none"
    <2>1. CASE \E p \in Subjects : SignUp(p)
      <3>1. PICK p \in Subjects : SignUp(p)
        BY <2>1
      <3>2. account'[p] # "none"
        BY <3>1 DEF SignUp, AuthorityInvariant, Types
      <3> QED BY <3>1, <3>2 DEF SignUp
    <2>2. CASE \E o \in Ops : Expire(o)
      BY <2>2 DEF Expire, provider
    <2> QED BY <2>1, <2>2
  <1>3. WorldStep
    <2>1. /\ account' \in [Subjects -> {"none", "live", "gone"}]
          /\ \A s \in Subjects : /\ account[s] = "gone" => account'[s] = "gone"
                                 /\ account[s] # "none" => account'[s] # "none"
      BY DEF SignUp, Expire, AuthorityInvariant, Types, provider
    <2> QED BY <1>2, <2>1 DEF AuthorityInvariant, Types, WorldStep, others, trade
  <1>4. CASE remote' = remote
    <2>1. LooksRight' /\ \A o \in Ops : RemoteMoves(o)
      BY <1>1, <1>2, <1>4 DEF LooksRight, RemoteMoves
    <2> QED BY <1>3, <1>1, <1>4, <2>1, OutsideMovesKeep
  <1>5. CASE \E o \in Ops, now \in {"accepted", "expired"} :
                /\ remote[o] = "pending" /\ remote' = [remote EXCEPT ![o] = now]
                /\ now = "accepted" => account'[rows[o].person] # "none"
    <2>1. PICK o \in Ops, now \in {"accepted", "expired"} :
             /\ remote[o] = "pending" /\ remote' = [remote EXCEPT ![o] = now]
             /\ now = "accepted" => account'[rows[o].person] # "none"
      BY <1>5
    <2>2. remote' \in [Ops -> {"none", "made", "pending", "accepted", "revoked", "expired"}]
      BY <1>1, <2>1
    <2>3. \A p \in Ops : RemoteMoves(p)
      BY <1>1, <1>2, <2>1 DEF RemoteMoves, WireRight
    <2>4. LooksRight'
      BY <1>1, <1>2, <2>1 DEF LooksRight
    <2> QED BY <1>3, <2>2, <2>3, <2>4, OutsideMovesKeep
  <1> QED BY <1>2, <1>4, <1>5

-----------------------------------------------------------------------------
(* Places of an agency, and preparing *)

\* What agency_scope counted leaves a place for one more.
LEMMA PlacesLeft ==
    ASSUME AccountTypes, IsFiniteSet(Started), NEW owner \in Subjects, Bounded(owner),
           NEW o \in Ops, rows[o] = NoRow, NEW version, AgencyInScope(o, owner, version),
           NEW p \in Subjects
    PROVE  /\ IsFiniteSet(People(owner) \cup {p})
           /\ Cardinality(People(owner) \cup {p}) <= MaxMembers
  <1> DEFINE L == {s \in Members(owner) \cup {owner} : user[s].status # "deleted"}
             W == {q \in Ops \ {o} : Unfinished(rows[q]) /\ rows[q].owner = owner}
             f == [q \in W |-> rows[q].person]
             P == {f[q] : q \in W}
  <1>1. owner # NoSubject
    BY PeopleAssumption
  <1>2. Cardinality(L) + Cardinality(W) < MaxMembers /\ user[owner].status = "active"
    BY <1>1 DEF AgencyInScope, Taken
  <1>3. L \subseteq People(owner)
    BY DEF People, Members
  <1>4. W \subseteq Started
    BY DEF Started, Unfinished, NoRow
  <1>5. IsFiniteSet(L) /\ Cardinality(L) \in Nat /\ IsFiniteSet(W) /\ Cardinality(W) \in Nat
    BY <1>3, <1>4, FS_Subset, FS_CardinalityType DEF Bounded
  <1>6. f \in Surjection(W, P)
    BY DEF Surjection
  <1>7. IsFiniteSet(P) /\ Cardinality(P) <= Cardinality(W) /\ Cardinality(P) \in Nat
    BY <1>5, <1>6, FS_Surjection, FS_CardinalityType
  <1>8. People(owner) \subseteq L \cup P
    <2> SUFFICES ASSUME NEW s \in People(owner), s \notin L
                 PROVE  s \in P
      OBVIOUS
    <2>1. s \in Subjects /\ s # owner /\ ~(memberOf[s] = owner /\ user[s].status # "deleted")
      BY <1>2 DEF People, Members
    <2>2. PICK q \in Ops : Unfinished(rows[q]) /\ rows[q].owner = owner /\ rows[q].person = s
      BY <2>1 DEF People
    <2>3. q # o
      BY <2>2 DEF Unfinished, NoRow
    <2>4. q \in W /\ f[q] = s
      BY <2>2, <2>3
    <2> QED BY <2>4
  <1> HIDE DEF L, W, f, P
  <1>9. IsFiniteSet(L \cup P) /\ Cardinality(L \cup P) <= Cardinality(L) + Cardinality(P)
        /\ Cardinality(L \cup P) \in Nat
    <2>1. /\ IsFiniteSet(L \cup P)
          /\ Cardinality(L \cup P) =
                Cardinality(L) + Cardinality(P) - Cardinality(L \cap P)
      BY <1>5, <1>7, FS_Union
    <2>2. IsFiniteSet(L \cap P) /\ Cardinality(L \cap P) \in Nat
      BY <1>5, FS_Subset, FS_CardinalityType
    <2> QED BY <1>5, <1>7, <2>1, <2>2, FS_CardinalityType
  <1>10. /\ IsFiniteSet(L \cup P \cup {p})
         /\ Cardinality(L \cup P \cup {p}) <= Cardinality(L \cup P) + 1
         /\ Cardinality(L \cup P \cup {p}) \in Nat
    <2>1. PICK Q : Q = L \cup P
      OBVIOUS
    <2>2. IsFiniteSet(Q) /\ Cardinality(Q) \in Nat
      BY <1>9, <2>1
    <2>3. /\ IsFiniteSet(Q \cup {p})
          /\ Cardinality(Q \cup {p}) = IF p \in Q THEN Cardinality(Q) ELSE Cardinality(Q) + 1
      BY <2>2, FS_AddElement
    <2> QED BY <2>1, <2>2, <2>3
  <1>11. Cardinality(L \cup P \cup {p}) <= MaxMembers
    BY <1>2, <1>5, <1>7, <1>9, <1>10, MembersAssumption
  <1>12. People(owner) \cup {p} \in SUBSET (L \cup P \cup {p})
    BY <1>8
  <1>13. /\ IsFiniteSet(People(owner) \cup {p})
         /\ Cardinality(People(owner) \cup {p}) <= Cardinality(L \cup P \cup {p})
         /\ Cardinality(People(owner) \cup {p}) \in Nat
    BY <1>10, <1>12, FS_Subset, FS_CardinalityType
  <1> QED BY <1>10, <1>11, <1>13, MembersAssumption

LEMMA PrepareKeeps ==
    ASSUME AuthorityInvariant, AccountsInvariant,
           NEW o \in Ops, NEW actor \in Subjects, NEW p \in Subjects,
           NEW role \in Grants, NEW owner \in Subjects \cup {NoSubject},
           PrepareCreate(o, actor, p, role, owner) \/ PrepareInvite(o, actor, p, role, owner)
    PROVE  AuthorityInvariant' /\ AccountsInvariant' /\ AdmittedByAuthority
  <1>1. PICK kind \in Intake :
             /\ rows[o] = NoRow /\ LockFree
             /\ (role = "b2b_sub") = (owner # NoSubject)
             /\ Unreserved(p) /\ AgencyInScope(o, owner, AgencyVersion(owner))
             /\ rows' = [rows EXCEPT ![o] = NewRow(kind, actor, p, role, owner)]
             /\ user[actor].status = "active"
             /\ UNCHANGED <<others, calls, provider, remote, looks>>
    BY DEF PrepareCreate, PrepareInvite, Intake, MayAct
  <1>2. /\ AccountTypes /\ CallsRight /\ WireRight /\ LooksRight /\ OnePerPerson /\ PlacesRight
        /\ OpSafe(o)
    BY DEF AccountsInvariant
  <1>3. PICK row : row = NewRow(kind, actor, p, role, owner)
    OBVIOUS
  <1>4. /\ row \in IntakeRow /\ row.kind = kind /\ row.person = p /\ row.owner = owner
        /\ row.issuer = actor /\ row.subject = NoSubject
        /\ row.state = "prepared" /\ Unfinished(row) /\ RowRight(row)
    <2>1. PICK version : version = AgencyVersion(owner)
      OBVIOUS
    <2>2. version \in Nat
      BY <1>2, <2>1 DEF AgencyVersion, AccountTypes, AgencyRow
    <2>3. row = [kind |-> kind, issuer |-> actor, person |-> p, subject |-> NoSubject,
                 role |-> role, owner |-> owner, version |-> version, state |-> "prepared",
                 fence |-> 0, attempts |-> 0, revokes |-> 0, revoked |-> FALSE]
      BY <1>3, <2>1 DEF NewRow
    <2>4. row \in IntakeRow
      BY <2>2, <2>3 DEF IntakeRow, CreateStates
    <2>5. Unfinished(row) /\ RowRight(row)
      BY <1>1, <2>3 DEF Unfinished, RowRight, Intake, CreateStates, InviteStates
    <2> QED BY <2>3, <2>4, <2>5
  <1>5. /\ rows' \in [Ops -> Rows]
        /\ rows'[o] = row /\ \A q \in Ops \ {o} : rows'[q] = rows[q]
    BY <1>1, <1>2, <1>3, <1>4 DEF AccountTypes, Rows
  <1>6. /\ user' = user /\ agency' = agency /\ memberOf' = memberOf /\ txn' = txn
        /\ calls' = calls /\ wire' = wire /\ remote' = remote /\ looks' = looks
    BY <1>1 DEF others, registry, provider
  <1>7. AccountTypes'
    BY <1>2, <1>5, <1>6 DEF AccountTypes
  <1>8. rows[o].kind = "none" /\ Untouched(o)
    BY <1>1, <1>2 DEF NoRow, OpSafe
  <1>9. CallsRight'
    BY <1>2, <1>5, <1>6, <1>8 DEF CallsRight, Intake
  <1>10. WireRight'
    <2>1. \A w \in wire : w.op \in Ops \ {o}
      BY <1>2, <1>8 DEF WireRight, Untouched, Wired
    <2> QED BY <1>2, <1>5, <1>6, <2>1 DEF WireRight
  <1>11. LooksRight'
    BY <1>2, <1>5, <1>6, <1>8 DEF LooksRight
  <1>12. TxnRight'
    BY <1>1, <1>6 DEF TxnRight, LockFree
  <1>13. ASSUME NEW q \in Ops
         PROVE  OpSafe(q)'
    <2>1. CASE q = o
      <3>1. Untouched(o)'
        BY <1>6, <1>8 DEF Untouched, Wired
      <3>2. rows'[q] = row /\ rows'[q].state = "prepared" /\ rows'[q].kind \in Intake
        BY <1>4, <1>5, <2>1
      <3> QED BY <1>4, <2>1, <3>1, <3>2 DEF OpSafe, Intake
    <2>2. CASE q # o
      <3>1. OpSafe(q) /\ rows'[q] = rows[q]
        BY <1>5, <2>2 DEF AccountsInvariant
      <3> QED BY <1>6, <3>1 DEF OpSafe, Untouched, Wired
    <2> QED BY <2>1, <2>2
  <1>14. OnePerPerson'
    BY <1>1, <1>2, <1>4, <1>5 DEF OnePerPerson, Unreserved
  <1>15. IsFiniteSet(Started')
    <2>1. Started' \subseteq Started \cup {o}
      BY <1>5 DEF Started
    <2>2. IsFiniteSet(Started \cup {o})
      BY <1>2, FS_AddElement DEF PlacesRight
    <2> QED BY <2>1, <2>2, FS_Subset
  <1>16. ASSUME NEW s \in Subjects
         PROVE  Bounded(s)'
    <2>1. CASE s = owner
      <3>1. People(s)' \subseteq People(s) \cup {p}
        BY <1>4, <1>5, <1>6 DEF People
      <3>2. /\ IsFiniteSet(People(s) \cup {p})
            /\ Cardinality(People(s) \cup {p}) <= MaxMembers
        BY <1>1, <1>2, <2>1, PlacesLeft DEF PlacesRight
      <3>3. /\ IsFiniteSet(People(s)')
            /\ Cardinality(People(s)') <= Cardinality(People(s) \cup {p})
        BY <3>1, <3>2, FS_Subset
      <3>4. Cardinality(People(s)') \in Nat /\ Cardinality(People(s) \cup {p}) \in Nat
        BY <3>2, <3>3, FS_CardinalityType
      <3> QED BY <3>2, <3>3, <3>4, MembersAssumption DEF Bounded
    <2>2. CASE s # owner
      <3>1. People(s)' \subseteq People(s)
        BY <1>4, <1>5, <1>6, <2>2 DEF People
      <3> QED BY <1>2, <3>1, FewerPeople DEF PlacesRight
    <2> QED BY <2>1, <2>2
  <1>17. AdmittedByAuthority
    BY <1>6 DEF AdmittedByAuthority, NewlyGranted
  <1>18. ArrivalsRight'
    <2>1. \A q \in Ops \ {o} : rows'[q] = rows[q]
      BY <1>5
    <2>2. remote'[o] = "none" /\ remote' = remote /\ account' = account
      BY <1>1, <1>6, <1>8 DEF Untouched, provider
    <2> QED BY <1>6, <2>1, <2>2 DEF AccountsInvariant, ArrivalsRight, Registered, Unfinished
  <1>19. IntakeMoves
    <2>1. ASSUME NEW t \in Subjects, Terminal(t), WorkOf(t) = {}
          PROVE  WorkOf(t)' = {}
      <3>1. \A q \in Ops : ~(Unfinished(rows[q])
                              /\ t \in {rows[q].issuer, rows[q].subject, rows[q].owner})
        BY <2>1 DEF WorkOf
      <3>2. t \notin {row.issuer, row.subject, row.owner}
        BY <1>1, <1>4, <2>1, PeopleAssumption DEF Terminal, AgencyInScope
      <3>3. \A q \in Ops : ~(Unfinished(rows'[q])
                              /\ t \in {rows'[q].issuer, rows'[q].subject, rows'[q].owner})
        BY <1>5, <3>1, <3>2 DEF Unfinished
      <3> QED BY <3>3 DEF WorkOf, Unfinished
    <2>2. effects' \subseteq Subjects /\ UNCHANGED <<txn, barred, inbox, trade, account>>
      BY <1>1 DEF others, provider, AuthorityInvariant, Types
    <2>3. \A q \in Ops : rows'[q] = rows[q] \/ (rows[q] = NoRow /\ rows'[q] \in IntakeRow)
      BY <1>1, <1>4, <1>5
    <2> QED BY <1>1, <1>5, <1>6, <2>1, <2>2, <2>3 DEF IntakeMoves
  <1>20. PersonArrives(p)
    BY <1>6 DEF AuthorityInvariant, Types, PersonArrives, OwnsActive
  <1>21. AuthorityInvariant'
    BY <1>19, <1>20, ArrivalKeeps
  <1> QED BY <1>7, <1>9, <1>10, <1>11, <1>12, <1>13, <1>14, <1>15, <1>16, <1>17, <1>18, <1>21
          DEF AccountsInvariant, PlacesRight

-----------------------------------------------------------------------------
(* Admission *)

LEMMA AdmitMoves ==
    ASSUME AccountTypes, NEW o \in Ops, rows[o] \in IntakeRow, Admit(o)
    PROVE  /\ user' \in [Subjects -> UserRow] /\ agency' \in [Subjects -> AgencyRow]
           /\ memberOf' \in [Subjects -> Subjects \cup {NoSubject}]
           /\ user[rows[o].person].status = "absent" /\ rows[o].person \notin barred
           /\ user'[rows[o].person].role = rows[o].role
           /\ user'[rows[o].person].status \in {"onboarding", "active"}
           /\ \A s \in Subjects : agency'[s].status = "active" =>
                 \/ OwnsActive(s)
                 \/ user'[s].role = "b2b" /\ user'[s].status = "active"
           /\ effects' = effects \cup {rows[o].person}
           /\ \A s \in Subjects : s # rows[o].person => user'[s] = user[s]
           /\ \A s \in Subjects : memberOf'[s] = memberOf[s]
                                  \/ (s = rows[o].person /\ memberOf'[s] = rows[o].owner)
  <1>1. PICK p \in Subjects, role \in Grants, owner \in Subjects \cup {NoSubject} :
           p = rows[o].person /\ role = rows[o].role /\ owner = rows[o].owner
    BY DEF IntakeRow
  <1>2. PICK row : row = Grantee(role)
    OBVIOUS
  <1>3. /\ row \in UserRow /\ row.role = role /\ row.status \in {"onboarding", "active"}
        /\ role = "b2b" => row.status = "active"
    <2>1. PICK status \in {"onboarding", "active"} :
             status = IF role = "customer" THEN "onboarding" ELSE "active"
      OBVIOUS
    <2>2. PICK version \in Nat :
             version = CASE role = "customer" -> 1
                         [] role \in {"b2b", "b2b_sub"} -> 3
                         [] OTHER -> 2
      OBVIOUS
    <2>3. row = [role |-> role, status |-> status, version |-> version]
      BY <1>2, <2>1, <2>2 DEF Grantee
    <2>4. row \in UserRow
      BY <2>3, PeopleAssumption DEF UserRow, Statuses
    <2> QED BY <2>1, <2>3, <2>4
  <1>4. /\ user' = [user EXCEPT ![p] = row]
        /\ user[p].status = "absent" /\ p \notin barred
        /\ agency' = IF role = "b2b"
                     THEN [agency EXCEPT ![p] = [status |-> "active", version |-> 1]]
                     ELSE agency
        /\ memberOf' = IF role = "b2b_sub" THEN [memberOf EXCEPT ![p] = owner] ELSE memberOf
        /\ effects' = effects \cup {p}
    BY <1>1, <1>2 DEF Admit, Registered, NotBarred
  <1>5. /\ user' \in [Subjects -> UserRow]
        /\ user'[p] = row /\ \A s \in Subjects : s # p => user'[s] = user[s]
    BY <1>3, <1>4 DEF AccountTypes
  <1>6. agency' \in [Subjects -> AgencyRow]
    <2>1. [status |-> "active", version |-> 1] \in AgencyRow
      BY DEF AgencyRow
    <2> QED BY <1>4, <2>1 DEF AccountTypes
  <1>7. /\ memberOf' \in [Subjects -> Subjects \cup {NoSubject}]
        /\ \A s \in Subjects : memberOf'[s] = memberOf[s] \/ (s = p /\ memberOf'[s] = owner)
    BY <1>4 DEF AccountTypes
  <1>8. \A s \in Subjects : agency'[s].status = "active" =>
            \/ OwnsActive(s)
            \/ user'[s].role = "b2b" /\ user'[s].status = "active"
    BY <1>3, <1>4, <1>5 DEF AccountTypes, OwnsActive
  <1> QED BY <1>1, <1>3, <1>4, <1>5, <1>6, <1>7, <1>8

LEMMA AdmitKeeps ==
    ASSUME AuthorityInvariant, AccountsInvariant,
           NEW o \in Ops, Unfinished(rows[o]), Admit(o), NEW row,
           IntakeRowStep(o, row), ~Unfinished(row), OpSafe(o)', InScopeRow(o),
           ~rows[o].revoked, remote[o] \in {"made", "accepted"},
           \E a \in Subjects : Permitted(a, rows[o].role, rows[o].owner),
           rows[o].kind = "invite" => IssuerStands(o)
    PROVE  AuthorityInvariant' /\ AccountsInvariant' /\ AdmittedByAuthority
  <1>1. AccountTypes /\ OnePerPerson /\ PlacesRight /\ rows[o] \in IntakeRow
    BY DEF AccountsInvariant, IntakeRowStep
  <1>2. /\ rows' \in [Ops -> Rows]
        /\ CallsRight' /\ WireRight' /\ LooksRight' /\ TxnRight'
        /\ \A p \in Ops : OpSafe(p)'
        /\ OnePerPerson' /\ IsFiniteSet(Started') /\ rows'[o] = row
        /\ \A p \in Ops : /\ rows'[p].kind = rows[p].kind
                          /\ Unfinished(rows'[p]) => Unfinished(rows[p])
                          /\ rows'[p].person = rows[p].person /\ rows'[p].owner = rows[p].owner
    BY IntakeRowStepKeeps
  <1>3. PICK p \in Subjects : p = rows[o].person
    BY <1>1 DEF IntakeRow
  <1>4. /\ user' \in [Subjects -> UserRow] /\ agency' \in [Subjects -> AgencyRow]
        /\ memberOf' \in [Subjects -> Subjects \cup {NoSubject}]
        /\ user[p].status = "absent" /\ p \notin barred
        /\ user'[p].role = rows[o].role /\ user'[p].status \in {"onboarding", "active"}
        /\ \A s \in Subjects : agency'[s].status = "active" =>
              \/ OwnsActive(s)
              \/ user'[s].role = "b2b" /\ user'[s].status = "active"
        /\ effects' = effects \cup {p}
        /\ \A s \in Subjects : s # p => user'[s] = user[s]
        /\ \A s \in Subjects : memberOf'[s] = memberOf[s]
                               \/ (s = p /\ memberOf'[s] = rows[o].owner)
    BY <1>1, <1>3, AdmitMoves
  <1>5. AccountTypes'
    BY <1>1, <1>2, <1>4 DEF AccountTypes, IntakeRowStep
  <1>6. PlacesRight'
    <2>1. ASSUME NEW s \in Subjects
          PROVE  People(s)' \subseteq People(s)
      <3> SUFFICES ASSUME NEW t \in Subjects, t # s, t \in People(s)'
                   PROVE  t \in People(s)
        BY DEF People
      <3>1. CASE memberOf'[t] = s /\ user'[t].status # "deleted"
        <4>1. CASE memberOf[t] = s
          BY <1>4, <3>1, <4>1 DEF People
        <4>2. CASE t = p /\ rows[o].owner = s
          BY <1>3, <4>2 DEF People
        <4> QED BY <1>4, <3>1, <4>1, <4>2
      <3>2. CASE \E q \in Ops : Unfinished(rows'[q]) /\ rows'[q].owner = s /\ rows'[q].person = t
        BY <1>2, <3>2 DEF People
      <3> QED BY <3>1, <3>2 DEF People
    <2> QED BY <1>1, <1>2, <2>1, FewerPeople DEF PlacesRight
  <1>7. AdmittedByAuthority
    <2> SUFFICES ASSUME NEW s \in Subjects, NewlyGranted(s)
                 PROVE  /\ s \notin barred
                        /\ \A q \in Ops : Unfinished(rows[q]) /\ rows[q].person = s
                              => Granting(q, s)
                        /\ \E q \in Ops :
                            /\ Granting(q, s) /\ user'[s].role = rows[q].role /\ ~rows[q].revoked
                            /\ remote[q] \in {"made", "accepted"}
                            /\ \E a \in Subjects : Permitted(a, rows[q].role, rows[q].owner)
                            /\ rows[q].kind = "invite" =>
                                  Permitted(rows[q].issuer, rows[q].role, rows[q].owner)
                            /\ rows[q].owner # NoSubject =>
                                  agency[rows[q].owner] =
                                      [status |-> "active", version |-> rows[q].version]
      BY DEF AdmittedByAuthority
    <2>1. s = p
      BY <1>4 DEF NewlyGranted
    <2>2. Granting(o, s)
      BY <1>1, <1>2, <1>3, <2>1 DEF Granting, IntakeRow, Intake
    <2>3. \A q \in Ops : Unfinished(rows[q]) /\ rows[q].person = s => Granting(q, s)
      BY <1>1, <1>3, <2>1, <2>2 DEF OnePerPerson
    <2>4. rows[o].kind = "invite" => Permitted(rows[o].issuer, rows[o].role, rows[o].owner)
      BY DEF IssuerStands, PermittedRow
    <2>5. rows[o].owner # NoSubject =>
             agency[rows[o].owner] = [status |-> "active", version |-> rows[o].version]
      BY DEF InScopeRow, AgencyInScope
    <2> QED BY <1>4, <2>1, <2>2, <2>3, <2>4, <2>5
  <1>8. account' = account /\ remote' = remote /\ account[p] # "none"
    BY <1>1, <1>3 DEF AccountsInvariant, ArrivalsRight, IntakeRowStep, IntakeRow
  <1>9. ArrivalsRight'
    <2> SUFFICES ASSUME NEW q \in Ops, rows'[q].kind \in Intake
                 PROVE  /\ remote[q] \in {"made", "accepted"} =>
                              account[rows[q].person] # "none"
                        /\ remote[q] = "made" /\ Unfinished(rows'[q]) =>
                              user'[rows[q].person].status = "absent"
      BY <1>2, <1>8 DEF ArrivalsRight, Registered
    <2>1. rows[q].kind \in Intake /\ rows[q].person \in Subjects
      BY <1>1, <1>2, IntakeRows DEF IntakeRow
    <2>2. Unfinished(rows'[q]) => rows[q].person # p
      BY <1>1, <1>2, <1>3 DEF OnePerPerson
    <2> QED BY <1>2, <1>4, <2>1, <2>2 DEF AccountsInvariant, ArrivalsRight, Registered
  <1>10. PersonArrives(p)
    <2>1. rows[o].owner # NoSubject => ~Terminal(rows[o].owner)
      BY DEF InScopeRow, AgencyInScope, Terminal
    <2> QED BY <1>4, <1>8, <2>1 DEF PersonArrives, Registered, NotBarred
  <1>11. AuthorityInvariant'
    <2>1. effects' \subseteq Subjects
      BY <1>4 DEF AuthorityInvariant, Types
    <2>2. IntakeMoves
      BY <1>2, <2>1, IntakeRowMoves
    <2> QED BY <1>10, <2>2, ArrivalKeeps
  <1> QED BY <1>2, <1>5, <1>6, <1>7, <1>9, <1>11 DEF AccountsInvariant

LEMMA FinalizeCreateKeeps ==
    ASSUME AuthorityInvariant, AccountsInvariant,
           NEW l \in looks, NEW actor \in Subjects, FinalizeCreate(l, actor)
    PROVE  AuthorityInvariant' /\ AccountsInvariant' /\ AdmittedByAuthority
  <1>1. PICK o \in Ops : o = l.op
    BY DEF AccountsInvariant, LooksRight
  <1>2. /\ LockFree /\ rows[o].kind = "create" /\ rows[o].state = "provider_confirmed"
        /\ Oversight(o, actor) /\ InScopeRow(o) /\ Admit(o)
        /\ Moved(o, "completed")
        /\ looks' = looks \ {l}
        /\ UNCHANGED <<txn, calls, barred, inbox, trade, provider, remote>>
    BY <1>1 DEF FinalizeCreate, Moved
  <1>3. rows[o] \in IntakeRow /\ OpSafe(o) /\ Unfinished(rows[o])
    BY <1>2, IntakeRows DEF AccountsInvariant, Unfinished, Intake
  <1>4. PICK row \in IntakeRow :
           /\ rows' = [rows EXCEPT ![o] = row] /\ SameIntent(row, rows[o])
           /\ row.state = "completed" /\ row.revoked = rows[o].revoked
           /\ row.subject = rows[o].subject /\ row.fence = rows[o].fence
    BY <1>2, <1>3, MovedIntake DEF CreateStates
  <1>5. ~Unfinished(row)
    BY <1>2, <1>4 DEF SameIntent, Unfinished
  <1>6. IntakeRowStep(o, row)
    <2>1. row.fence \in Nat /\ row.fence >= rows[o].fence
      BY <1>4 DEF IntakeRow
    <2> QED BY <1>2, <1>3, <1>4, <1>5, <2>1 DEF IntakeRowStep, provider
  <1>7. OpSafe(o)'
    BY <1>2, <1>4, CreateSafe DEF CreateStates
  <1>8. ~rows[o].revoked /\ remote[o] = "made"
    BY <1>2, <1>3 DEF OpSafe, RowRight
  <1>9. Permitted(actor, rows[o].role, rows[o].owner)
    BY <1>2 DEF Oversight, MayAct, CanGrant, Permitted, Manages
  <1> QED BY <1>2, <1>3, <1>5, <1>6, <1>7, <1>8, <1>9, AdmitKeeps

LEMMA AcceptKeeps ==
    ASSUME AuthorityInvariant, AccountsInvariant, NEW l \in looks, Accept(l)
    PROVE  AuthorityInvariant' /\ AccountsInvariant' /\ AdmittedByAuthority
  <1>1. PICK o \in Ops : o = l.op
    BY DEF AccountsInvariant, LooksRight
  <1>2. /\ LockFree /\ Acceptable(o) /\ IssuerStands(o) /\ InScopeRow(o) /\ Admit(o)
        /\ l.saw = "accepted" /\ Moved(o, "accepted")
        /\ looks' = looks \ {l}
        /\ UNCHANGED <<txn, calls, barred, inbox, trade, provider, remote>>
    BY <1>1 DEF Accept, Moved
  <1>3. rows[o].kind = "invite" /\ ~rows[o].revoked /\ rows[o].state = "pending"
    BY <1>2 DEF Acceptable
  <1>4. rows[o] \in IntakeRow /\ Unfinished(rows[o])
    BY <1>3, IntakeRows DEF AccountsInvariant, Unfinished, Intake
  <1>5. PICK row \in IntakeRow :
           /\ rows' = [rows EXCEPT ![o] = row] /\ SameIntent(row, rows[o])
           /\ row.state = "accepted" /\ row.revoked = rows[o].revoked
           /\ row.subject = rows[o].subject /\ row.fence = rows[o].fence
    BY <1>2, <1>4, MovedIntake DEF InviteStates
  <1>6. ~Unfinished(row)
    BY <1>3, <1>5 DEF SameIntent, Unfinished
  <1>7. IntakeRowStep(o, row)
    <2>1. row.fence \in Nat /\ row.fence >= rows[o].fence
      BY <1>5 DEF IntakeRow
    <2> QED BY <1>2, <1>4, <1>5, <1>6, <2>1 DEF IntakeRowStep, provider
  <1>8. OpSafe(o)'
    BY <1>2, <1>3, <1>5, InviteSafe DEF InviteStates
  <1>9. remote[o] = "accepted"
    BY <1>1, <1>2 DEF AccountsInvariant, LooksRight
  <1>10. Permitted(rows[o].issuer, rows[o].role, rows[o].owner) /\ rows[o].issuer \in Subjects
    BY <1>2, <1>4 DEF IssuerStands, PermittedRow, IntakeRow
  <1> QED BY <1>2, <1>3, <1>4, <1>6, <1>7, <1>8, <1>9, <1>10, AdmitKeeps

LEMMA OnboardKeeps ==
    ASSUME AuthorityInvariant, AccountsInvariant, NEW p \in Subjects, Onboard(p)
    PROVE  AuthorityInvariant' /\ AccountsInvariant' /\ AdmittedByAuthority
  <1>1. /\ AccountTypes /\ CallsRight /\ WireRight /\ LooksRight /\ TxnRight
        /\ OnePerPerson /\ PlacesRight
    BY DEF AccountsInvariant
  <1>2. /\ LockFree /\ user[p].status = "absent" /\ p \notin barred /\ Unreserved(p)
        /\ user' = [user EXCEPT ![p] = Grantee("customer")]
        /\ agency' = agency /\ memberOf' = memberOf /\ txn' = txn /\ rows' = rows
        /\ calls' = calls /\ wire' = wire /\ remote' = remote /\ looks' = looks
    BY DEF Onboard, Registered, NotBarred, Onboardable, provider
  <1>3. /\ Grantee("customer") = [role |-> "customer", status |-> "onboarding", version |-> 1]
        /\ Grantee("customer") \in UserRow
    BY DEF Grantee, UserRow, Roles, Statuses
  <1>4. /\ user' \in [Subjects -> UserRow]
        /\ user'[p].role = "customer" /\ user'[p].status = "onboarding"
        /\ \A s \in Subjects : s # p => user'[s] = user[s]
    BY <1>1, <1>2, <1>3 DEF AccountTypes
  <1>5. AccountTypes' /\ CallsRight' /\ WireRight' /\ LooksRight' /\ OnePerPerson'
    BY <1>1, <1>2, <1>4 DEF AccountTypes, CallsRight, WireRight, LooksRight, OnePerPerson
  <1>6. TxnRight'
    BY <1>2 DEF TxnRight, LockFree
  <1>7. \A o \in Ops : OpSafe(o)'
    BY <1>2 DEF AccountsInvariant, OpSafe, Untouched, Wired
  <1>8. PlacesRight'
    <2>1. Started' = Started
      BY <1>2 DEF Started
    <2>2. ASSUME NEW s \in Subjects
          PROVE  People(s)' \subseteq People(s)
      BY <1>2, <1>4 DEF People
    <2> QED BY <1>1, <2>1, <2>2, FewerPeople DEF PlacesRight
  <1>9. AdmittedByAuthority
    <2>1. \A s \in Subjects : NewlyGranted(s) => s = p
      BY <1>4 DEF NewlyGranted
    <2> QED BY <1>2, <1>4, <2>1 DEF AdmittedByAuthority, Unreserved
  <1>10. ArrivalsRight'
    <2>1. \A o \in Ops : Unfinished(rows[o]) => rows[o].person # p
      BY <1>2 DEF Unreserved
    <2>2. \A o \in Ops : rows[o].kind \in Intake => rows[o].person \in Subjects
      BY <1>1, IntakeRows DEF IntakeRow
    <2>3. account' = account
      BY DEF Onboard, provider
    <2> QED BY <1>2, <1>4, <2>1, <2>2, <2>3 DEF AccountsInvariant, ArrivalsRight, Registered
  <1>11. PersonArrives(p)
    BY <1>1, <1>2, <1>4 DEF Onboard, PersonArrives, AccountTypes, Registered, NotBarred, OwnsActive
  <1>12. IntakeMoves
    <2>1. \A t \in Subjects : WorkOf(t)' = WorkOf(t)
      BY <1>2 DEF WorkOf, Unfinished
    <2>2. effects' \subseteq Subjects /\ UNCHANGED <<txn, barred, inbox, trade, account>>
      BY DEF Onboard, provider, AuthorityInvariant, Types
    <2> QED BY <1>1, <1>2, <2>1, <2>2 DEF IntakeMoves, AccountTypes
  <1>13. AuthorityInvariant'
    BY <1>11, <1>12, ArrivalKeeps
  <1> QED BY <1>5, <1>6, <1>7, <1>8, <1>9, <1>10, <1>13 DEF AccountsInvariant

-----------------------------------------------------------------------------
(* The properties of accounts *)

LEMMA AccountsInit == InitAccounts => AccountsInvariant
  <1> SUFFICES ASSUME InitAccounts
               PROVE  AccountsInvariant
    OBVIOUS
  <1> USE DEF InitAccounts, Init
  <1>1. AccountTypes
    <2>1. user \in [Subjects -> UserRow]
      BY PeopleAssumption DEF UserRow, Statuses, Absent, Roles
    <2>2. agency \in [Subjects -> AgencyRow]
      BY DEF AgencyRow, NoAgency
    <2>3. /\ memberOf \in [Subjects -> Subjects \cup {NoSubject}]
          /\ txn \in [Ops -> {NoTxn} \cup ChangeTxn \cup DeleteTxn]
          /\ rows \in [Ops -> Rows]
          /\ remote \in [Ops -> {"none", "made", "pending", "accepted", "revoked", "expired"}]
      BY PeopleAssumption DEF Rows
    <2> QED BY <2>1, <2>2, <2>3 DEF AccountTypes
  <1>2. CallsRight /\ WireRight /\ LooksRight /\ TxnRight
    BY DEF CallsRight, WireRight, LooksRight, TxnRight
  <1>3. \A o \in Ops : OpSafe(o)
    BY DEF OpSafe, RowRight, Untouched, Wired, Intake, NoRow
  <1>4. OnePerPerson
    BY DEF OnePerPerson, Unfinished, NoRow
  <1>5. PlacesRight
    <2>1. Started = {}
      BY DEF Started
    <2>2. ASSUME NEW s \in Subjects
          PROVE  Bounded(s)
      <3> DEFINE first == {s} \cup {p \in Subjects : OwnerOf0[p] = s}
      <3>1. /\ IsFiniteSet(first) /\ Cardinality(first) <= MaxMembers
        BY MembersAssumption
      <3>2. People(s) \subseteq first
        BY DEF People, Unfinished, NoRow
      <3> HIDE DEF first
      <3>3. /\ IsFiniteSet(People(s)) /\ Cardinality(People(s)) <= Cardinality(first)
        BY <3>1, <3>2, FS_Subset
      <3>4. Cardinality(People(s)) \in Nat /\ Cardinality(first) \in Nat
        BY <3>1, <3>3, FS_CardinalityType
      <3> QED BY <3>1, <3>3, <3>4, MembersAssumption DEF Bounded
    <2> QED BY <2>1, <2>2, FS_EmptySet DEF PlacesRight
  <1>6. ArrivalsRight
    BY DEF ArrivalsRight, Intake, NoRow
  <1> QED BY <1>1, <1>2, <1>3, <1>4, <1>5, <1>6 DEF AccountsInvariant

LEMMA IdentityNext ==
    ASSUME AuthorityInvariant, AccountsInvariant, [Next]_accountVars
    PROVE  AuthorityInvariant' /\ AccountsInvariant' /\ (Next => AdmittedByAuthority)
  <1>1. ASSUME NEW o \in Ops, NEW a \in Subjects, NEW p \in Subjects, NEW r \in Grants,
               NEW w \in Subjects \cup {NoSubject},
               PrepareCreate(o, a, p, r, w) \/ PrepareInvite(o, a, p, r, w)
        PROVE  AuthorityInvariant' /\ AccountsInvariant' /\ AdmittedByAuthority
    BY <1>1, PrepareKeeps
  <1>2. ASSUME NEW o \in Ops, NEW a \in Subjects,
               \/ ClaimCreate(o, a) \/ ClaimCreateObservation(o, a) \/ RecoverCreate(o, a)
               \/ CancelCreate(o, a) \/ LookUpCreated(o, a)
        PROVE  AuthorityInvariant' /\ AccountsInvariant' /\ AdmittedByAuthority
    BY <1>2, CreateClaimKeeps, CreateEndKeeps, LookKeeps
  <1>3. ASSUME NEW o \in Ops, NEW a \in Subjects,
               \/ RequestRevoke(o, a) \/ ClaimIssue(o, a) \/ ClaimRevoke(o, a)
               \/ ClaimInviteObservation(o, a) \/ RecoverInvite(o, a) \/ LookUpInvitation(o, a)
        PROVE  AuthorityInvariant' /\ AccountsInvariant' /\ AdmittedByAuthority
    BY <1>3, RequestRevokeKeeps, InviteClaimKeeps, RecoverInviteKeeps, LookKeeps
  <1>4. ASSUME NEW c \in calls,
               \/ \E r \in {"confirmed", "not_sent", "unknown"} : FinishCreate(c, r)
               \/ \E r \in {"pending", "accepted", "revoked", "expired", "not_sent", "unknown"} :
                     FinishInvite(c, r)
        PROVE  AuthorityInvariant' /\ AccountsInvariant' /\ AdmittedByAuthority
    BY <1>4, FinishCreateKeeps, FinishInviteKeeps
  <1>5. ASSUME NEW o \in Ops, LookUpAcceptance(o) \/ Expire(o)
        PROVE  AuthorityInvariant' /\ AccountsInvariant' /\ AdmittedByAuthority
    BY <1>5, LookKeeps, PersonActsKeeps
  <1>6. ASSUME NEW l \in looks,
               \/ Accept(l) \/ Abandon(l)
               \/ \E a \in Subjects : FinalizeCreate(l, a) \/ Refresh(l, a)
        PROVE  AuthorityInvariant' /\ AccountsInvariant' /\ AdmittedByAuthority
    BY <1>6, AcceptKeeps, LookKeeps, FinalizeCreateKeeps, RefreshKeeps
  <1>7. ASSUME NEW p \in Subjects, Onboard(p) \/ SignUp(p)
        PROVE  AuthorityInvariant' /\ AccountsInvariant' /\ AdmittedByAuthority
    BY <1>7, OnboardKeeps, PersonActsKeeps
  <1>8. ASSUME NEW w \in wire, ProviderApplies(w)
        PROVE  AuthorityInvariant' /\ AccountsInvariant' /\ AdmittedByAuthority
    BY <1>8, ProviderAppliesKeeps
  <1>9. ASSUME NextAuthority, UNCHANGED <<remote, looks>>
        PROVE  AuthorityInvariant' /\ AccountsInvariant' /\ AdmittedByAuthority
    BY <1>9, AuthorityStepKeeps
  <1>10. ASSUME UNCHANGED accountVars
         PROVE  AuthorityInvariant' /\ AccountsInvariant' /\ AdmittedByAuthority
    <2>1. UNCHANGED <<others, rows, calls, provider, remote, looks>>
      BY <1>10 DEF accountVars, vars, others
    <2>2. LooksRight'
      BY <2>1 DEF AccountsInvariant, LooksRight
    <2>3. /\ remote' \in [Ops -> {"none", "made", "pending", "accepted", "revoked", "expired"}]
          /\ \A o \in Ops : RemoteMoves(o)
      BY <2>1 DEF AccountsInvariant, AccountTypes, RemoteMoves
    <2>4. WorldStep
      BY <2>1 DEF AuthorityInvariant, Types, WorldStep, others, trade, provider
    <2> QED BY <2>2, <2>3, <2>4, OutsideMovesKeep
  <1>11. CASE NextAccounts
    BY <1>1, <1>2, <1>3, <1>4, <1>5, <1>6, <1>7, <1>8, <1>11 DEF NextAccounts
  <1> QED BY <1>9, <1>10, <1>11 DEF Next

IdentityInvariant == AuthorityInvariant /\ AccountsInvariant

LEMMA IdentityAlways == Spec => []IdentityInvariant
  <1>1. InitAccounts => IdentityInvariant
    BY AuthorityInit, AccountsInit DEF InitAccounts, IdentityInvariant
  <1>2. IdentityInvariant /\ [Next]_accountVars => IdentityInvariant'
    BY IdentityNext DEF IdentityInvariant
  <1> QED BY <1>1, <1>2, PTL DEF Spec

\* People who are invited, made or onboarded take nothing away from that: while
\* they arrive, an agency is still open only with its owner, who was denied stays
\* denied, versions still tell two decisions apart, a superadmin remains, and a
\* create or an invitation cannot begin, nor the account it made become known, in
\* the name of somebody who is being deleted (guard_subject, agency_scope,
\* permitted and dependencies, under the one authority lock).
THEOREM AuthorityStandsWithAccounts ==
    Spec => [](RootRemains /\ OneChangePerVersion /\ AgencyNeedsOwner /\ DeletionHolds
                 /\ NothingLeftBehind)
  <1>1. IdentityInvariant => /\ RootRemains /\ OneChangePerVersion /\ AgencyNeedsOwner
                             /\ DeletionHolds /\ NothingLeftBehind
    BY VersionsDiffer, NothingIsLeft DEF IdentityInvariant, AuthorityInvariant
  <1> QED BY <1>1, IdentityAlways, PTL

\* Whatever answers are lost, late or wrong about what was sent, a create or an
\* invitation is offered to be sent again, or closed as never sent, only when
\* nothing of it was or can still be applied (creates::finish, creates::recover,
\* invitations::finish, invitations::request_revoke).
THEOREM ResendsAreSafe == Spec => []SafeToResend
  <1>1. ASSUME IdentityInvariant
        PROVE  SafeToResend
    <2>1. AccountsTypeOK
      BY <1>1 DEF IdentityInvariant, AccountsInvariant, AccountTypes, LooksRight, AccountsTypeOK
    <2> QED BY <1>1, <2>1 DEF SafeToResend, IdentityInvariant, AccountsInvariant, OpSafe,
                              Untouched, Wired, Intake
  <1> QED BY <1>1, IdentityAlways, PTL

\* However many creates and invitations are prepared, finish or fail at the same
\* time, an agency never has more people than it may, counting those on their
\* way in (creates::agency_scope).
THEOREM AgenciesStayWithinLimit == Spec => []AgencyWithinLimit
  <1>1. ASSUME IdentityInvariant
        PROVE  AgencyWithinLimit
    BY <1>1 DEF IdentityInvariant, AccountsInvariant, PlacesRight, Bounded, AgencyWithinLimit
  <1> QED BY <1>1, IdentityAlways, PTL

\* Every step that makes somebody a user was entitled to: the account or the
\* acceptance was there, nobody revoked it, somebody entitled stands behind it
\* and the agency is as it was (creates::finalize, invitations::accept,
\* api::onboard).
THEOREM AdmissionsAreAuthorised == Spec => AdmittedByAuthorityAlways
  <1>1. IdentityInvariant /\ [Next]_accountVars => [AdmittedByAuthority]_accountVars
    BY IdentityNext DEF IdentityInvariant
  <1> QED BY <1>1, IdentityAlways, PTL DEF Spec, AdmittedByAuthorityAlways

=============================================================================
