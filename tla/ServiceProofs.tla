---------------------------- MODULE ServiceProofs ----------------------------
(***************************************************************************)
(* Theorems about the parts of the service that stand beside the ledger,    *)
(* the holds, the tickets and the identity changes (the parts MCService     *)
(* checks), for any people, offers, assets and numbers of requests.  Each   *)
(* part has a section of its own: its inductive invariant, what each action *)
(* does to it, and the theorem.                                             *)
(***************************************************************************)
EXTENDS BusinessGate, PortalDrafts, IdentityPapers, SearchAdmission, PortalImports,
        SumTheorems, SequenceTheorems, TLAPS

-----------------------------------------------------------------------------
(***************************************************************************)
(* BusinessGate: whatever is remembered of a request that was admitted is   *)
(* enough to decide, when its handler begins, that it would be admitted     *)
(* again.                                                                   *)
(***************************************************************************)

Authority == [role : PortalRoles, version : Nat]
Token == [version : Nat, staff : BOOLEAN]

\* The context a request carries from one transaction to the next.
Context ==
    [at : {"admitted", "checked", "served"}, kind : CommandKinds,
     actor : Principals, others : SUBSET Principals,
     seen : UNION {[P -> Authority] : P \in SUBSET Principals},
     pinned : UNION {[H -> Nat] : H \in SUBSET Principals}]

Found == [at : {"found"}, actor : Principals, token : Token]

Recognised ==
    [at : {"authenticated", "accepted"}, actor : Principals, token : Token,
     seen : UNION {[P -> Authority] : P \in SUBSET Principals},
     pinned : UNION {[H -> Nat] : H \in SUBSET Principals}]

\* What a context remembers is not ahead of the rows, and as long as they are
\* as they were its command may be given.
Remembered(c) ==
    /\ DOMAIN c.seen = {c.actor} \cup c.others
    /\ DOMAIN c.pinned = IF c.kind = "secret" THEN c.others ELSE {}
    /\ DOMAIN c.pinned \subseteq AgencyHeads
    /\ \A p \in DOMAIN c.seen : c.seen[p].version <= standing[p].version
    /\ \A h \in DOMAIN c.pinned : c.pinned[h] <= grant[h].version
    /\ Stands(c) => Granted(c.kind, c.actor, c.others)

\* The rights a session was recognised with are those of its token.
TokenKept(s) ==
    /\ DOMAIN s.seen = {s.actor}
    /\ s.seen[s.actor].version = s.token.version
    /\ ~s.token.staff => s.seen[s.actor].role \notin {"superadmin", "admin"}

GateInvariant ==
    /\ GateTypeOK
    /\ execution \in [Executions -> Context \cup {NoExecution}]
    /\ search \in [SearchUses -> Found \cup Recognised \cup {NoSearch}]
    /\ \A x \in Executions : execution[x] # NoExecution => Remembered(execution[x])
    /\ \A u \in SearchUses : search[u] \in Recognised => TokenKept(search[u])

-----------------------------------------------------------------------------
(* The rows of people, agencies and clients *)

\* The disjuncts of GateNext that change rows: people, agencies and clients
\* change apart from requests, but for the clients a handler opens or updates.
RowsKept == UNCHANGED <<standing, erased, trading>>

GrantStep(h) ==
    \/ ~Linked(h) /\ Opened(h)
    \/ \E rights \in SUBSET Rights : Updated(h, rights)

\* A handler changes no person, and at most the client of one agency.
LEMMA ServeRows ==
    ASSUME NEW x \in Executions, Serve(x)
    PROVE  /\ RowsKept /\ search' = search
           /\ grant' = grant \/ \E h \in execution[x].others : GrantStep(h)
           /\ session' = session \/ Issues(execution[x].actor)
           /\ execution[x].at = "checked" /\ Stands(execution[x])
           /\ execution' = [execution EXCEPT ![x].at = "served"]
  <1> DEFINE c == execution[x]
  <1>1. /\ RowsKept /\ search' = search
        /\ c.at = "checked" /\ Stands(c)
        /\ execution' = [execution EXCEPT ![x].at = "served"]
    BY DEF Serve, RowsKept
  <1>2. CASE c.kind = "session"
    <2>1. Issues(c.actor) /\ grant' = grant
      BY <1>2 DEF Serve
    <2> QED BY <1>1, <2>1
  <1>3. CASE c.kind = "open"
    <2>1. session' = session /\ \E h \in c.others : ~Linked(h) /\ Opened(h)
      BY <1>3 DEF Serve
    <2> QED BY <1>1, <2>1 DEF GrantStep
  <1>4. CASE c.kind = "update"
    <2>1. session' = session
          /\ \E h \in c.others, rights \in SUBSET Rights : Updated(h, rights)
      BY <1>4 DEF Serve
    <2> QED BY <1>1, <2>1 DEF GrantStep
  <1>5. CASE c.kind \notin {"session", "open", "update"}
    <2>1. session' = session /\ grant' = grant
      BY <1>5 DEF Serve
    <2> QED BY <1>1, <2>1
  <1> QED BY <1>2, <1>3, <1>4, <1>5

\* What a step does to the rows: nothing, a change of one client, or a change
\* of a person and of those whose rights hang on its own.
PersonStep(p) ==
    \/ \E role \in HandedOut : ChangeRole(p, role)
    \/ \E gone \in BOOLEAN : Suspend(p, gone)
    \/ Reactivate(p)

RowStep ==
    \/ RowsKept /\ (grant' = grant \/ \E h \in Principals : GrantStep(h))
    \/ \E p \in Principals : PersonStep(p)

LEMMA AgencyHeadsArePeople == AgencyHeads \subseteq Principals /\ Traders \subseteq Principals
  BY DEF AgencyHeads, Traders

LEMMA StepRows ==
    ASSUME GateInvariant, [GateNext]_gateVars
    PROVE  RowStep
  <1>1. ASSUME NEW x \in Executions, NEW k, NEW a, NEW others, Admit(x, k, a, others)
        PROVE  RowStep
    BY <1>1 DEF Admit, RowStep, RowsKept
  <1>2. ASSUME NEW x \in Executions, Recheck(x)
        PROVE  RowStep
    BY <1>2 DEF Recheck, RowStep, RowsKept
  <1>3. ASSUME NEW x \in Executions, Serve(x)
        PROVE  RowStep
    <2>1. execution[x].at = "checked"
      BY <1>3, ServeRows
    <2>2. execution[x] \in Context
      BY <2>1 DEF GateInvariant, NoExecution
    <2>3. execution[x].others \subseteq Principals
      BY <2>2 DEF Context
    <2> QED BY <1>3, <2>3, ServeRows DEF RowStep
  <1>4. ASSUME NEW u \in SearchUses, NEW p \in Principals, FindSession(u, p)
        PROVE  RowStep
    BY <1>4 DEF FindSession, RowStep, RowsKept
  <1>5. ASSUME NEW u \in SearchUses, Authenticate(u) \/ AcceptPrice(u)
        PROVE  RowStep
    BY <1>5 DEF Authenticate, AcceptPrice, RowStep, RowsKept
  <1>6. ASSUME NEW h \in AgencyHeads, NEW rights \in SUBSET Rights, UpdateElsewhere(h, rights)
        PROVE  RowStep
    BY <1>6, AgencyHeadsArePeople DEF UpdateElsewhere, RowStep, RowsKept, GrantStep
  <1>7. ASSUME NEW p \in Principals, PersonStep(p)
        PROVE  RowStep
    BY <1>7 DEF RowStep
  <1>8. CASE UNCHANGED gateVars
    BY <1>8 DEF gateVars, RowStep, RowsKept
  <1> QED BY <1>1, <1>2, <1>3, <1>4, <1>5, <1>6, <1>7, <1>8 DEF GateNext, PersonStep

Grant == [rights : SUBSET Rights, version : Nat]

\* One client changes: its version grows, and no other client changes.
LEMMA GrantSet ==
    ASSUME grant \in [AgencyHeads -> Grant], NEW g, NEW r,
           g \in AgencyHeads => r \in Grant /\ grant[g].version < r.version,
           grant' = [grant EXCEPT ![g] = r]
    PROVE  /\ grant' \in [AgencyHeads -> Grant]
           /\ \A h \in AgencyHeads :
                 /\ grant[h].version <= grant'[h].version
                 /\ grant[h].version = grant'[h].version => grant'[h] = grant[h]
  <1>1. grant' \in [AgencyHeads -> Grant]
    OBVIOUS
  <1>2. ASSUME NEW h \in AgencyHeads
        PROVE  /\ grant[h].version <= grant'[h].version
               /\ grant[h].version = grant'[h].version => grant'[h] = grant[h]
    <2>1. grant[h].version \in Nat /\ (r \in Grant => r.version \in Nat)
      BY DEF Grant
    <2>2. CASE h = g
      <3>1. grant'[h] = r
        BY <2>2
      <3> QED BY <2>1, <2>2, <3>1
    <2>3. CASE h # g
      <3>1. grant'[h] = grant[h]
        BY <2>3
      <3> QED BY <2>1, <3>1
    <2> QED BY <2>2, <2>3
  <1> QED BY <1>1, <1>2

LEMMA GrantStepVersions ==
    ASSUME GateTypeOK, NEW g, GrantStep(g)
    PROVE  /\ grant' \in [AgencyHeads -> Grant]
           /\ \A h \in AgencyHeads :
                 /\ grant[h].version <= grant'[h].version
                 /\ grant[h].version = grant'[h].version => grant'[h] = grant[h]
  <1>0. grant \in [AgencyHeads -> Grant]
    BY DEF GateTypeOK, Grant
  <1>1. PICK r : /\ grant' = [grant EXCEPT ![g] = r]
                 /\ g \in AgencyHeads => r \in Grant /\ grant[g].version < r.version
    <2>1. g \in AgencyHeads => grant[g].version \in Nat
      BY <1>0 DEF Grant
    <2>2. CASE ~Linked(g) /\ Opened(g)
      <3> DEFINE r == [rights |-> {"active", "search"}, version |-> 1]
      <3>1. r \in Grant /\ grant' = [grant EXCEPT ![g] = r]
        BY <2>2 DEF Opened, Rights, Grant
      <3>2. g \in AgencyHeads => grant[g].version < r.version
        BY <2>1, <2>2 DEF Linked
      <3> QED BY <3>1, <3>2
    <2>3. ASSUME NEW rights \in SUBSET Rights, Updated(g, rights)
          PROVE  \E r : /\ grant' = [grant EXCEPT ![g] = r]
                        /\ g \in AgencyHeads => r \in Grant /\ grant[g].version < r.version
      <3> DEFINE r == [rights |-> rights, version |-> grant[g].version + 1]
      <3>1. grant' = [grant EXCEPT ![g] = r]
        BY <2>3 DEF Updated
      <3>2. g \in AgencyHeads => r \in Grant /\ grant[g].version < r.version
        BY <2>1 DEF Grant
      <3> QED BY <3>1, <3>2
    <2> QED BY <2>2, <2>3 DEF GrantStep
  <1> QED BY <1>0, <1>1, GrantSet

StandingType ==
    [Principals -> [role : PortalRoles, status : {"active", "suspended"}, version : Nat]]

\* Changed bumps the version of everybody whose rights it may change.
LEMMA ChangedStep ==
    ASSUME standing \in StandingType, session \in [Principals -> Token],
           NEW p \in Principals, NEW role \in PortalRoles,
           NEW state \in {"active", "suspended"}, NEW members \in SUBSET Principals,
           Changed(p, role, state, members)
    PROVE  /\ standing' \in StandingType /\ session' \in [Principals -> Token]
           /\ \A q \in Principals :
                 /\ standing[q].version <= standing'[q].version
                 /\ standing[q].version = standing'[q].version
                       => standing'[q] = standing[q] /\ q # p /\ q \notin members
                 /\ q # p => /\ standing'[q].status = standing[q].status
                            /\ standing'[q].role = standing[q].role
  <1>1. standing' = [q \in Principals |->
          IF q = p THEN [role |-> role, status |-> state, version |-> standing[q].version + 1]
          ELSE IF q \in members THEN [standing[q] EXCEPT !.version = standing[q].version + 1]
          ELSE standing[q]]
    BY DEF Changed
  <1>2. \A q \in Principals :
          /\ standing[q] \in [role : PortalRoles, status : {"active", "suspended"}, version : Nat]
          /\ standing[q].version \in Nat
    BY DEF StandingType
  <1>3. ASSUME NEW q \in Principals
        PROVE  /\ standing'[q] \in [role : PortalRoles, status : {"active", "suspended"},
                                    version : Nat]
               /\ standing[q].version <= standing'[q].version
               /\ standing[q].version = standing'[q].version
                     => standing'[q] = standing[q] /\ q # p /\ q \notin members
               /\ q # p => /\ standing'[q].status = standing[q].status
                          /\ standing'[q].role = standing[q].role
    <2>1. CASE q = p
      BY <1>1, <1>2, <2>1
    <2>2. CASE q # p /\ q \in members
      BY <1>1, <1>2, <2>2
    <2>3. CASE q # p /\ q \notin members
      BY <1>1, <1>2, <2>3
    <2> QED BY <2>1, <2>2, <2>3
  <1>4. session' \in [Principals -> Token]
    BY DEF Changed, Token, NoSession
  <1> QED BY <1>1, <1>3, <1>4 DEF StandingType

\* A change of a person is a change of its row and of those of its members.
LEMMA PersonStepChanges ==
    ASSUME GateTypeOK, NEW p \in Principals, PersonStep(p)
    PROVE  /\ \E role \in PortalRoles, state \in {"active", "suspended"} :
                 Changed(p, role, state, IF p \in AgencyHeads THEN Members(p) ELSE {})
           /\ erased' \in SUBSET Principals /\ erased \subseteq erased'
           /\ trading' \in SUBSET AgencyHeads /\ trading' \subseteq trading \cup {p}
           /\ grant' \in [AgencyHeads -> Grant]
           /\ \A h \in AgencyHeads :
                 /\ grant[h].version <= grant'[h].version
                 /\ grant[h].version = grant'[h].version => grant'[h] = grant[h]
           /\ UNCHANGED <<execution, search>>
  <1>0. /\ Role(p) \in PortalRoles /\ standing[p].status \in {"active", "suspended"}
        /\ grant \in [AgencyHeads -> Grant]
        /\ erased \in SUBSET Principals /\ trading \in SUBSET AgencyHeads
        /\ \A h \in AgencyHeads : grant[h].version \in Nat
    BY DEF GateTypeOK, Role, Grant
  <1>1. p \notin AgencyHeads => Members(p) = {}
    BY PrincipalsAssumption DEF Members
  <1>2. ASSUME NEW role \in HandedOut, ChangeRole(p, role)
        PROVE  /\ Changed(p, role, standing[p].status, {}) /\ role \in PortalRoles
               /\ p \notin AgencyHeads
               /\ UNCHANGED <<erased, trading, grant, execution, search>>
    BY <1>2, PrincipalsAssumption DEF ChangeRole, PortalRoles, AgencyHeads, Traders
  <1>3. ASSUME NEW gone \in BOOLEAN, Suspend(p, gone)
        PROVE  /\ Changed(p, Role(p), "suspended", Members(p))
               /\ erased' \in SUBSET Principals /\ erased \subseteq erased'
               /\ trading' = trading \ {p} /\ UNCHANGED <<execution, search>>
               /\ grant' \in [AgencyHeads -> Grant]
               /\ \A h \in AgencyHeads :
                     /\ grant[h].version <= grant'[h].version
                     /\ grant[h].version = grant'[h].version => grant'[h] = grant[h]
    <2>1. /\ Changed(p, Role(p), "suspended", Members(p))
          /\ erased' = IF gone THEN erased \cup {p} ELSE erased
          /\ trading' = trading \ {p} /\ UNCHANGED <<execution, search>>
          /\ grant' = [h \in AgencyHeads |->
                IF h = p /\ Linked(h)
                THEN [rights |-> grant[h].rights \ {"active", "managed"},
                      version |-> grant[h].version + 1]
                ELSE grant[h]]
      BY <1>3 DEF Suspend
    <2>2. \A h \in AgencyHeads :
             [rights |-> grant[h].rights \ {"active", "managed"},
              version |-> grant[h].version + 1] \in Grant
      BY <1>0 DEF Grant
    <2>3. grant' \in [AgencyHeads -> Grant]
      BY <1>0, <2>1, <2>2
    <2>4. ASSUME NEW h \in AgencyHeads
          PROVE  /\ grant[h].version <= grant'[h].version
                 /\ grant[h].version = grant'[h].version => grant'[h] = grant[h]
      <3>1. CASE h = p /\ Linked(h)
        BY <1>0, <2>1, <3>1
      <3>2. CASE ~(h = p /\ Linked(h))
        BY <1>0, <2>1, <3>2
      <3> QED BY <3>1, <3>2
    <2> QED BY <1>0, <2>1, <2>3, <2>4
  <1>4. ASSUME Reactivate(p)
        PROVE  /\ Changed(p, Role(p), "active", Members(p))
               /\ trading' \in SUBSET AgencyHeads /\ trading' \subseteq trading \cup {p}
               /\ UNCHANGED <<erased, grant, execution, search>>
    BY <1>0, <1>4 DEF Reactivate
  <1>5. CASE \E role \in HandedOut : ChangeRole(p, role)
    BY <1>0, <1>2, <1>5
  <1>6. CASE \E gone \in BOOLEAN : Suspend(p, gone)
    BY <1>0, <1>1, <1>3, <1>6
  <1>7. CASE Reactivate(p)
    BY <1>0, <1>1, <1>4, <1>7
  <1> QED BY <1>5, <1>6, <1>7 DEF PersonStep

\* Versions never go back, and a row with the version it had is the row it was.
LEMMA VersionsGrow ==
    ASSUME GateInvariant, [GateNext]_gateVars
    PROVE  /\ \A p \in Principals :
                 /\ standing[p].version <= standing'[p].version
                 /\ standing[p].version = standing'[p].version => standing'[p] = standing[p]
           /\ \A h \in AgencyHeads :
                 /\ grant[h].version <= grant'[h].version
                 /\ grant[h].version = grant'[h].version => grant'[h] = grant[h]
           /\ erased \subseteq erased'
           /\ standing' \in StandingType /\ erased' \in SUBSET Principals
           /\ trading' \in SUBSET AgencyHeads /\ grant' \in [AgencyHeads -> Grant]
  <1>0. /\ standing \in StandingType /\ session \in [Principals -> Token]
        /\ grant \in [AgencyHeads -> Grant]
        /\ erased \in SUBSET Principals /\ trading \in SUBSET AgencyHeads
        /\ GateTypeOK
        /\ \A p \in Principals : standing[p].version \in Nat
        /\ \A h \in AgencyHeads : grant[h].version \in Nat
    BY DEF GateInvariant, GateTypeOK, StandingType, Token, Grant
  <1>1. CASE RowsKept /\ grant' = grant
    BY <1>0, <1>1 DEF RowsKept
  <1>2. ASSUME RowsKept, NEW h \in Principals, GrantStep(h)
        PROVE  /\ UNCHANGED <<standing, erased, trading>>
               /\ grant' \in [AgencyHeads -> Grant]
               /\ \A g \in AgencyHeads :
                     /\ grant[g].version <= grant'[g].version
                     /\ grant[g].version = grant'[g].version => grant'[g] = grant[g]
    BY <1>0, <1>2, GrantStepVersions DEF RowsKept
  <1>3. CASE RowsKept /\ \E h \in Principals : GrantStep(h)
    BY <1>0, <1>2, <1>3
  <1>4. ASSUME NEW p \in Principals, PersonStep(p)
        PROVE  /\ standing' \in StandingType
               /\ \A q \in Principals :
                 /\ standing[q].version <= standing'[q].version
                 /\ standing[q].version = standing'[q].version => standing'[q] = standing[q]
    <2> DEFINE members == IF p \in AgencyHeads THEN Members(p) ELSE {}
    <2>1. PICK role \in PortalRoles, state \in {"active", "suspended"} :
             Changed(p, role, state, members)
      BY <1>0, <1>4, PersonStepChanges
    <2>2. members \in SUBSET Principals
      BY AgencyHeadsArePeople DEF Members
    <2> HIDE DEF members
    <2> QED BY <1>0, <2>1, <2>2, ChangedStep
  <1>5. CASE \E p \in Principals : PersonStep(p)
    BY <1>0, <1>4, <1>5, PersonStepChanges
  <1> QED BY <1>1, <1>3, <1>5, StepRows DEF RowStep

\* Whoever has the row it had, and may act now, might act before: what its
\* rights hang on does not come back without a new version of its own row
\* (agencies::invalidate_members).
LEMMA EntitledBefore ==
    ASSUME GateInvariant, [GateNext]_gateVars, NEW q \in Principals,
           standing[q].version = standing'[q].version, Entitled(q)'
    PROVE  Entitled(q) /\ Role(q)' = Role(q)
  <1>0. /\ standing'[q] = standing[q] /\ erased \subseteq erased'
        /\ standing \in StandingType /\ session \in [Principals -> Token]
        /\ GateTypeOK
    BY VersionsGrow DEF GateInvariant, GateTypeOK, StandingType, Token
  <1>1. Present(q) /\ Role(q) # "customer" /\ Role(q)' = Role(q)
    BY <1>0 DEF Entitled, Present, Role
  <1>2. ASSUME q \in Traders
        PROVE  AgencyOwner[q] \in trading /\ Present(AgencyOwner[q])
    <2> DEFINE head == AgencyOwner[q]
    <2>1. /\ head \in AgencyHeads /\ head \in Principals
          /\ head \in trading' /\ Present(head)'
      BY <1>2, PrincipalsAssumption, AgencyHeadsArePeople DEF Entitled
    <2> HIDE DEF head
    <2>2. ASSUME RowsKept
          PROVE  head \in trading /\ Present(head)
      BY <2>1, <2>2 DEF RowsKept, Present
    <2>3. ASSUME NEW p \in Principals, PersonStep(p)
          PROVE  head \in trading /\ Present(head)
      <3> DEFINE members == IF p \in AgencyHeads THEN Members(p) ELSE {}
      <3>1. PICK role \in PortalRoles, state \in {"active", "suspended"} :
               Changed(p, role, state, members)
        BY <1>0, <2>3, PersonStepChanges
      <3>2. members \in SUBSET Principals
        BY AgencyHeadsArePeople DEF Members
      <3>3. p = head => q = p \/ q \in members
        BY <1>2, <2>1 DEF Members, head
      <3> HIDE DEF members
      <3>4. q # p /\ q \notin members
        BY <1>0, <3>1, <3>2, ChangedStep
      <3>5. head # p
        BY <3>3, <3>4
      <3>6. standing'[head].status = standing[head].status
        BY <1>0, <2>1, <3>1, <3>2, <3>5, ChangedStep
      <3>7. trading' \subseteq trading \cup {p}
        BY <1>0, <2>3, PersonStepChanges
      <3> QED BY <1>0, <2>1, <3>5, <3>6, <3>7 DEF Present
    <2>4. head \in trading /\ Present(head)
      BY <2>2, <2>3, StepRows DEF RowStep
    <2> QED BY <2>4 DEF head
  <1> QED BY <1>1, <1>2 DEF Entitled

\* The rules of execute look at the roles of those concerned, at whether they
\* are active owners or people, and, for secrets, at the client.
LEMMA GrantedStill ==
    ASSUME NEW kind \in CommandKinds, NEW actor \in Principals,
           NEW others \in SUBSET Principals,
           Granted(kind, actor, others),
           \A p \in {actor} \cup others : Role(p)' = Role(p) /\ Entitled(p)',
           \A h \in AgencyHeads : Linked(h) => Linked(h)',
           kind = "secret" => \A h \in others \cap AgencyHeads : grant'[h] = grant[h]
    PROVE  Granted(kind, actor, others)'
  <1>1. /\ Role(actor)' = Role(actor) /\ Manager(actor)' = Manager(actor)
        /\ \A h \in others : Heads(h) => Heads(h)' /\ h \in AgencyHeads
        /\ \A p \in others : Role(p)' = Role(p) /\ Entitled(p)'
    BY DEF Manager, Heads
  <1>2. CASE SettingGranted(kind, actor, others)
    <2>1. SettingGranted(kind, actor, others)'
      BY <1>1, <1>2 DEF SettingGranted
    <2> QED BY <2>1 DEF Granted
  <1>3. CASE MoneyGranted(kind, actor, others)
    <2>1. MoneyGranted(kind, actor, others)'
      BY <1>1, <1>3 DEF MoneyGranted
    <2> QED BY <2>1 DEF Granted
  <1>4. CASE HoldGranted(kind, actor, others)
    <2>1. HoldGranted(kind, actor, others)'
      BY <1>1, <1>4 DEF HoldGranted
    <2> QED BY <2>1 DEF Granted
  <1>5. CASE ClientGranted(kind, actor, others)
    <2>1. \A h \in others : Heads(h) /\ Heads(h)' /\ h \in AgencyHeads
      BY <1>1, <1>5 DEF ClientGranted, Heads
    <2>2. \A h \in others : Linked(h) => Linked(h)'
      BY <2>1
    <2>3. ClientGranted(kind, actor, others)'
      BY <1>1, <1>5, <2>1, <2>2 DEF ClientGranted
    <2> QED BY <2>3 DEF Granted
  <1> QED BY <1>2, <1>3, <1>4, <1>5 DEF Granted

\* What is remembered of a request stays good while others act.
LEMMA RememberedStep ==
    ASSUME GateInvariant, [GateNext]_gateVars,
           NEW c \in Context, Remembered(c)
    PROVE  Remembered(c)'
  <1>0. /\ \A p \in Principals : standing[p].version \in Nat /\ standing'[p].version \in Nat
        /\ \A h \in AgencyHeads : grant[h].version \in Nat /\ grant'[h].version \in Nat
    BY VersionsGrow DEF GateInvariant, GateTypeOK, StandingType, Grant
  <1>1. /\ c.kind \in CommandKinds /\ c.actor \in Principals
        /\ c.others \in SUBSET Principals
        /\ DOMAIN c.seen \subseteq Principals
        /\ \A p \in DOMAIN c.seen : c.seen[p].version \in Nat
        /\ \A h \in DOMAIN c.pinned : c.pinned[h] \in Nat
    BY DEF Context, Authority
  <1>2. \A p \in DOMAIN c.seen : c.seen[p].version <= standing'[p].version
    BY <1>0, <1>1, VersionsGrow DEF Remembered
  <1>3. \A h \in DOMAIN c.pinned : c.pinned[h] <= grant'[h].version
    BY <1>0, <1>1, VersionsGrow DEF Remembered
  <1>4. ASSUME Stands(c)'
        PROVE  Granted(c.kind, c.actor, c.others)'
    <2>1. ASSUME NEW p \in DOMAIN c.seen
          PROVE  /\ standing[p].version = c.seen[p].version /\ Entitled(p)'
                 /\ Entitled(p) /\ Role(p)' = Role(p) /\ Role(p) = c.seen[p].role
      <3>1. /\ Entitled(p)' /\ Role(p)' = c.seen[p].role
            /\ standing'[p].version = c.seen[p].version
        BY <1>4 DEF Stands, SameAuthority
      <3>2. standing[p].version = standing'[p].version
        BY <1>0, <1>1, <3>1, VersionsGrow DEF Remembered
      <3> QED BY <1>1, <3>1, <3>2, EntitledBefore
    <2>2. ASSUME NEW h \in DOMAIN c.pinned
          PROVE  grant[h].version = c.pinned[h] /\ grant'[h] = grant[h]
      <3>1. h \in AgencyHeads /\ grant'[h].version = c.pinned[h]
            /\ c.pinned[h] <= grant[h].version
        BY <1>4 DEF Stands, Remembered
      <3>2. grant[h].version = grant'[h].version
        BY <1>0, <1>1, <3>1, VersionsGrow
      <3> QED BY <3>1, <3>2, VersionsGrow
    <2>3. Stands(c)
      BY <2>1, <2>2 DEF Stands, SameAuthority
    <2>4. Granted(c.kind, c.actor, c.others)
      BY <2>3 DEF Remembered
    <2>5. \A p \in {c.actor} \cup c.others : Role(p)' = Role(p) /\ Entitled(p)'
      BY <2>1 DEF Remembered
    <2>6. \A h \in AgencyHeads : Linked(h) => Linked(h)'
      BY <1>0, VersionsGrow DEF Linked
    <2>7. c.kind = "secret" => \A h \in c.others \cap AgencyHeads : grant'[h] = grant[h]
      BY <2>2 DEF Remembered
    <2> QED BY <1>1, <2>4, <2>5, <2>6, <2>7, GrantedStill
  <1> QED BY <1>2, <1>3, <1>4 DEF Remembered

-----------------------------------------------------------------------------
(* The invariant is inductive *)

\* The rows keep their types.
LEMMA GateTypeOKStep ==
    ASSUME GateInvariant, [GateNext]_gateVars
    PROVE  GateTypeOK'
  <1>0. /\ standing \in StandingType /\ session \in [Principals -> Token]
        /\ GateTypeOK
    BY DEF GateInvariant, GateTypeOK, StandingType, Token
  <1>1. session' \in [Principals -> Token]
    <2>1. CASE session' = session
      BY <1>0, <2>1
    <2>2. ASSUME NEW x \in Executions, Serve(x)
          PROVE  session' \in [Principals -> Token]
      <3>1. execution[x] \in Context
        BY <2>2, ServeRows DEF GateInvariant, NoExecution
      <3>2. execution[x].actor \in Principals
        BY <3>1 DEF Context
      <3>3. CASE Issues(execution[x].actor)
        <4> DEFINE p == execution[x].actor
        <4>1. session' = [session EXCEPT ![p] = [version |-> standing[p].version,
                                                  staff |-> Manager(p)]]
          BY <3>3 DEF Issues
        <4>2. standing[p].version \in Nat /\ Manager(p) \in BOOLEAN
          BY <1>0, <3>2 DEF StandingType, Manager
        <4>3. [version |-> standing[p].version, staff |-> Manager(p)] \in Token
          BY <4>2 DEF Token
        <4> QED BY <1>0, <4>1, <4>3
      <3> QED BY <2>1, <2>2, <3>3, ServeRows
    <2>3. ASSUME NEW p \in Principals, PersonStep(p)
          PROVE  session' \in [Principals -> Token]
      <3> DEFINE members == IF p \in AgencyHeads THEN Members(p) ELSE {}
      <3>1. PICK role \in PortalRoles, state \in {"active", "suspended"} :
               Changed(p, role, state, members)
        BY <1>0, <2>3, PersonStepChanges
      <3>2. members \in SUBSET Principals
        BY AgencyHeadsArePeople DEF Members
      <3> HIDE DEF members
      <3> QED BY <1>0, <3>1, <3>2, ChangedStep
    <2>4. CASE UNCHANGED gateVars
      BY <2>1, <2>4 DEF gateVars
    <2> QED BY <2>1, <2>2, <2>3, <2>4, ZenonT(90)
            DEF GateNext, Admit, Recheck, FindSession, Authenticate, AcceptPrice,
                UpdateElsewhere, PersonStep
  <1>2. /\ standing' \in StandingType /\ erased' \in SUBSET Principals
        /\ trading' \in SUBSET AgencyHeads /\ grant' \in [AgencyHeads -> Grant]
    BY VersionsGrow
  <1> QED BY <1>1, <1>2 DEF GateTypeOK, StandingType, Grant, Token

\* Nobody has asked for anything.
LEMMA InitGate == GateInit => GateInvariant
  <1> SUFFICES ASSUME GateInit PROVE GateInvariant
    OBVIOUS
  <1>1. standing \in StandingType
    BY PrincipalsAssumption DEF GateInit, StandingType
  <1>2. grant \in [AgencyHeads -> Grant]
    BY DEF GateInit, Grant, Rights, NoClient
  <1>3. session \in [Principals -> Token]
    BY DEF GateInit, Token, NoSession
  <1>4. NoSearch \notin Recognised
    BY DEF NoSearch, Recognised
  <1> QED BY <1>1, <1>2, <1>3, <1>4
          DEF GateInit, GateInvariant, GateTypeOK, StandingType, Grant, Token

\* How far a request came is not part of what is remembered.
LEMMA Advanced ==
    ASSUME NEW c \in Context, Remembered(c), NEW at \in {"admitted", "checked", "served"}
    PROVE  /\ [c EXCEPT !.at = at] \in Context
           /\ Remembered([c EXCEPT !.at = at])
  <1> DEFINE d == [c EXCEPT !.at = at]
  <1>1. d \in Context
    BY DEF Context
  <1>2. /\ d.kind = c.kind /\ d.actor = c.actor /\ d.others = c.others
        /\ d.seen = c.seen /\ d.pinned = c.pinned
    BY DEF Context
  <1> HIDE DEF d
  <1>3. Remembered(d)
    BY <1>2 DEF Remembered, Stands
  <1> QED BY <1>1, <1>3 DEF d

\* execute remembers whom a command concerns as they are.
LEMMA AdmitRemembers ==
    ASSUME GateTypeOK, NEW x \in Executions, NEW kind \in CommandKinds,
           NEW actor \in Principals, NEW others \in SUBSET Principals,
           Admit(x, kind, actor, others)
    PROVE  \E c \in Context :
              Remembered(c) /\ execution' = [execution EXCEPT ![x] = c]
  <1> DEFINE concerned == {actor} \cup others
             clients == IF kind = "secret" THEN others ELSE {}
             rights == [p \in concerned |-> [role |-> Role(p), version |-> standing[p].version]]
             pinned == [h \in clients |-> grant[h].version]
             c == [at |-> "admitted", kind |-> kind, actor |-> actor, others |-> others,
                   seen |-> rights, pinned |-> pinned]
  <1>1. /\ Granted(kind, actor, others)
        /\ execution' = [execution EXCEPT ![x] = c]
    BY DEF Admit, Seen
  <1>2. kind = "secret" => \A h \in others : h \in AgencyHeads
    BY <1>1 DEF Granted, SettingGranted, MoneyGranted, HoldGranted, ClientGranted, Heads
  <1>3. rights \in [concerned -> Authority] /\ concerned \in SUBSET Principals
    BY DEF GateTypeOK, Authority, Role
  <1>4. pinned \in [clients -> Nat] /\ clients \in SUBSET Principals
    BY <1>2 DEF GateTypeOK
  <1>5. c \in Context
    <2>1. /\ rights \in UNION {[P -> Authority] : P \in SUBSET Principals}
          /\ pinned \in UNION {[H -> Nat] : H \in SUBSET Principals}
      BY <1>3, <1>4
    <2> HIDE DEF rights, pinned
    <2> QED BY <2>1 DEF Context
  <1>6. Remembered(c)
    <2>1. /\ c.kind = kind /\ c.actor = actor /\ c.others = others
          /\ c.seen = rights /\ c.pinned = pinned
      OBVIOUS
    <2>2. DOMAIN rights = concerned /\ DOMAIN pinned = clients /\ clients \subseteq AgencyHeads
      BY <1>2
    <2>3. \A p \in concerned : rights[p].version <= standing[p].version
      BY DEF GateTypeOK
    <2>4. \A h \in clients : pinned[h] <= grant[h].version
      BY <1>2 DEF GateTypeOK
    <2> HIDE DEF c, rights, pinned
    <2> QED BY <1>1, <2>1, <2>2, <2>3, <2>4 DEF Remembered
  <1> HIDE DEF c
  <1> QED BY <1>1, <1>5, <1>6

\* GateNext, with the people a command concerns as a set.
LEMMA GateCases ==
    ASSUME [GateNext]_gateVars
    PROVE  \/ \E x \in Executions, kind \in CommandKinds, actor \in Principals,
                 others \in SUBSET Principals : Admit(x, kind, actor, others)
           \/ \E x \in Executions : Recheck(x) \/ Serve(x)
           \/ \/ \E u \in SearchUses :
                    (\E p \in Principals : FindSession(u, p)) \/ Authenticate(u) \/ AcceptPrice(u)
              \/ \E h \in AgencyHeads, rights \in SUBSET Rights : UpdateElsewhere(h, rights)
           \/ \E p \in Principals : PersonStep(p)
           \/ UNCHANGED gateVars
  <1>1. ASSUME NEW x \in Executions, NEW k \in CommandKinds, NEW a \in Principals,
               Admit(x, k, a, {}) \/ \E p \in Principals : Admit(x, k, a, {p})
        PROVE  \E others \in SUBSET Principals : Admit(x, k, a, others)
    BY <1>1
  <1> QED BY <1>1 DEF GateNext, PersonStep

\* A step leaves the context of a request, moves it on, or makes it.
LEMMA ExecutionStep ==
    ASSUME GateInvariant, [GateNext]_gateVars
    PROVE  /\ execution' \in [Executions -> Context \cup {NoExecution}]
           /\ \A y \in Executions : execution'[y] # NoExecution => Remembered(execution'[y])
  <1>0. /\ execution \in [Executions -> Context \cup {NoExecution}]
        /\ GateTypeOK
        /\ \A y \in Executions : execution[y] # NoExecution => Remembered(execution[y])
        /\ NoExecution \notin Context
    BY DEF GateInvariant, Context, NoExecution
  <1>1. CASE execution' = execution
    BY <1>0, <1>1
  <1>2. ASSUME NEW x \in Executions, NEW c \in Context, Remembered(c),
               execution' = [execution EXCEPT ![x] = c]
        PROVE  /\ execution' \in [Executions -> Context \cup {NoExecution}]
               /\ \A y \in Executions :
                     execution'[y] # NoExecution => Remembered(execution'[y])
    <2>1. execution'[x] = c /\ \A y \in Executions \ {x} : execution'[y] = execution[y]
      BY <1>0, <1>2
    <2>2. execution' \in [Executions -> Context \cup {NoExecution}]
      BY <1>0, <1>2
    <2>3. ASSUME NEW y \in Executions, execution'[y] # NoExecution
          PROVE  Remembered(execution'[y])
      <3>1. CASE y = x
        BY <1>2, <2>1, <3>1
      <3>2. CASE y # x
        BY <1>0, <2>1, <2>3, <3>2
      <3> QED BY <3>1, <3>2
    <2> QED BY <2>2, <2>3
  <1>3. ASSUME NEW x \in Executions, NEW at \in {"checked", "served"},
               execution[x].at \in {"admitted", "checked"},
               execution' = [execution EXCEPT ![x].at = at]
        PROVE  /\ execution' \in [Executions -> Context \cup {NoExecution}]
               /\ \A y \in Executions :
                     execution'[y] # NoExecution => Remembered(execution'[y])
    <2>1. execution[x] \in Context /\ Remembered(execution[x])
      BY <1>0, <1>3 DEF NoExecution
    <2>2. PICK c \in Context : c = execution[x] /\ Remembered(c)
      BY <2>1
    <2>3. PICK d \in Context : d = [c EXCEPT !.at = at] /\ Remembered(d)
      BY <2>2, Advanced
    <2>4. execution' = [execution EXCEPT ![x] = d]
      BY <1>3, <2>2, <2>3
    <2> QED BY <1>2, <2>3, <2>4
  <1>4. ASSUME NEW x \in Executions, NEW kind \in CommandKinds,
               NEW actor \in Principals, NEW others \in SUBSET Principals,
               Admit(x, kind, actor, others)
        PROVE  /\ execution' \in [Executions -> Context \cup {NoExecution}]
               /\ \A y \in Executions :
                     execution'[y] # NoExecution => Remembered(execution'[y])
    BY <1>0, <1>2, <1>4, AdmitRemembers
  <1>5. ASSUME NEW x \in Executions, Recheck(x) \/ Serve(x)
        PROVE  /\ execution' \in [Executions -> Context \cup {NoExecution}]
               /\ \A y \in Executions :
                     execution'[y] # NoExecution => Remembered(execution'[y])
    <2>1. CASE Recheck(x)
      BY <1>3, <2>1 DEF Recheck
    <2>2. CASE Serve(x)
      BY <1>3, <2>2, ServeRows
    <2> QED BY <1>5, <2>1, <2>2
  <1>6. ASSUME NEW p \in Principals, PersonStep(p)
        PROVE  execution' = execution
    BY <1>0, <1>6, PersonStepChanges
  <1>7. CASE UNCHANGED gateVars
    BY <1>1, <1>7 DEF gateVars
  <1>8. CASE \/ \E u \in SearchUses :
                  (\E p \in Principals : FindSession(u, p)) \/ Authenticate(u) \/ AcceptPrice(u)
             \/ \E h \in AgencyHeads, rights \in SUBSET Rights : UpdateElsewhere(h, rights)
    BY <1>1, <1>8 DEF FindSession, Authenticate, AcceptPrice, UpdateElsewhere
  <1> QED BY <1>1, <1>4, <1>5, <1>6, <1>7, <1>8, GateCases

\* A session is recognised with the rights it was issued for.
LEMMA SearchStep ==
    ASSUME GateInvariant, [GateNext]_gateVars
    PROVE  /\ search' \in [SearchUses -> Found \cup Recognised \cup {NoSearch}]
           /\ \A u \in SearchUses : search'[u] \in Recognised => TokenKept(search'[u])
  <1> DEFINE Kept == /\ search' \in [SearchUses -> Found \cup Recognised \cup {NoSearch}]
                     /\ \A u \in SearchUses : search'[u] \in Recognised => TokenKept(search'[u])
  <1> SUFFICES Kept
    OBVIOUS
  <1>0. /\ search \in [SearchUses -> Found \cup Recognised \cup {NoSearch}]
        /\ GateTypeOK /\ session \in [Principals -> Token]
        /\ \A u \in SearchUses : search[u] \in Recognised => TokenKept(search[u])
    BY DEF GateInvariant, GateTypeOK, Token
  <1>1. CASE search' = search
    BY <1>0, <1>1
  <1>2. ASSUME NEW u \in SearchUses, NEW s \in Found \cup Recognised,
               s \in Recognised => TokenKept(s),
               search' = [search EXCEPT ![u] = s]
        PROVE  Kept
    BY <1>0, <1>2
  <1> HIDE DEF Kept
  <1>3. ASSUME NEW u \in SearchUses, NEW p \in Principals, FindSession(u, p)
        PROVE  Kept
    <2> DEFINE s == [at |-> "found", actor |-> p, token |-> session[p]]
    <2>1. s \in Found /\ s \notin Recognised
      BY <1>0 DEF Found, Recognised
    <2>2. search' = [search EXCEPT ![u] = s]
      BY <1>3 DEF FindSession
    <2> HIDE DEF s
    <2> QED BY <1>2, <2>1, <2>2
  <1>4. ASSUME NEW u \in SearchUses, Authenticate(u)
        PROVE  Kept
    <2> DEFINE old == search[u]
               p == old.actor
               rights == [q \in {p} |-> [role |-> Role(q), version |-> standing[q].version]]
               s == [at |-> "authenticated", actor |-> p, token |-> old.token,
                     seen |-> rights, pinned |-> [h \in {} |-> 0]]
    <2>1. /\ old.at = "found" /\ TokenCurrent(p, old.token)
          /\ search' = [search EXCEPT ![u] = s]
      BY <1>4 DEF Authenticate, Seen
    <2>2. old \in Found
      BY <1>0, <2>1 DEF Recognised, NoSearch
    <2>3. p \in Principals /\ old.token \in Token
      BY <2>2 DEF Found
    <2>4. s \in Recognised
      <3>1. rights \in [{p} -> Authority] /\ {p} \in SUBSET Principals
        BY <1>0, <2>3 DEF GateTypeOK, Authority, Role
      <3>2. rights \in UNION {[P -> Authority] : P \in SUBSET Principals}
        BY <3>1
      <3>3. [h \in {} |-> 0] \in UNION {[H -> Nat] : H \in SUBSET Principals}
        <4>1. [h \in {} |-> 0] \in [{} -> Nat] /\ {} \in SUBSET Principals
          OBVIOUS
        <4> QED BY <4>1
      <3> HIDE DEF rights
      <3> QED BY <2>3, <3>2, <3>3 DEF Recognised
    <2>5. TokenKept(s)
      <3>1. s.seen = rights /\ s.actor = p /\ s.token = old.token /\ DOMAIN rights = {p}
        OBVIOUS
      <3>2. rights[p].version = old.token.version /\ rights[p].role = Role(p)
        BY <2>1 DEF TokenCurrent
      <3>3. ~old.token.staff => Role(p) \notin {"superadmin", "admin"}
        BY <2>1 DEF TokenCurrent, Manager
      <3> HIDE DEF s, rights, p
      <3> QED BY <3>1, <3>2, <3>3 DEF TokenKept
    <2> HIDE DEF s
    <2> QED BY <1>2, <2>1, <2>4, <2>5
  <1>5. ASSUME NEW u \in SearchUses, AcceptPrice(u)
        PROVE  Kept
    <2> DEFINE old == search[u]
               s == [old EXCEPT !.at = "accepted"]
    <2>1. old.at = "authenticated" /\ search' = [search EXCEPT ![u] = s]
      BY <1>5 DEF AcceptPrice
    <2>2. old \in Recognised
      BY <1>0, <2>1 DEF Found, NoSearch
    <2>3. s \in Recognised
      BY <2>2 DEF Recognised
    <2>4. s.seen = old.seen /\ s.actor = old.actor /\ s.token = old.token
      BY <2>2 DEF Recognised
    <2>5. TokenKept(s)
      BY <1>0, <2>2, <2>4 DEF TokenKept
    <2> HIDE DEF s
    <2> QED BY <1>2, <2>1, <2>3, <2>5
  <1>6. ASSUME NEW p \in Principals, PersonStep(p)
        PROVE  search' = search
    BY <1>0, <1>6, PersonStepChanges
  <1>7. CASE \/ \E x \in Executions, kind \in CommandKinds, actor \in Principals,
                   others \in SUBSET Principals : Admit(x, kind, actor, others)
             \/ \E x \in Executions : Recheck(x) \/ Serve(x)
             \/ \E h \in AgencyHeads, rights \in SUBSET Rights : UpdateElsewhere(h, rights)
             \/ UNCHANGED gateVars
    <2>1. search' = search
      BY <1>7, ServeRows DEF Admit, Recheck, UpdateElsewhere, gateVars
    <2> QED BY <1>1, <2>1 DEF Kept
  <1> QED BY <1>1, <1>3, <1>4, <1>5, <1>6, <1>7, GateCases DEF Kept

\* What was admitted stays admissible until it is served.
LEMMA GateInvariantStep ==
    ASSUME GateInvariant, [GateNext]_gateVars
    PROVE  GateInvariant'
  <1>1. ASSUME NEW x \in Executions, execution'[x] # NoExecution
        PROVE  Remembered(execution[x])'
    <2>1. PICK c \in Context : c = execution'[x] /\ Remembered(c)
      BY <1>1, ExecutionStep
    <2>2. Remembered(c)'
      BY <2>1, RememberedStep
    <2> QED BY <2>1, <2>2 DEF Remembered, Stands
  <1>2. ASSUME NEW u \in SearchUses, search'[u] \in Recognised
        PROVE  TokenKept(search[u])'
    BY <1>2, SearchStep DEF TokenKept
  <1>3. /\ GateTypeOK'
        /\ (execution \in [Executions -> Context \cup {NoExecution}])'
        /\ (search \in [SearchUses -> Found \cup Recognised \cup {NoSearch}])'
    BY GateTypeOKStep, ExecutionStep, SearchStep DEF Context, Found, Recognised
  <1> QED BY <1>1, <1>2, <1>3 DEF GateInvariant

-----------------------------------------------------------------------------
(* The theorem *)

\* A handler begins only where its command would be admitted again.
LEMMA ServedByAuthority ==
    ASSUME GateInvariant, [GateNext]_gateVars, NEW x \in Executions, Serves(x)
    PROVE  LET c == execution[x] IN
           /\ Entitled(c.actor)
           /\ Granted(c.kind, c.actor, c.others)
           /\ \A p \in {c.actor} \cup c.others : standing[p].version = c.seen[p].version
  <1> DEFINE c == execution[x]
  <1>0. execution \in [Executions -> Context \cup {NoExecution}]
    BY DEF GateInvariant
  <1>1. Serve(x)
    <2>1. execution' # execution /\ execution'[x] # execution[x]
      BY DEF Serves
    <2>2. ASSUME NEW y \in Executions, NEW kind \in CommandKinds,
                 NEW actor \in Principals, NEW others \in SUBSET Principals,
                 Admit(y, kind, actor, others)
          PROVE  FALSE
      <3> DEFINE d == [at |-> "admitted", kind |-> kind, actor |-> actor,
                       others |-> others, seen |-> Seen({actor} \cup others),
                       pinned |-> [h \in IF kind = "secret" THEN others ELSE {}
                                      |-> grant[h].version]]
      <3>1. execution' = [execution EXCEPT ![y] = d] /\ d.at = "admitted"
        BY <2>2 DEF Admit
      <3> HIDE DEF d
      <3> QED BY <1>0, <3>1 DEF Serves
    <2>3. ASSUME NEW y \in Executions, Recheck(y)
          PROVE  FALSE
      <3>1. execution[y].at = "admitted" /\ execution' = [execution EXCEPT ![y].at = "checked"]
        BY <2>3 DEF Recheck
      <3>2. execution[y] \in Context
        BY <1>0, <3>1 DEF NoExecution
      <3>3. execution'[y].at = "checked"
        BY <1>0, <3>1, <3>2 DEF Context
      <3> QED BY <1>0, <3>1, <3>3 DEF Serves
    <2>4. ASSUME NEW y \in Executions, y # x, Serve(y)
          PROVE  FALSE
      <3>1. execution' = [execution EXCEPT ![y].at = "served"]
        BY <2>4, ServeRows
      <3> QED BY <1>0, <2>1, <2>4, <3>1
    <2>5. ASSUME NEW p \in Principals, PersonStep(p)
          PROVE  FALSE
      BY <2>1, <2>5, PersonStepChanges DEF GateInvariant
    <2>6. CASE \/ \E u \in SearchUses :
                    (\E p \in Principals : FindSession(u, p)) \/ Authenticate(u) \/ AcceptPrice(u)
               \/ \E h \in AgencyHeads, rights \in SUBSET Rights : UpdateElsewhere(h, rights)
               \/ UNCHANGED gateVars
      BY <2>1, <2>6 DEF FindSession, Authenticate, AcceptPrice, UpdateElsewhere, gateVars
    <2> QED BY <2>2, <2>3, <2>4, <2>5, <2>6, GateCases
  <1>2. c.at = "checked" /\ Stands(c)
    BY <1>1, ServeRows
  <1>3. Remembered(c)
    BY <1>2 DEF GateInvariant, NoExecution
  <1> HIDE DEF c
  <1>4. /\ Entitled(c.actor) /\ Granted(c.kind, c.actor, c.others)
        /\ \A p \in {c.actor} \cup c.others : standing[p].version = c.seen[p].version
    BY <1>2, <1>3 DEF Remembered, Stands, SameAuthority
  <1> QED BY <1>4 DEF c

\* A price is accepted only where the session would be issued again.
LEMMA AcceptedByAuthority ==
    ASSUME GateInvariant, [GateNext]_gateVars, NEW u \in SearchUses, Accepts(u)
    PROVE  LET s == search[u] IN
           /\ Entitled(s.actor) /\ ~Manager(s.actor)
           /\ standing[s.actor].version = s.token.version
  <1> DEFINE s == search[u]
  <1>0. search \in [SearchUses -> Found \cup Recognised \cup {NoSearch}]
    BY DEF GateInvariant
  <1>1. AcceptPrice(u)
    <2>1. search' # search /\ search'[u] # search[u]
      BY DEF Accepts
    <2>2. ASSUME NEW v \in SearchUses, NEW p \in Principals, FindSession(v, p)
          PROVE  FALSE
      <3> DEFINE d == [at |-> "found", actor |-> p, token |-> session[p]]
      <3>1. search' = [search EXCEPT ![v] = d] /\ d.at = "found"
        BY <2>2 DEF FindSession
      <3> HIDE DEF d
      <3> QED BY <1>0, <3>1 DEF Accepts
    <2>3. ASSUME NEW v \in SearchUses, Authenticate(v)
          PROVE  FALSE
      <3> DEFINE d == [at |-> "authenticated", actor |-> search[v].actor,
                       token |-> search[v].token, seen |-> Seen({search[v].actor}),
                       pinned |-> [h \in {} |-> 0]]
      <3>1. search' = [search EXCEPT ![v] = d] /\ d.at = "authenticated"
        BY <2>3 DEF Authenticate
      <3> HIDE DEF d
      <3> QED BY <1>0, <3>1 DEF Accepts
    <2>4. ASSUME NEW v \in SearchUses, v # u, AcceptPrice(v)
          PROVE  FALSE
      <3>1. search' = [search EXCEPT ![v].at = "accepted"]
        BY <2>4 DEF AcceptPrice
      <3> QED BY <1>0, <2>1, <2>4, <3>1
    <2>5. ASSUME NEW p \in Principals, PersonStep(p)
          PROVE  FALSE
      BY <2>1, <2>5, PersonStepChanges DEF GateInvariant
    <2>6. CASE \/ \E x \in Executions, kind \in CommandKinds, actor \in Principals,
                     others \in SUBSET Principals : Admit(x, kind, actor, others)
               \/ \E x \in Executions : Recheck(x) \/ Serve(x)
               \/ \E h \in AgencyHeads, rights \in SUBSET Rights : UpdateElsewhere(h, rights)
               \/ UNCHANGED gateVars
      BY <2>1, <2>6, ServeRows DEF Admit, Recheck, UpdateElsewhere, gateVars
    <2> QED BY <2>2, <2>3, <2>4, <2>5, <2>6, GateCases
  <1>2. s.at = "authenticated" /\ ~s.token.staff /\ Stands(s)
    BY <1>1 DEF AcceptPrice
  <1>3. TokenKept(s)
    BY <1>0, <1>2 DEF GateInvariant, Found, NoSearch
  <1> HIDE DEF s
  <1>4. /\ Entitled(s.actor) /\ ~Manager(s.actor)
        /\ standing[s.actor].version = s.token.version
    BY <1>2, <1>3 DEF TokenKept, Stands, SameAuthority, Manager
  <1> QED BY <1>4 DEF s

\* Whatever roles, agencies and clients became between the transactions of a
\* request, the portal acts for a person only with the rights, and over the
\* people and the client, that it would be admitted with at that moment.
THEOREM AuthorityIsCurrent == GateSpec => ActedByAuthorityAlways
  <1>1. GateInit => GateInvariant
    BY InitGate
  <1>2. GateInvariant /\ [GateNext]_gateVars => GateInvariant'
    BY GateInvariantStep
  <1>3. GateInvariant /\ [GateNext]_gateVars => [ActedByAuthority]_gateVars
    BY ServedByAuthority, AcceptedByAuthority DEF GateInvariant, ActedByAuthority
  <1> QED BY <1>1, <1>2, <1>3, PTL DEF GateSpec, ActedByAuthorityAlways

-----------------------------------------------------------------------------
(***************************************************************************)
(* PortalDrafts: what a request knows of its draft from one transaction to  *)
(* the next stays true of it, whoever changes offers, prices and owners in  *)
(* between, so that a draft is priced once, booked once, and booked as its  *)
(* owner is priced at that moment.                                          *)
(***************************************************************************)

OfferKept == {"fresh", "expired"}
PriceVersion == [context : Contexts, accepted : BOOLEAN]
PortalRequest ==
    [at : {"authorized", "copying", "drafted", "pricing", "priced", "checked"},
     draft : Drafts, source : Sources, machine : Contexts, quote : 0..MaxQuotes]

DraftsTyped ==
    /\ DraftsTypeOK
    /\ quotes \in [Stored -> Seq(PriceVersion)]
    /\ \A o \in Stored : Len(quotes[o]) <= MaxQuotes
    /\ calls \in [Calls -> PortalRequest \cup {NoRequest}]

OneTransaction == \A j, k \in InTransaction : j = k

\* What a request knows of its draft.
RequestKnows(call) ==
    LET d == call.draft IN
    /\ call.at = "copying" => ~Exists(d) /\ rows[call.source] \in OfferKept
    /\ call.at \in {"drafted", "pricing", "priced"} =>
          Exists(d) /\ drafts[d].source = call.source
    /\ call.at \in {"pricing", "priced"} => drafts[d].quote = 0
    /\ call.at = "priced" =>
          /\ call.quote \in 1..Len(quotes[d])
          /\ quotes[d][call.quote].context = call.machine
    /\ call.at = "checked" =>
          \/ reserved[d] # 0
          \/ /\ call.quote # 0 /\ drafts[d].quote = call.quote
             /\ quotes[d][call.quote].context.tier = call.machine.tier

PricesWithin == \A d \in Drafts : drafts[d].quote <= Len(quotes[d])

DraftsInvariant ==
    /\ DraftsTyped /\ DraftsKept /\ OneTransaction
    /\ PricesWithin
    /\ \A k \in Calls : calls[k] # NoRequest => RequestKnows(calls[k])

PricesGrow ==
    \A o \in Stored :
        /\ Len(quotes[o]) <= Len(quotes'[o])
        /\ \A v \in 1..Len(quotes[o]) :
              /\ quotes'[o][v].context = quotes[o][v].context
              /\ quotes[o][v].accepted => quotes'[o][v].accepted

QuotesTyped ==
    /\ quotes \in [Stored -> Seq(PriceVersion)]
    /\ \A o \in Stored : Len(quotes[o]) <= MaxQuotes

RowsTyped == rows \in [Stored -> {"fresh", "expired", "expired marker", "absent"}]

LEMMA DraftFields ==
    ASSUME DraftsInvariant, NEW d \in Drafts
    PROVE  /\ d \in Stored /\ drafts[d].quote \in 0..MaxQuotes
           /\ Exists(d) => drafts[d] \in [source : Sources, quote : 0..MaxQuotes]
                           /\ drafts[d].source \in Sources /\ drafts[d].source \in Stored
           /\ ~Exists(d) => drafts[d].quote = 0 /\ reserved[d] = 0
           /\ reserved[d] \in 0..MaxQuotes
           /\ Len(quotes[d]) \in Nat /\ Len(quotes[d]) <= MaxQuotes
           /\ quotes[d] \in Seq(PriceVersion)
  <1>1. /\ drafts[d] \in [source : Sources, quote : 0..MaxQuotes] \cup {NoDraft}
        /\ reserved[d] \in 0..MaxQuotes /\ d \in Stored
        /\ reserved[d] # 0 => drafts[d].quote = reserved[d]
    BY DEF DraftsInvariant, DraftsTyped, DraftsTypeOK, DraftsKept, Stored
  <1>2. quotes[d] \in Seq(PriceVersion) /\ Len(quotes[d]) <= MaxQuotes
    BY <1>1 DEF DraftsInvariant, DraftsTyped
  <1>3. CASE Exists(d)
    BY <1>1, <1>2, <1>3, DraftsAssumption DEF Exists, Stored
  <1>4. CASE ~Exists(d)
    BY <1>1, <1>2, <1>4, DraftsAssumption DEF Exists, NoDraft
  <1> QED BY <1>3, <1>4

LEMMA CallFields ==
    ASSUME DraftsInvariant, NEW k \in Calls, calls[k].at # "idle"
    PROVE  /\ calls[k] \in PortalRequest /\ calls[k] # NoRequest
           /\ calls[k].draft \in Drafts /\ calls[k].source \in Sources
           /\ calls[k].machine \in Contexts /\ calls[k].quote \in 0..MaxQuotes
           /\ RequestKnows(calls[k])
  <1>1. calls[k] # NoRequest /\ calls[k] \in PortalRequest
    BY DEF DraftsInvariant, DraftsTyped, NoRequest
  <1>2. RequestKnows(calls[k])
    BY <1>1 DEF DraftsInvariant
  <1> QED BY <1>1, <1>2 DEF PortalRequest

\* As long as drafts and bookings are as they were, prices only grow and rows in
\* use are kept, what was known stays true.
LEMMA StoredStays ==
    ASSUME DraftsInvariant, PricesGrow, UNCHANGED <<drafts, reserved>>,
           \A d \in Drafts : Exists(d) =>
               {rows'[d], rows'[drafts[d].source]} \subseteq OfferKept
    PROVE  /\ DraftsKept' /\ PricesWithin'
           /\ \A c \in PortalRequest :
                 RequestKnows(c) /\ (c.at = "copying" => rows'[c.source] \in OfferKept)
                     => RequestKnows(c)'
  <1>1. ASSUME NEW d \in Drafts
        PROVE  Len(quotes'[d]) >= Len(quotes[d]) /\ drafts[d].quote <= Len(quotes'[d])
    <2>1. Len(quotes[d]) <= Len(quotes'[d])
      BY DraftFields DEF PricesGrow
    <2> QED BY <2>1, DraftFields DEF DraftsInvariant, PricesWithin
  <1>2. PricesWithin'
    BY <1>1 DEF PricesWithin
  <1>3. DraftsKept'
    <2>1. ASSUME NEW d \in Drafts, reserved[d] # 0
          PROVE  drafts[d].quote = reserved[d] /\ quotes'[d][reserved[d]].accepted
      <3>1. drafts[d].quote = reserved[d] /\ quotes[d][reserved[d]].accepted
        BY <2>1 DEF DraftsInvariant, DraftsKept
      <3>2. reserved[d] \in 1..Len(quotes[d])
        BY <2>1, <3>1, DraftFields DEF DraftsInvariant, PricesWithin
      <3> QED BY <3>1, <3>2, DraftFields DEF PricesGrow
    <2> QED BY <2>1 DEF DraftsKept, Exists, OfferKept
  <1>4. ASSUME NEW c \in PortalRequest, RequestKnows(c),
               c.at = "copying" => rows'[c.source] \in OfferKept
        PROVE  RequestKnows(c)'
    <2> DEFINE d == c.draft
    <2>0. d \in Drafts /\ c.quote \in 0..MaxQuotes
      BY DEF PortalRequest
    <2>1. ASSUME c.quote \in 1..Len(quotes[d])
          PROVE  c.quote \in 1..Len(quotes'[d])
                 /\ quotes'[d][c.quote].context = quotes[d][c.quote].context
      BY <2>0, <2>1, <1>1, DraftFields DEF PricesGrow
    <2>2. ASSUME c.quote # 0, drafts[d].quote = c.quote
          PROVE  c.quote \in 1..Len(quotes[d])
      BY <2>0, <2>2, DraftFields DEF DraftsInvariant, PricesWithin
    <2> QED BY <2>0, <2>1, <2>2, <1>4 DEF RequestKnows, Exists
  <1> QED BY <1>2, <1>3, <1>4

\* The same for a step that also moves one request.
LEMMA CallMoves ==
    ASSUME DraftsInvariant, NEW k \in Calls, NEW c \in PortalRequest \cup {NoRequest},
           DraftsTypeOK', QuotesTyped', DraftsKept', PricesWithin',
           Advance(k, c), c # NoRequest => RequestKnows(c)',
           c.at \in {"copying", "pricing", "priced"} =>
               Unlocked \/ calls[k].at \in {"copying", "pricing", "priced"},
           \A j \in Calls \ {k} : calls[j] # NoRequest => RequestKnows(calls[j])'
    PROVE  DraftsInvariant'
  <1>1. calls \in [Calls -> PortalRequest \cup {NoRequest}]
    BY DEF DraftsInvariant, DraftsTyped
  <1>2. calls' = [calls EXCEPT ![k] = c]
    BY DEF Advance
  <1>3. /\ calls' \in [Calls -> PortalRequest \cup {NoRequest}] /\ calls'[k] = c
        /\ \A j \in Calls \ {k} : calls'[j] = calls[j]
    BY <1>1, <1>2
  <1>4. OneTransaction'
    BY <1>3 DEF DraftsInvariant, OneTransaction, InTransaction, Unlocked
  <1>5. \A j \in Calls : (calls[j] # NoRequest => RequestKnows(calls[j]))'
    <2>1. (calls[k] # NoRequest => RequestKnows(calls[k]))'
      BY <1>3 DEF RequestKnows, Exists
    <2>2. ASSUME NEW j \in Calls \ {k}
          PROVE  (calls[j] # NoRequest => RequestKnows(calls[j]))'
      BY <1>3, <2>2 DEF RequestKnows, Exists
    <2> QED BY <2>1, <2>2
  <1> QED BY <1>3, <1>4, <1>5 DEF DraftsInvariant, DraftsTyped, QuotesTyped, PricesWithin


\* Rows in use stay while a copy is made of them and while a draft has them.
RowsInUse ==
    /\ \A d \in Drafts : Exists(d) => {rows'[d], rows'[drafts[d].source]} \subseteq OfferKept
    /\ \A j \in Calls : calls[j].at = "copying" => rows'[calls[j].source] \in OfferKept

LEMMA SameQuotes ==
    ASSUME DraftsInvariant, quotes' = quotes
    PROVE  PricesGrow /\ QuotesTyped'
  <1>1. ASSUME NEW o \in Stored
        PROVE  Len(quotes[o]) \in Nat
    BY DEF DraftsInvariant, DraftsTyped
  <1> QED BY <1>1 DEF PricesGrow, QuotesTyped, DraftsInvariant, DraftsTyped

LEMMA SameRows ==
    ASSUME DraftsInvariant, rows' = rows
    PROVE  RowsInUse
  <1>1. ASSUME NEW j \in Calls, calls[j].at = "copying"
        PROVE  rows[calls[j].source] \in OfferKept
    BY <1>1, CallFields DEF RequestKnows
  <1> QED BY <1>1 DEF RowsInUse, DraftsInvariant, DraftsKept, OfferKept

LEMMA QuietStep ==
    ASSUME DraftsInvariant, DraftsTypeOK', QuotesTyped', PricesGrow, RowsInUse,
           UNCHANGED <<drafts, reserved, calls>>
    PROVE  DraftsInvariant'
  <1>1. DraftsKept' /\ PricesWithin'
    BY StoredStays DEF RowsInUse
  <1>2. ASSUME NEW j \in Calls, calls[j] # NoRequest
        PROVE  RequestKnows(calls[j])'
    <2>1. calls[j] \in PortalRequest /\ RequestKnows(calls[j])
      BY <1>2 DEF DraftsInvariant, DraftsTyped
    <2>2. calls[j].at = "copying" => rows'[calls[j].source] \in OfferKept
      BY DEF RowsInUse
    <2>3. \A c \in PortalRequest :
             RequestKnows(c) /\ (c.at = "copying" => rows'[c.source] \in OfferKept)
                 => RequestKnows(c)'
      BY StoredStays DEF RowsInUse
    <2>4. PICK c \in PortalRequest : c = calls[j]
      BY <2>1
    <2>5. RequestKnows(c)'
      BY ONLY <2>1, <2>2, <2>3, <2>4
    <2>6. c = calls'[j]
      BY <2>4
    <2> QED BY ONLY <2>5, <2>6 DEF RequestKnows, Exists
  <1>3. OneTransaction'
    BY DEF DraftsInvariant, OneTransaction, InTransaction
  <1> QED BY <1>1, <1>2, <1>3 DEF DraftsInvariant, DraftsTyped, QuotesTyped

LEMMA QuietCall ==
    ASSUME DraftsInvariant, NEW k \in Calls, NEW c \in PortalRequest \cup {NoRequest},
           DraftsTypeOK', QuotesTyped', PricesGrow, RowsInUse,
           UNCHANGED <<drafts, reserved>>, Advance(k, c),
           c # NoRequest => RequestKnows(c)',
           c.at \in {"copying", "pricing", "priced"} =>
               Unlocked \/ calls[k].at \in {"copying", "pricing", "priced"}
    PROVE  DraftsInvariant'
  <1>1. DraftsKept' /\ PricesWithin'
    BY StoredStays DEF RowsInUse
  <1>2. ASSUME NEW j \in Calls \ {k}, calls[j] # NoRequest
        PROVE  RequestKnows(calls[j])'
    <2> DEFINE e == calls[j]
    <2>1. e \in PortalRequest /\ RequestKnows(e)
      BY <1>2 DEF DraftsInvariant, DraftsTyped
    <2>2. e.at = "copying" => rows'[e.source] \in OfferKept
      BY DEF RowsInUse
    <2>3. \A x \in PortalRequest :
             RequestKnows(x) /\ (x.at = "copying" => rows'[x.source] \in OfferKept)
                 => RequestKnows(x)'
      BY StoredStays DEF RowsInUse
    <2>4. calls'[j] = e
      BY DEF Advance, DraftsInvariant, DraftsTyped
    <2> QED BY <2>1, <2>2, <2>3, <2>4, ZenonT(90) DEF RequestKnows, Exists
  <1> QED BY <1>1, <1>2, CallMoves

LEMMA TypesStay ==
    ASSUME DraftsInvariant, UNCHANGED <<owner, seenIn, rows, drafts, reserved>>
    PROVE  DraftsTypeOK'
  BY DEF DraftsInvariant, DraftsTyped, DraftsTypeOK

LEMMA RequestSteps ==
    ASSUME DraftsInvariant, NEW k \in Calls,
           \/ \E d \in Drafts, s \in Sources : Authorized(k, d, s)
           \/ Dropped(k) \/ OpenDraft(k) \/ OpenQuote(k) \/ SubmitDraft(k)
    PROVE  DraftsInvariant'
  <1>0. /\ UNCHANGED <<owner, seenIn, rows, quotes, drafts, reserved>>
        /\ DraftsTypeOK' /\ QuotesTyped' /\ PricesGrow /\ RowsInUse
    <2>1. UNCHANGED <<owner, seenIn, rows, quotes, drafts, reserved>>
      BY DEF Authorized, Dropped, OpenDraft, OpenQuote, SubmitDraft
    <2> QED BY <2>1, TypesStay, SameQuotes, SameRows
  <1> DEFINE call == calls[k]
  <1>1. ASSUME NEW c \in PortalRequest \cup {NoRequest}, Advance(k, c),
               c # NoRequest => RequestKnows(c),
               c.at \in {"copying", "pricing", "priced"} => Unlocked
        PROVE  DraftsInvariant'
    <2>1. c # NoRequest => RequestKnows(c)'
      BY <1>0, <1>1 DEF RequestKnows, Exists
    <2> QED BY <1>0, <1>1, <2>1, QuietCall
  <1>2. ASSUME NEW d \in Drafts, NEW s \in Sources, Authorized(k, d, s)
        PROVE  DraftsInvariant'
    <2>1. PICK c : c = [at |-> "authorized", draft |-> d, source |-> s,
                        machine |-> owner.context, quote |-> 0]
      OBVIOUS
    <2>2. Advance(k, c)
      BY <1>2, <2>1 DEF Authorized
    <2>3. owner.context \in Contexts /\ 0 \in 0..MaxQuotes
      <3>1. owner \in [context : Contexts, granted : BOOLEAN]
        BY DEF DraftsInvariant, DraftsTyped, DraftsTypeOK
      <3> QED BY <3>1, DraftsAssumption
    <2>4. c \in PortalRequest /\ RequestKnows(c)
      BY <2>1, <2>3 DEF PortalRequest, RequestKnows
    <2> QED BY <2>1, <2>2, <2>4, <1>1
  <1>3. CASE Dropped(k)
    <2>1. Advance(k, NoRequest)
      BY <1>3 DEF Dropped, Ends
    <2> QED BY <2>1, <1>1 DEF NoRequest
  <1>4. CASE OpenDraft(k)
    <2>1. PICK at \in {"drafted", "copying"} :
              /\ call.at = "authorized" /\ Unlocked /\ Advance(k, [call EXCEPT !.at = at])
              /\ at = "drafted" => Exists(call.draft) /\ drafts[call.draft].source = call.source
              /\ at = "copying" => ~Exists(call.draft) /\ rows[call.source] = "fresh"
      BY <1>4 DEF OpenDraft
    <2>2. call \in PortalRequest
      BY <2>1, CallFields
    <2>3. PICK c : c = [call EXCEPT !.at = at]
      OBVIOUS
    <2>4. /\ c \in PortalRequest /\ c.at = at
          /\ c.draft = call.draft /\ c.source = call.source
      BY <2>2, <2>3 DEF PortalRequest
    <2>5. RequestKnows(c)
      BY <2>1, <2>4 DEF RequestKnows, OfferKept
    <2> QED BY <2>1, <2>3, <2>4, <2>5, <1>1
  <1>5. CASE OpenQuote(k)
    <2>1. call.at = "drafted" /\ Unlocked
      BY <1>5 DEF OpenQuote
    <2>2. call \in PortalRequest /\ RequestKnows(call)
      BY <2>1, CallFields
    <2>3. CASE Unquoted(call.draft)
      <3>1. PICK c : c = [call EXCEPT !.at = "pricing"]
        OBVIOUS
      <3>2. /\ c \in PortalRequest /\ c.at = "pricing"
            /\ c.draft = call.draft /\ c.source = call.source
        BY <2>2, <3>1 DEF PortalRequest
      <3>3. RequestKnows(c)
        BY <2>1, <2>2, <2>3, <3>2 DEF RequestKnows, Unquoted
      <3>4. Advance(k, c)
        BY <1>5, <2>3, <3>1 DEF OpenQuote
      <3> QED BY <2>1, <3>2, <3>3, <3>4, <1>1
    <2>4. CASE ~Unquoted(call.draft)
      <3>1. Advance(k, NoRequest)
        BY <1>5, <2>4 DEF OpenQuote, Ends
      <3> QED BY <3>1, <1>1 DEF NoRequest
    <2> QED BY <2>3, <2>4
  <1>6. CASE SubmitDraft(k)
    <2>1. /\ call.at = "authorized" /\ Exists(call.draft)
          /\ reserved[call.draft] = 0 => PriceContext(call.draft, call.machine)
      BY <1>6 DEF SubmitDraft
    <2>2. call \in PortalRequest /\ call.draft \in Drafts
      BY <2>1, CallFields
    <2>3. PICK c : c = [call EXCEPT !.at = "checked", !.quote = drafts[call.draft].quote]
      OBVIOUS
    <2>4. /\ c \in PortalRequest /\ c.at = "checked" /\ c.machine = call.machine
          /\ c.draft = call.draft /\ c.quote = drafts[call.draft].quote
      <3>1. drafts[call.draft].quote \in 0..MaxQuotes
        BY <2>2, DraftFields
      <3> QED BY <2>2, <2>3, <3>1 DEF PortalRequest
    <2>5. RequestKnows(c)
      BY <2>1, <2>4 DEF RequestKnows, PriceContext
    <2>6. Advance(k, c)
      BY <1>6, <2>3 DEF SubmitDraft
    <2> QED BY <2>4, <2>5, <2>6, <1>1
  <1> QED BY <1>2, <1>3, <1>4, <1>5, <1>6

LEMMA OwnerAndRows ==
    ASSUME DraftsInvariant,
           \/ \E c \in Contexts, granted \in BOOLEAN : ChangeOwner(c, granted)
           \/ \E s \in Sources : ExpireOffer(s)
           \/ SweepLook \/ SweepDelete
           \/ \E o \in Stored : ForgetMarker(o)
    PROVE  DraftsInvariant'
  <1>1. ASSUME RowsTyped', RowsInUse, UNCHANGED <<quotes, drafts, calls, reserved>>,
               owner' \in [context : Contexts, granted : BOOLEAN], seenIn' \subseteq Contexts
        PROVE  DraftsInvariant'
    <2>1. DraftsTypeOK'
      BY <1>1 DEF DraftsInvariant, DraftsTyped, DraftsTypeOK, RowsTyped
    <2> QED BY <1>1, <2>1, SameQuotes, QuietStep
  <1>2. RowsTyped /\ owner \in [context : Contexts, granted : BOOLEAN] /\ seenIn \subseteq Contexts
    BY ZenonT(90) DEF DraftsInvariant, DraftsTyped, DraftsTypeOK, RowsTyped
  <1>3. /\ \A d \in Drafts : Exists(d) => {rows[d], rows[drafts[d].source]} \subseteq OfferKept
        /\ \A j \in Calls : calls[j].at = "copying" =>
              rows[calls[j].source] \in OfferKept /\ calls[j].source \in Stored
    BY CallFields DEF DraftsInvariant, DraftsKept, OfferKept, RequestKnows, Stored
  <1>4. \A d \in Drafts : Exists(d) => d \in Stored /\ drafts[d].source \in Stored
    BY DraftFields
  <1>5. ASSUME NEW c \in Contexts, NEW granted \in BOOLEAN, ChangeOwner(c, granted)
        PROVE  DraftsInvariant'
    BY <1>1, <1>2, <1>5, SameRows DEF ChangeOwner, RowsTyped
  <1>6. ASSUME NEW s \in Sources, ExpireOffer(s)
        PROVE  DraftsInvariant'
    <2>1. /\ UNCHANGED <<owner, seenIn, quotes, drafts, calls, reserved>>
          /\ rows' = [o \in Stored |->
                IF rows[o] = "fresh" /\ (o = s \/ (o \in Drafts /\ drafts[o].source = s))
                THEN "expired" ELSE rows[o]]
      BY <1>6 DEF ExpireOffer
    <2>2. /\ RowsTyped'
          /\ \A o \in Stored : rows[o] \in OfferKept => rows'[o] \in OfferKept
      BY <2>1, <1>2 DEF RowsTyped, OfferKept
    <2>3. RowsInUse
      BY <2>2, <1>3, <1>4 DEF RowsInUse
    <2> QED BY <2>1, <2>2, <2>3, <1>1, <1>2
  <1>7. CASE SweepLook
    BY <1>1, <1>2, <1>7, SameRows DEF SweepLook, RowsTyped
  <1>8. CASE SweepDelete
    <2> DEFINE held == {calls[k].source : k \in {j \in Calls : calls[j].at = "copying"}}
               gone == sweep \ held
    <2>1. /\ UNCHANGED <<owner, seenIn, quotes, drafts, calls, reserved>>
          /\ \/ rows' = rows
             \/ /\ \A o \in gone : ~Referenced(o)
                /\ rows' = [o \in Stored |-> IF o \in gone THEN "expired marker" ELSE rows[o]]
      BY <1>8 DEF SweepDelete
    <2>2. CASE rows' = rows
      BY <2>1, <2>2, <1>1, <1>2, SameRows DEF RowsTyped
    <2>3. CASE /\ \A o \in gone : ~Referenced(o)
               /\ rows' = [o \in Stored |-> IF o \in gone THEN "expired marker" ELSE rows[o]]
      <3>1. RowsTyped' /\ \A o \in Stored : o \notin gone => rows'[o] = rows[o]
        BY <2>3, <1>2 DEF RowsTyped
      <3>2. \A j \in Calls : calls[j].at = "copying" => calls[j].source \notin gone
        OBVIOUS
      <3>3. \A d \in Drafts : Exists(d) => d \notin gone /\ drafts[d].source \notin gone
        BY <2>3 DEF Referenced
      <3> HIDE DEF gone
      <3>4. RowsInUse
        BY <3>1, <3>2, <3>3, <1>3, <1>4 DEF RowsInUse
      <3> QED BY <2>1, <3>1, <3>4, <1>1, <1>2
    <2> QED BY <2>1, <2>2, <2>3
  <1>9. ASSUME NEW o \in Stored, ForgetMarker(o)
        PROVE  DraftsInvariant'
    <2>1. /\ UNCHANGED <<owner, seenIn, quotes, drafts, calls, reserved>>
          /\ rows[o] = "expired marker" /\ rows' = [rows EXCEPT ![o] = "absent"]
      BY <1>9 DEF ForgetMarker
    <2>2. /\ RowsTyped'
          /\ \A x \in Stored : rows[x] \in OfferKept => rows'[x] \in OfferKept
      BY <2>1, <1>2 DEF RowsTyped, OfferKept
    <2>3. RowsInUse
      BY <2>2, <1>3, <1>4 DEF RowsInUse
    <2> QED BY <2>1, <2>2, <2>3, <1>1, <1>2
  <1> QED BY <1>5, <1>6, <1>7, <1>8, <1>9

LEMMA NewQuoteGrows ==
    ASSUME DraftsInvariant, NEW o \in Stored, NEW c \in Contexts,
           Len(quotes[o]) < MaxQuotes, NewQuote(o, c)
    PROVE  /\ QuotesTyped' /\ PricesGrow
           /\ Len(quotes'[o]) = Len(quotes[o]) + 1
           /\ quotes'[o][Len(quotes[o]) + 1].context = c
  <1> DEFINE q == [context |-> c, accepted |-> FALSE]
  <1>1. q \in PriceVersion /\ q.context = c
    BY DEF PriceVersion
  <1>2. quotes' = [quotes EXCEPT ![o] = Append(@, q)]
    BY DEF NewQuote
  <1> HIDE DEF q
  <1>3. /\ quotes \in [Stored -> Seq(PriceVersion)] /\ MaxQuotes \in Nat
        /\ \A x \in Stored : Len(quotes[x]) <= MaxQuotes /\ Len(quotes[x]) \in Nat
    BY DraftsAssumption DEF DraftsInvariant, DraftsTyped
  <1>4. /\ quotes' \in [Stored -> Seq(PriceVersion)]
        /\ quotes'[o] = Append(quotes[o], q)
        /\ \A x \in Stored : x # o => quotes'[x] = quotes[x]
    BY <1>1, <1>2, <1>3
  <1>5. /\ Len(quotes'[o]) = Len(quotes[o]) + 1
        /\ quotes'[o][Len(quotes[o]) + 1] = q
        /\ \A v \in 1..Len(quotes[o]) : quotes'[o][v] = quotes[o][v]
    BY <1>1, <1>3, <1>4
  <1>6. QuotesTyped'
    <2>1. ASSUME NEW x \in Stored
          PROVE  Len(quotes'[x]) <= MaxQuotes
      <3>1. CASE x = o
        BY <1>3, <1>5, <3>1
      <3>2. CASE x # o
        BY <1>3, <1>4, <3>2
      <3> QED BY <3>1, <3>2
    <2> QED BY <1>4, <2>1 DEF QuotesTyped
  <1>7. PricesGrow
    BY <1>3, <1>4, <1>5, SMTT(60) DEF PricesGrow
  <1> QED BY <1>1, <1>5, <1>6, <1>7

LEMMA AcceptGrows ==
    ASSUME DraftsInvariant, NEW o \in Stored, NEW v \in 1..Len(quotes[o]), NEW c,
           Acceptable(o, v, c)
    PROVE  QuotesTyped' /\ PricesGrow
  <1> DEFINE q == [quotes[o][v] EXCEPT !.accepted = TRUE]
  <1>1. /\ quotes \in [Stored -> Seq(PriceVersion)]
        /\ \A x \in Stored : Len(quotes[x]) <= MaxQuotes /\ Len(quotes[x]) \in Nat
    BY DEF DraftsInvariant, DraftsTyped
  <1>2. quotes[o] \in Seq(PriceVersion) /\ quotes[o][v] \in PriceVersion
    BY <1>1
  <1>3. q \in PriceVersion /\ q.context = quotes[o][v].context /\ q.accepted
    BY <1>2 DEF PriceVersion
  <1>4. quotes' = [quotes EXCEPT ![o] = [@ EXCEPT ![v] = q]]
    BY DEF Acceptable
  <1> HIDE DEF q
  <1> DEFINE s == [quotes[o] EXCEPT ![v] = q]
  <1>5. /\ s \in Seq(PriceVersion) /\ Len(s) = Len(quotes[o]) /\ s[v] = q
        /\ \A w \in 1..Len(quotes[o]) : w # v => s[w] = quotes[o][w]
    BY <1>2, <1>3
  <1>6. quotes' = [quotes EXCEPT ![o] = s]
    BY <1>4
  <1> HIDE DEF s
  <1>7. /\ quotes' \in [Stored -> Seq(PriceVersion)] /\ quotes'[o] = s
        /\ \A x \in Stored : x # o => quotes'[x] = quotes[x]
    BY <1>1, <1>5, <1>6
  <1>8. QuotesTyped'
    BY <1>1, <1>5, <1>7 DEF QuotesTyped
  <1>9. PricesGrow
    <2>1. ASSUME NEW x \in Stored, NEW w \in 1..Len(quotes[x])
          PROVE  /\ quotes'[x][w].context = quotes[x][w].context
                 /\ quotes[x][w].accepted => quotes'[x][w].accepted
      <3>1. CASE x = o /\ w = v
        BY <1>3, <1>5, <1>7, <3>1
      <3>2. CASE x = o /\ w # v
        BY <1>5, <1>7, <3>2
      <3>3. CASE x # o
        BY <1>7, <3>3
      <3> QED BY <3>1, <3>2, <3>3
    <2>2. ASSUME NEW x \in Stored
          PROVE  Len(quotes[x]) <= Len(quotes'[x])
      BY <1>1, <1>5, <1>7, SMTT(60)
    <2> QED BY <2>1, <2>2 DEF PricesGrow
  <1> QED BY <1>8, <1>9

LEMMA PriceSteps ==
    ASSUME DraftsInvariant,
           \/ \E o \in Stored, c \in Contexts : ApiReprice(o, c) \/ ApiAccept(o, c)
           \/ \E k \in Calls : QuotePriced(k) \/ AcceptDraft(k)
    PROVE  DraftsInvariant'
  <1>1. ASSUME NEW o \in Stored, NEW c \in Contexts, ApiReprice(o, c)
        PROVE  DraftsInvariant'
    <2>1. /\ UNCHANGED <<owner, seenIn, rows, drafts, calls, reserved>>
          /\ Len(quotes[o]) < MaxQuotes /\ NewQuote(o, c)
      BY <1>1 DEF ApiReprice
    <2>2. QuotesTyped' /\ PricesGrow
      BY <2>1, NewQuoteGrows
    <2> QED BY <2>1, <2>2, TypesStay, SameRows, QuietStep
  <1>2. ASSUME NEW o \in Stored, NEW c \in Contexts, ApiAccept(o, c)
        PROVE  DraftsInvariant'
    <2>1. /\ UNCHANGED <<owner, seenIn, rows, drafts, calls, reserved>>
          /\ quotes[o] # << >> /\ Acceptable(o, Len(quotes[o]), c)
      BY <1>2 DEF ApiAccept
    <2>2. quotes[o] \in Seq(PriceVersion)
      BY DEF DraftsInvariant, DraftsTyped
    <2>3. Len(quotes[o]) \in 1..Len(quotes[o])
      BY <2>1, <2>2, EmptySeq
    <2>4. QuotesTyped' /\ PricesGrow
      BY <2>1, <2>3, AcceptGrows
    <2> QED BY <2>1, <2>4, TypesStay, SameRows, QuietStep
  <1>3. ASSUME NEW k \in Calls, QuotePriced(k)
        PROVE  DraftsInvariant'
    <2> DEFINE call == calls[k]
    <2>1. /\ UNCHANGED <<owner, seenIn, rows, drafts, reserved>>
          /\ call.at = "pricing" /\ Len(quotes[call.draft]) < MaxQuotes
          /\ NewQuote(call.draft, call.machine)
      BY <1>3 DEF QuotePriced
    <2>2. /\ call \in PortalRequest /\ call.draft \in Drafts /\ call.draft \in Stored
          /\ call.machine \in Contexts /\ RequestKnows(call)
          /\ Len(quotes[call.draft]) \in Nat
      BY <2>1, CallFields, DraftFields
    <2>3. /\ QuotesTyped' /\ PricesGrow
          /\ Len(quotes'[call.draft]) = Len(quotes[call.draft]) + 1
          /\ quotes'[call.draft][Len(quotes[call.draft]) + 1].context = call.machine
      BY <2>1, <2>2, NewQuoteGrows
    <2>4. PICK c : c = [call EXCEPT !.at = "priced", !.quote = Len(quotes[call.draft]) + 1]
      OBVIOUS
    <2>5. /\ c \in PortalRequest /\ c.at = "priced" /\ c.machine = call.machine
          /\ c.draft = call.draft /\ c.source = call.source
          /\ c.quote = Len(quotes[call.draft]) + 1
      <3>1. Len(quotes[call.draft]) + 1 \in 0..MaxQuotes
        BY <2>1, <2>2, DraftsAssumption
      <3> QED BY <2>2, <2>4, <3>1 DEF PortalRequest
    <2>6. RequestKnows(c)'
      BY <2>1, <2>2, <2>3, <2>5, SMTT(60) DEF RequestKnows, Exists
    <2>7. Advance(k, c)
      BY <1>3, <2>4 DEF QuotePriced
    <2> QED BY <2>1, <2>3, <2>5, <2>6, <2>7, TypesStay, SameRows, QuietCall
  <1>4. ASSUME NEW k \in Calls, AcceptDraft(k)
        PROVE  DraftsInvariant'
    <2> DEFINE call == calls[k]
               v == drafts[call.draft].quote
    <2>1. /\ UNCHANGED <<owner, seenIn, rows, drafts, reserved>>
          /\ call.at = "authorized" /\ v # 0
          /\ Acceptable(call.draft, v, call.machine) /\ Advance(k, NoRequest)
      BY <1>4, Zenon DEF AcceptDraft, PriceContext, Ends
    <2>2. call.draft \in Drafts
      BY <2>1, CallFields
    <2>3. call.draft \in Stored /\ v \in 1..Len(quotes[call.draft])
      BY <2>1, <2>2, DraftFields DEF DraftsInvariant, PricesWithin
    <2>4. QuotesTyped' /\ PricesGrow
      BY <2>1, <2>3, AcceptGrows
    <2> QED BY <2>1, <2>4, TypesStay, SameRows, QuietCall, SMTT(60) DEF NoRequest
  <1> QED BY <1>1, <1>2, <1>3, <1>4

LEMMA CopyStep ==
    ASSUME DraftsInvariant, NEW k \in Calls, CopyOffer(k)
    PROVE  DraftsInvariant'
  <1> DEFINE call == calls[k]
             d == call.draft
             n == [source |-> call.source, quote |-> 0]
  <1>1. /\ UNCHANGED <<owner, seenIn, quotes, reserved>> /\ call.at = "copying"
        /\ rows' = [rows EXCEPT ![d] = rows[call.source]]
        /\ drafts' = [drafts EXCEPT ![d] = n]
    BY DEF CopyOffer
  <1>2. /\ call \in PortalRequest /\ d \in Drafts /\ call.source \in Sources
        /\ RequestKnows(call)
    BY <1>1, CallFields
  <1>3. /\ ~Exists(d) /\ rows[call.source] \in OfferKept /\ call.source # "none"
        /\ reserved[d] = 0 /\ drafts[d].quote = 0 /\ d \in Stored /\ call.source \in Stored
        /\ \A s \in Sources : s # d
    BY <1>1, <1>2, DraftFields, DraftsAssumption DEF RequestKnows, Stored
  <1>4. /\ rows \in [Stored -> {"fresh", "expired", "expired marker", "absent"}]
        /\ drafts \in [Drafts -> [source : Sources, quote : 0..MaxQuotes] \cup {NoDraft}]
        /\ owner \in [context : Contexts, granted : BOOLEAN] /\ seenIn \subseteq Contexts
        /\ reserved \in [Drafts -> 0..MaxQuotes]
    BY DEF DraftsInvariant, DraftsTyped, DraftsTypeOK
  <1>5. n \in [source : Sources, quote : 0..MaxQuotes] /\ n # NoDraft
        /\ n.source = call.source /\ n.quote = 0
    BY <1>2, <1>3, DraftsAssumption DEF NoDraft
  <1> HIDE DEF n
  <1>6. /\ drafts'[d] = n /\ rows'[d] \in OfferKept
        /\ \A e \in Drafts : e # d => drafts'[e] = drafts[e] /\ rows'[e] = rows[e]
        /\ \A s \in Sources : rows'[s] = rows[s]
    <2>1. \A o \in Stored : o # d => rows'[o] = rows[o]
      BY <1>1, <1>4
    <2>2. rows'[d] = rows[call.source]
      BY <1>1, <1>3, <1>4
    <2>3. \A e \in Drafts : e # d => drafts'[e] = drafts[e]
      BY <1>1, <1>4
    <2>4. drafts'[d] = n
      BY <1>1, <1>2, <1>4
    <2> QED BY <1>3, <2>1, <2>2, <2>3, <2>4 DEF Stored
  <1>7. DraftsTypeOK' /\ QuotesTyped'
    BY <1>1, <1>4, <1>5, <1>3, SameQuotes DEF DraftsTypeOK
  <1>8. PricesWithin'
    BY <1>1, <1>5, <1>6, DraftFields DEF PricesWithin, DraftsInvariant
  <1>9. DraftsKept'
    <2>1. ASSUME NEW e \in Drafts, Exists(e)'
          PROVE  {rows'[e], rows'[drafts'[e].source]} \subseteq OfferKept
      <3>1. CASE e = d
        BY <1>2, <1>3, <1>5, <1>6, <3>1
      <3>2. CASE e # d
        <4>1. Exists(e) /\ drafts[e].source \in Sources
          BY <2>1, <3>2, <1>6, DraftFields DEF Exists
        <4>2. {rows[e], rows[drafts[e].source]} \subseteq OfferKept
          BY <4>1 DEF DraftsInvariant, DraftsKept, OfferKept
        <4> QED BY <3>2, <4>1, <4>2, <1>6
      <3> QED BY <3>1, <3>2
    <2>2. \A e \in Drafts : reserved'[e] # 0 =>
             drafts'[e].quote = reserved'[e] /\ quotes'[e][reserved'[e]].accepted
      BY <1>1, <1>3, <1>6 DEF DraftsInvariant, DraftsKept
    <2> QED BY <2>1, <2>2 DEF DraftsKept, OfferKept
  <1>10. ASSUME NEW j \in Calls \ {k}, calls[j] # NoRequest
         PROVE  RequestKnows(calls[j])'
    <2> DEFINE e == calls[j]
    <2>1. e \in PortalRequest /\ RequestKnows(e) /\ calls'[j] = e
      BY <1>10, <1>1 DEF DraftsInvariant, DraftsTyped, CopyOffer, Advance
    <2>2. e.draft \in Drafts /\ e.source \in Sources
      BY <2>1 DEF PortalRequest
    <2>3. e.at # "copying"
      BY <1>1, <1>10, SMTT(60) DEF DraftsInvariant, OneTransaction, InTransaction
    <2>4. CASE e.draft = d
      BY <1>1, <1>3, <2>1, <2>3, <2>4 DEF RequestKnows
    <2>5. CASE e.draft # d
      BY <1>1, <1>6, <2>1, <2>2, <2>3, <2>5 DEF RequestKnows, Exists
    <2> QED BY <2>4, <2>5
  <1>11. PICK c : c = [call EXCEPT !.at = "drafted"]
    OBVIOUS
  <1>12. /\ c \in PortalRequest /\ c.at = "drafted"
         /\ c.draft = d /\ c.source = call.source /\ Advance(k, c)
    BY <1>2, <1>11 DEF PortalRequest, CopyOffer
  <1>13. RequestKnows(c)'
    BY <1>5, <1>6, <1>12 DEF RequestKnows, Exists
  <1> QED BY <1>7, <1>8, <1>9, <1>10, <1>12, <1>13, CallMoves

LEMMA SaveStep ==
    ASSUME DraftsInvariant, NEW k \in Calls, QuoteSaved(k)
    PROVE  DraftsInvariant'
  <1> DEFINE call == calls[k]
             d == call.draft
  <1>1. /\ UNCHANGED <<owner, seenIn, rows, quotes, reserved>> /\ call.at = "priced"
        /\ drafts' = [drafts EXCEPT ![d].quote = call.quote] /\ Advance(k, NoRequest)
    BY DEF QuoteSaved, Ends
  <1>2. d \in Drafts /\ RequestKnows(call) /\ call.quote \in 0..MaxQuotes
    BY <1>1, CallFields, SMTT(60)
  <1>3. /\ Exists(d) /\ drafts[d].quote = 0 /\ reserved[d] = 0
        /\ drafts[d] \in [source : Sources, quote : 0..MaxQuotes]
        /\ call.quote \in 1..Len(quotes[d])
    BY <1>1, <1>2, DraftFields DEF RequestKnows, DraftsInvariant, DraftsKept
  <1>4. /\ drafts \in [Drafts -> [source : Sources, quote : 0..MaxQuotes] \cup {NoDraft}]
        /\ rows \in [Stored -> {"fresh", "expired", "expired marker", "absent"}]
        /\ owner \in [context : Contexts, granted : BOOLEAN] /\ seenIn \subseteq Contexts
        /\ reserved \in [Drafts -> 0..MaxQuotes]
    BY DEF DraftsInvariant, DraftsTyped, DraftsTypeOK
  <1> DEFINE n == [drafts[d] EXCEPT !.quote = call.quote]
  <1>5. /\ n \in [source : Sources, quote : 0..MaxQuotes] /\ n # NoDraft
        /\ n.source = drafts[d].source /\ n.quote = call.quote
    BY <1>2, <1>3, DraftsAssumption DEF NoDraft
  <1>6. drafts' = [drafts EXCEPT ![d] = n]
    BY <1>1
  <1> HIDE DEF n
  <1>7. /\ drafts' \in [Drafts -> [source : Sources, quote : 0..MaxQuotes] \cup {NoDraft}]
        /\ drafts'[d] = n /\ \A e \in Drafts : e # d => drafts'[e] = drafts[e]
    BY <1>2, <1>4, <1>5, <1>6
  <1>8. DraftsTypeOK' /\ QuotesTyped'
    BY <1>1, <1>4, <1>7, SameQuotes DEF DraftsTypeOK
  <1>9. PricesWithin'
    <2>1. ASSUME NEW e \in Drafts
          PROVE  drafts'[e].quote <= Len(quotes'[e])
      <3>1. CASE e = d
        BY <1>1, <1>3, <1>5, <1>7, <3>1, DraftFields
      <3>2. CASE e # d
        BY <1>1, <1>7, <3>2 DEF DraftsInvariant, PricesWithin
      <3> QED BY <3>1, <3>2
    <2> QED BY <2>1 DEF PricesWithin
  <1>10. DraftsKept'
    <2>1. \A e \in Drafts : Exists(e) => {rows[e], rows[drafts[e].source]} \subseteq OfferKept
      BY DEF DraftsInvariant, DraftsKept, OfferKept
    <2>2. ASSUME NEW e \in Drafts, drafts'[e] # NoDraft
          PROVE  {rows'[e], rows'[drafts'[e].source]} \subseteq OfferKept
      <3>1. CASE e = d
        BY <1>1, <1>3, <1>5, <1>7, <2>1, <3>1
      <3>2. CASE e # d
        BY <1>1, <1>7, <2>1, <2>2, <3>2 DEF Exists
      <3> QED BY <3>1, <3>2
    <2>3. \A e \in Drafts : reserved'[e] # 0 =>
             drafts'[e].quote = reserved'[e] /\ quotes'[e][reserved'[e]].accepted
      BY <1>1, <1>3, <1>7 DEF DraftsInvariant, DraftsKept
    <2> QED BY <2>2, <2>3 DEF DraftsKept, OfferKept, Exists
  <1>11. ASSUME NEW j \in Calls \ {k}, calls[j] # NoRequest
         PROVE  RequestKnows(calls[j])'
    <2> DEFINE e == calls[j]
    <2>1. e \in PortalRequest /\ RequestKnows(e) /\ calls'[j] = e
      BY <1>11, <1>1 DEF DraftsInvariant, DraftsTyped, Advance
    <2>2. e.draft \in Drafts /\ e.source \in Sources
      BY <2>1 DEF PortalRequest
    <2>3. e.at \notin {"copying", "pricing", "priced"}
      BY <1>1, <1>11, SMTT(60) DEF DraftsInvariant, OneTransaction, InTransaction
    <2>4. CASE e.draft = d
      <3>1. e.at = "drafted" => drafts[d].source = e.source
        BY <2>1, <2>4 DEF RequestKnows
      <3>2. drafts'[d] # NoDraft /\ drafts'[d].source = drafts[d].source
        BY ONLY <1>5, <1>7
      <3>3. calls'[j] = e
        BY <2>1
      <3>4. e.at # "checked"
        BY <1>3, <2>1, <2>4 DEF RequestKnows
      <3> QED BY ONLY <2>3, <2>4, <3>1, <3>2, <3>3, <3>4 DEF RequestKnows, Exists
    <2>5. CASE e.draft # d
      BY <1>1, <1>7, <2>1, <2>2, <2>3, <2>5 DEF RequestKnows, Exists
    <2> QED BY <2>4, <2>5
  <1> QED BY <1>1, <1>8, <1>9, <1>10, <1>11, CallMoves DEF NoRequest

\* What a booking is made with.
LEMMA BookStep ==
    ASSUME DraftsInvariant, NEW k \in Calls, BookDraft(k)
    PROVE  /\ UNCHANGED <<owner, seenIn, rows, quotes, drafts>> /\ Advance(k, NoRequest)
           /\ calls[k].draft \in Drafts
           /\ \/ reserved' = reserved
              \/ \E v \in 1..Len(quotes[calls[k].draft]) :
                    LET d == calls[k].draft IN
                    /\ reserved[d] = 0 /\ reserved' = [reserved EXCEPT ![d] = v]
                    /\ drafts[d].quote = v /\ quotes[d][v].accepted
                    /\ v = Len(quotes[d]) /\ rows[d] = "fresh"
                    /\ owner = [context |-> quotes[d][v].context, granted |-> TRUE]
  <1> DEFINE call == calls[k]
             d == call.draft
             v == call.quote
  <1>1. /\ UNCHANGED <<owner, seenIn, rows, quotes, drafts>> /\ Advance(k, NoRequest)
        /\ call.at = "checked" /\ owner.granted
    BY DEF BookDraft, Ends
  <1>2. /\ d \in Drafts /\ RequestKnows(call) /\ v \in 0..MaxQuotes
        /\ call.machine \in Contexts
    BY <1>1, CallFields, SMTT(60)
  <1>3. CASE reserved[d] = 0 /\ reserved' # reserved
    <2>1. /\ owner.context = call.machine /\ rows[d] = "fresh" /\ v = Len(quotes[d])
          /\ quotes[d][v].accepted /\ quotes[d][v].context.agent = call.machine.agent
          /\ reserved' = [reserved EXCEPT ![d] = v]
      BY <1>3 DEF BookDraft, StillOwner
    <2>2. /\ v # 0 /\ drafts[d].quote = v
          /\ quotes[d][v].context.tier = call.machine.tier
      BY <1>1, <1>2, <1>3 DEF RequestKnows
    <2>3. v \in 1..Len(quotes[d]) /\ quotes[d] \in Seq(PriceVersion) /\ v \in Nat
      <3>1. quotes[d] \in Seq(PriceVersion) /\ Len(quotes[d]) \in Nat
        BY <1>2, DraftFields
      <3> QED BY ONLY <1>2, <2>1, <2>2, <3>1
    <2>4. quotes[d][v].context \in Contexts
      <3>1. quotes[d][v] \in PriceVersion
        BY <2>3
      <3> QED BY <3>1 DEF PriceVersion
    <2>5. quotes[d][v].context = call.machine
      BY <1>2, <2>1, <2>2, <2>4, DraftsAssumption
    <2>6. owner = [context |-> quotes[d][v].context, granted |-> TRUE]
      <3>1. owner \in [context : Contexts, granted : BOOLEAN]
        BY DEF DraftsInvariant, DraftsTyped, DraftsTypeOK
      <3>2. owner.granted = TRUE
        BY <1>1, <3>1
      <3> QED BY <2>1, <2>5, <3>1, <3>2
    <2> QED BY <1>1, <1>2, <1>3, <2>1, <2>2, <2>3, <2>6
  <1>4. CASE reserved' = reserved
    BY <1>1, <1>2, <1>4
  <1>5. reserved[d] = 0 \/ reserved' = reserved
    BY DEF BookDraft
  <1> QED BY <1>3, <1>4, <1>5

LEMMA BookKeeps ==
    ASSUME DraftsInvariant, NEW k \in Calls, BookDraft(k)
    PROVE  DraftsInvariant'
  <1>1. /\ UNCHANGED <<owner, seenIn, rows, quotes, drafts>> /\ Advance(k, NoRequest)
        /\ calls[k].draft \in Drafts
    BY BookStep
  <1>2. QuotesTyped' /\ PricesGrow /\ RowsInUse
    BY <1>1, SameQuotes, SameRows
  <1>3. CASE reserved' = reserved
    BY <1>1, <1>2, <1>3, TypesStay, QuietCall DEF NoRequest
  <1>4. CASE reserved' # reserved
    <2>1. PICK d \in Drafts, v \in Nat :
              /\ v \in 1..Len(quotes[d])
              /\ reserved[d] = 0 /\ reserved' = [reserved EXCEPT ![d] = v]
              /\ drafts[d].quote = v /\ quotes[d][v].accepted
      BY <1>1, <1>4, BookStep
    <2>2. /\ reserved \in [Drafts -> 0..MaxQuotes] /\ v \in 0..MaxQuotes
          /\ drafts[d].quote # 0
      <3>1. reserved \in [Drafts -> 0..MaxQuotes]
        BY DEF DraftsInvariant, DraftsTyped, DraftsTypeOK
      <3>2. Len(quotes[d]) \in Nat /\ Len(quotes[d]) <= MaxQuotes
        BY DraftFields
      <3> QED BY <2>1, <3>1, <3>2, DraftsAssumption
    <2>3. /\ reserved' \in [Drafts -> 0..MaxQuotes] /\ reserved'[d] = v
          /\ \A e \in Drafts : e # d => reserved'[e] = reserved[e]
      BY <2>1, <2>2
    <2>4. DraftsTypeOK'
      BY <1>1, <2>3 DEF DraftsInvariant, DraftsTyped, DraftsTypeOK
    <2>5. DraftsKept'
      <3>1. \A e \in Drafts : reserved'[e] # 0 =>
               drafts[e].quote = reserved'[e] /\ quotes[e][reserved'[e]].accepted
        BY <2>1, <2>3 DEF DraftsInvariant, DraftsKept
      <3> QED BY <1>1, <3>1 DEF DraftsInvariant, DraftsKept, Exists
    <2>6. PricesWithin'
      BY <1>1 DEF DraftsInvariant, PricesWithin
    <2>7. ASSUME NEW j \in Calls \ {k}, calls[j] # NoRequest
          PROVE  RequestKnows(calls[j])'
      <3> DEFINE e == calls[j]
      <3>1. e \in PortalRequest /\ RequestKnows(e) /\ calls'[j] = e
        BY <2>7, <1>1 DEF DraftsInvariant, DraftsTyped, Advance
      <3>2. e.draft \in Drafts
        BY <3>1 DEF PortalRequest
      <3>3. reserved[e.draft] # 0 => reserved'[e.draft] # 0
        BY <2>1, <2>3, <3>2
      <3> QED BY <1>1, <3>1, <3>2, <3>3 DEF RequestKnows, Exists
    <2> QED BY <1>1, <1>2, <2>4, <2>5, <2>6, <2>7, CallMoves DEF NoRequest
  <1> QED BY <1>3, <1>4

LEMMA InitDrafts == DraftsInit => DraftsInvariant
  <1> SUFFICES ASSUME DraftsInit PROVE DraftsInvariant
    OBVIOUS
  <1>0. 0 \in 0..MaxQuotes /\ MaxQuotes \in Nat
    BY DraftsAssumption
  <1>1. PICK c \in Contexts : owner = [context |-> c, granted |-> TRUE] /\ seenIn = {c}
    BY DEF DraftsInit
  <1>2. /\ rows = [o \in Stored |-> IF o \in Sources THEN "fresh" ELSE "absent"]
        /\ quotes = [o \in Stored |-> << >>] /\ drafts = [d \in Drafts |-> NoDraft]
        /\ calls = [k \in Calls |-> NoRequest] /\ reserved = [d \in Drafts |-> 0]
    BY DEF DraftsInit
  <1>3. DraftsTypeOK
    BY <1>0, <1>1, <1>2 DEF DraftsTypeOK
  <1>4. QuotesTyped
    <2>1. << >> \in Seq(PriceVersion) /\ Len(<< >>) = 0
      OBVIOUS
    <2> QED BY <1>0, <1>2, <2>1 DEF QuotesTyped
  <1>5. \A d \in Drafts : ~Exists(d) /\ reserved[d] = 0 /\ drafts[d].quote = 0
                          /\ Len(quotes[d]) = 0
    BY <1>2 DEF Exists, NoDraft, Stored
  <1>6. InTransaction = {}
    BY <1>2 DEF InTransaction, NoRequest
  <1> QED
    BY <1>2, <1>3, <1>4, <1>5, <1>6
       DEF DraftsInvariant, DraftsTyped, QuotesTyped, DraftsKept, OneTransaction, PricesWithin

LEMMA DraftsInvariantStep == DraftsInvariant /\ [DraftsNext]_draftsVars => DraftsInvariant'
  <1> SUFFICES ASSUME DraftsInvariant, [DraftsNext]_draftsVars PROVE DraftsInvariant'
    OBVIOUS
  <1>1. CASE UNCHANGED draftsVars
    <2>1. UNCHANGED <<owner, seenIn, rows, quotes, drafts, calls, reserved, sweep>>
      BY <1>1 DEF draftsVars
    <2> QED BY <2>1, TypesStay, SameQuotes, SameRows, QuietStep
  <1>2. CASE \/ \E c \in Contexts, granted \in BOOLEAN : ChangeOwner(c, granted)
             \/ \E s \in Sources : ExpireOffer(s)
             \/ SweepLook \/ SweepDelete
             \/ \E o \in Stored : ForgetMarker(o)
    BY <1>2, OwnerAndRows
  <1>3. CASE \E o \in Stored, c \in Contexts : ApiReprice(o, c) \/ ApiAccept(o, c)
    BY <1>3, PriceSteps
  <1>4. ASSUME NEW k \in Calls,
               \/ \E d \in Drafts, s \in Sources : Authorized(k, d, s)
               \/ Dropped(k) \/ OpenDraft(k) \/ OpenQuote(k) \/ SubmitDraft(k)
        PROVE  DraftsInvariant'
    BY <1>4, RequestSteps
  <1>5. ASSUME NEW k \in Calls, QuotePriced(k) \/ AcceptDraft(k)
        PROVE  DraftsInvariant'
    BY <1>5, PriceSteps
  <1>6. ASSUME NEW k \in Calls, CopyOffer(k) \/ QuoteSaved(k) \/ BookDraft(k)
        PROVE  DraftsInvariant'
    BY <1>6, CopyStep, SaveStep, BookKeeps
  <1> QED BY <1>1, <1>2, <1>3, <1>4, <1>5, <1>6 DEF DraftsNext

\* A step gives a draft its price once and its booking once, and books it as its
\* owner is priced at that moment.
LEMMA BookedAtOnce ==
    ASSUME DraftsInvariant, DraftsNext
    PROVE  \A d \in Drafts :
              /\ Exists(d) => drafts'[d].source = drafts[d].source
              /\ drafts[d].quote # 0 => drafts'[d] = drafts[d]
              /\ reserved[d] # 0 => reserved'[d] = reserved[d]
              /\ (reserved[d] = 0 /\ reserved'[d] # 0) =>
                    /\ owner = [context |-> quotes[d][reserved'[d]].context, granted |-> TRUE]
                    /\ reserved'[d] = Len(quotes[d]) /\ rows[d] = "fresh"
  <1>0. /\ drafts \in [Drafts -> [source : Sources, quote : 0..MaxQuotes] \cup {NoDraft}]
        /\ reserved \in [Drafts -> 0..MaxQuotes]
    BY DEF DraftsInvariant, DraftsTyped, DraftsTypeOK
  <1> SUFFICES ASSUME NEW d \in Drafts
      PROVE /\ Exists(d) => drafts'[d].source = drafts[d].source
            /\ drafts[d].quote # 0 => drafts'[d] = drafts[d]
            /\ reserved[d] # 0 => reserved'[d] = reserved[d]
            /\ (reserved[d] = 0 /\ reserved'[d] # 0) =>
                  /\ owner = [context |-> quotes[d][reserved'[d]].context, granted |-> TRUE]
                  /\ reserved'[d] = Len(quotes[d]) /\ rows[d] = "fresh"
    OBVIOUS
  <1>1. CASE UNCHANGED <<drafts, reserved>>
    BY <1>1
  <1>2. ASSUME NEW k \in Calls, CopyOffer(k)
        PROVE  reserved' = reserved /\ (drafts'[d] = drafts[d] \/ ~Exists(d))
    <2>1. calls[k].draft \in Drafts /\ ~Exists(calls[k].draft)
      BY <1>2, CallFields DEF CopyOffer, RequestKnows
    <2> QED BY <1>0, <1>2, <2>1 DEF CopyOffer
  <1>3. ASSUME NEW k \in Calls, QuoteSaved(k)
        PROVE  /\ reserved' = reserved
               /\ drafts'[d] = drafts[d] \/
                     (drafts[d].quote = 0 /\ drafts'[d].source = drafts[d].source)
    <2> DEFINE e == calls[k].draft
    <2>1. e \in Drafts /\ Exists(e) /\ drafts[e].quote = 0
      BY <1>3, CallFields DEF QuoteSaved, RequestKnows
    <2>2. drafts[e] \in [source : Sources, quote : 0..MaxQuotes]
      BY <2>1, DraftFields
    <2>3. reserved' = reserved /\ drafts' = [drafts EXCEPT ![e].quote = calls[k].quote]
      BY <1>3 DEF QuoteSaved
    <2> HIDE DEF e
    <2>4. CASE d = e
      BY <1>0, <2>1, <2>2, <2>3, <2>4
    <2>5. CASE d # e
      BY <1>0, <2>1, <2>3, <2>5
    <2> QED BY <2>3, <2>4, <2>5
  <1>4. ASSUME NEW k \in Calls, BookDraft(k), reserved'[d] # reserved[d]
        PROVE  /\ drafts' = drafts /\ reserved[d] = 0
               /\ owner = [context |-> quotes[d][reserved'[d]].context, granted |-> TRUE]
               /\ reserved'[d] = Len(quotes[d]) /\ rows[d] = "fresh"
    <2>1. drafts' = drafts /\ calls[k].draft \in Drafts
      BY <1>4, BookStep
    <2>2. PICK e \in Drafts, v \in Nat :
             /\ v \in 1..Len(quotes[e])
             /\ reserved[e] = 0 /\ reserved' = [reserved EXCEPT ![e] = v]
             /\ v = Len(quotes[e]) /\ rows[e] = "fresh"
             /\ owner = [context |-> quotes[e][v].context, granted |-> TRUE]
      BY <1>4, <2>1, BookStep
    <2>3. d = e /\ reserved'[d] = v
      BY <1>0, <1>4, <2>2
    <2> QED BY <2>1, <2>2, <2>3
  <1>5. ASSUME NEW k \in Calls, BookDraft(k)
        PROVE  drafts' = drafts
    BY <1>5, BookStep, SMTT(60)
  <1>6. \/ UNCHANGED <<drafts, reserved>>
        \/ \E k \in Calls : CopyOffer(k) \/ QuoteSaved(k) \/ BookDraft(k)
    BY DEF DraftsNext, ChangeOwner, ExpireOffer, SweepLook, SweepDelete, ForgetMarker,
           ApiReprice, ApiAccept, Authorized, Dropped, OpenDraft, OpenQuote, QuotePriced,
           AcceptDraft, SubmitDraft
  <1> QED
    <2>1. ~Exists(d) => drafts[d].quote = 0
      BY DraftFields
    <2> QED BY <1>1, <1>2, <1>3, <1>4, <1>5, <1>6, <2>1

\* Whatever requests, sweeps and changes of owners come between the steps of a
\* portal request, a draft gets one price and one booking, the price of the
\* draft that is booked is the one it was accepted at, and it is booked as its
\* owner is priced when the booking is made.
THEOREM DraftBookedAsPriced == DraftsSpec => BookedAsPricedAlways
  <1>1. DraftsInit => DraftsInvariant
    BY InitDrafts
  <1>2. DraftsInvariant /\ [DraftsNext]_draftsVars => DraftsInvariant'
    BY DraftsInvariantStep
  <1>3. DraftsInvariant /\ [DraftsNext]_draftsVars => [BookedAsPriced]_draftsVars
    <2> SUFFICES ASSUME DraftsInvariant, DraftsNext PROVE BookedAsPriced
      OBVIOUS
    <2>1. DraftsInvariant'
      BY DraftsInvariantStep
    <2>2. DraftsTypeOK' /\ DraftsKept'
      BY <2>1 DEF DraftsInvariant, DraftsTyped
    <2> QED BY <2>2, BookedAtOnce DEF BookedAsPriced
  <1> QED BY <1>1, <1>2, <1>3, PTL DEF DraftsSpec, BookedAsPricedAlways

-----------------------------------------------------------------------------
(***************************************************************************)
(* IdentityPapers: a paper somebody read, or began an upload over, is the   *)
(* paper there is or an earlier version of it, so that whoever names the    *)
(* version there is has read the paper there is.                            *)
(***************************************************************************)

PaperKinds == {"application", "profile", "logo"}

Application == [version : Nat, documents : SUBSET Assets,
                status : {"none", "pending", "rejected", "accepted"}, reviewer : SUBSET Users]
Profile == [version : Nat, from : {"nobody", "edit", "application"}]
Logo == [version : Nat, asset : SUBSET Assets]
Paper == Application \cup Profile \cup Logo

Reading == [kind : PaperKinds, of : Users, identity : Nat, profile : Nat, paper : Paper]

Upload == [state : {"prepared", "uploading", "unknown", "ready", "abandoned"},
           by : Users, of : Users, kind : {"application", "logo"},
           expected : Nat, identity : Nat, over : Paper]

PapersTyped ==
    /\ PapersTypeOK
    /\ seen \in [Users -> Reading \cup {Unseen}]
    /\ assets \in [Assets -> Upload \cup {NoAsset}]

\* A paper somebody holds is the one there is, or an earlier version of it.
PaperKnown(p, kind, u) ==
    /\ p.version <= PaperOf(kind, u).version
    /\ p.version = PaperOf(kind, u).version => p = PaperOf(kind, u)

SubUsersStay == \A u \in Users : accounts[u].role = "b2b_sub" => RoleOf0[u] = "b2b_sub"

ReadingKnown(r) == seen[r] # Unseen => PaperKnown(seen[r].paper, seen[r].kind, seen[r].of)

UploadKnown(a) ==
    assets[a] # NoAsset =>
        /\ assets[a].over.version = assets[a].expected
        /\ PaperKnown(assets[a].over, assets[a].kind, assets[a].of)

PapersInvariant ==
    /\ PapersTyped /\ PapersHold /\ SubUsersStay
    /\ \A r \in Users : ReadingKnown(r)
    /\ \A a \in Assets : UploadKnown(a)

-----------------------------------------------------------------------------
AcceptedHolds(u) == applications[u].status = "accepted" => u \in agencies /\ accounts[u].role = "b2b"
DocumentsReady(u) == applications[u].documents \subseteq Attachments(u)
LogoReady(u) ==
    \A a \in logos[u].asset :
        assets[a].state = "ready" /\ assets[a].of = u /\ assets[a].kind = "logo"

\* A paper is the same after a step or a later version.
PapersMove ==
    \A kind \in PaperKinds, u \in Users :
        PaperOf(kind, u)' = PaperOf(kind, u) \/ PaperOf(kind, u).version < PaperOf(kind, u)'.version

\* What is ready stays so.
ReadyStays == \A a \in Assets : assets[a].state = "ready" => assets'[a] = assets[a]

LEMMA PaperTypes ==
    ASSUME PapersTypeOK, NEW kind \in PaperKinds, NEW u \in Users
    PROVE  /\ PaperOf(kind, u) \in Paper /\ PaperOf(kind, u).version \in Nat
           /\ \A p \in Paper : p.version \in Nat
  <1>1. \A p \in Paper : p.version \in Nat
    BY DEF Paper, Application, Profile, Logo
  <1>2. /\ applications[u] \in Application /\ profiles[u] \in Profile /\ logos[u] \in Logo
    BY DEF PapersTypeOK, Application, Profile, Logo
  <1>3. PaperOf(kind, u) \in Paper
    BY <1>2 DEF PaperOf, PaperKinds, Paper
  <1> QED BY <1>1, <1>3

LEMMA ReadingTypes ==
    ASSUME PapersInvariant, NEW r \in Users, seen[r].kind # "none"
    PROVE  /\ seen[r] # Unseen /\ seen[r] \in Reading
           /\ seen[r].kind \in PaperKinds /\ seen[r].of \in Users
           /\ seen[r].paper \in Paper /\ seen[r].identity \in Nat /\ seen[r].profile \in Nat
           /\ PaperKnown(seen[r].paper, seen[r].kind, seen[r].of)
  <1>1. seen[r] # Unseen /\ seen[r] \in Reading
    BY DEF PapersInvariant, PapersTyped, Unseen
  <1> QED BY <1>1 DEF Reading, PapersInvariant, ReadingKnown

LEMMA UploadTypes ==
    ASSUME PapersInvariant, NEW a \in Assets, assets[a].state # "none"
    PROVE  /\ assets[a] # NoAsset /\ assets[a] \in Upload
           /\ assets[a].by \in Users /\ assets[a].of \in Users
           /\ assets[a].kind \in {"application", "logo"} /\ assets[a].kind \in PaperKinds
           /\ assets[a].over \in Paper /\ assets[a].expected \in Nat
           /\ assets[a].over.version = assets[a].expected
           /\ PaperKnown(assets[a].over, assets[a].kind, assets[a].of)
  <1>1. assets[a] # NoAsset /\ assets[a] \in Upload
    BY DEF PapersInvariant, PapersTyped, NoAsset
  <1> QED BY <1>1 DEF Upload, PapersInvariant, UploadKnown, PaperKinds

LEMMA HolderIsUser ==
    ASSUME PapersInvariant, NEW u \in Users
    PROVE  Holder(u) \in Users
  <1>1. CASE accounts[u].role = "b2b_sub"
    <2>1. u \in {v \in Users : RoleOf0[v] = "b2b_sub"}
      BY <1>1 DEF PapersInvariant, SubUsersStay
    <2> QED BY <1>1, <2>1, PapersAssumption DEF Holder
  <1> QED BY <1>1 DEF Holder

\* Whoever expects the versions that are has read the papers that are.
LEMMA AsSeenIsRead ==
    ASSUME PapersInvariant, NEW r \in Users, NEW kind \in PaperKinds, NEW u \in Users,
           AsSeen(r, kind, u)
    PROVE  HasRead(r, kind, u)
  <1>1. seen[r].kind = kind /\ seen[r].of = u /\ seen[r].kind # "none"
    BY DEF AsSeen, PaperKinds
  <1>2. PaperKnown(seen[r].paper, seen[r].kind, seen[r].of)
    BY <1>1, ReadingTypes
  <1> QED BY <1>1, <1>2 DEF AsSeen, HasRead, PaperKnown

LEMMA KnownStays ==
    ASSUME PapersTypeOK, PapersTypeOK', PapersMove,
           NEW p \in Paper, NEW kind \in PaperKinds, NEW u \in Users, PaperKnown(p, kind, u)
    PROVE  PaperKnown(p, kind, u)'
  <1> DEFINE old == PaperOf(kind, u)
             new == PaperOf(kind, u)'
  <1>1. old.version \in Nat /\ p.version \in Nat
    BY PaperTypes
  <1>2. new.version \in Nat
    <2>1. (PaperOf(kind, u).version \in Nat)'
      BY PaperTypes, PTL
    <2> QED BY <2>1
  <1>3. new = old \/ old.version < new.version
    BY DEF PapersMove
  <1>4. p.version <= old.version /\ (p.version = old.version => p = old)
    BY DEF PaperKnown
  <1> HIDE DEF old, new
  <1>5. p.version <= new.version /\ (p.version = new.version => p = new)
    BY <1>1, <1>2, <1>3, <1>4
  <1> QED BY <1>5 DEF PaperKnown, new

LEMMA ReadingStays ==
    ASSUME PapersInvariant, PapersTypeOK', PapersMove, NEW r \in Users, seen'[r] = seen[r]
    PROVE  ReadingKnown(r)'
  <1>1. CASE seen[r] = Unseen
    BY <1>1 DEF ReadingKnown
  <1>2. CASE seen[r] # Unseen
    <2>1. PICK e \in Reading : e = seen[r]
      BY <1>2 DEF PapersInvariant, PapersTyped
    <2>2. PaperKnown(e.paper, e.kind, e.of)
      BY <1>2, <2>1 DEF PapersInvariant, ReadingKnown
    <2>3. PaperKnown(e.paper, e.kind, e.of)'
      BY <2>1, <2>2, KnownStays DEF PapersInvariant, PapersTyped, Reading
    <2> QED BY <2>1, <2>3 DEF ReadingKnown, PaperKnown, PaperOf
  <1> QED BY <1>1, <1>2

LEMMA UploadStays ==
    ASSUME PapersInvariant, PapersTypeOK', PapersMove, NEW a \in Assets,
           \/ assets'[a] = assets[a]
           \/ assets[a].state # "none" /\ \E state : assets'[a] = [assets[a] EXCEPT !.state = state]
    PROVE  UploadKnown(a)'
  <1>1. CASE assets[a].state = "none"
    <2>1. assets[a] = NoAsset /\ assets'[a] = NoAsset
      BY <1>1 DEF PapersInvariant, PapersTyped, Upload
    <2> QED BY <2>1 DEF UploadKnown
  <1>2. CASE assets[a].state # "none"
    <2>1. PICK e \in Upload : e = assets[a]
      BY <1>2, UploadTypes
    <2>2. /\ e.over.version = e.expected /\ PaperKnown(e.over, e.kind, e.of)
          /\ e.over \in Paper /\ e.kind \in PaperKinds /\ e.of \in Users
      BY <1>2, <2>1, UploadTypes
    <2>3. PaperKnown(e.over, e.kind, e.of)'
      BY <2>2, KnownStays DEF PapersInvariant, PapersTyped
    <2>4. /\ assets'[a].over = e.over /\ assets'[a].expected = e.expected
          /\ assets'[a].kind = e.kind /\ assets'[a].of = e.of
      BY <2>1 DEF Upload
    <2> QED BY <2>2, <2>3, <2>4 DEF UploadKnown, PaperKnown, PaperOf
  <1> QED BY <1>1, <1>2

LEMMA DocumentsStay ==
    ASSUME ReadyStays, NEW u \in Users, DocumentsReady(u),
           applications'[u].documents = applications[u].documents
    PROVE  DocumentsReady(u)'
  BY DEF DocumentsReady, ReadyStays, Attachments

LEMMA LogoStays ==
    ASSUME ReadyStays, NEW u \in Users, LogoReady(u), logos[u].asset \subseteq Assets,
           logos'[u].asset \subseteq logos[u].asset
    PROVE  LogoReady(u)'
  BY DEF LogoReady, ReadyStays

LEMMA HoldParts ==
    PapersHold <=> \A u \in Users : AcceptedHolds(u) /\ DocumentsReady(u) /\ LogoReady(u)
  BY DEF PapersHold, AcceptedHolds, DocumentsReady, LogoReady

\* The parts of the types.
LEMMA TypeParts ==
    PapersTypeOK <=>
        /\ accounts \in [Users -> [role : PaperRoles, status : PaperStatuses, version : Nat]]
        /\ agencies \subseteq Users
        /\ profiles \in [Users -> Profile] /\ applications \in [Users -> Application]
        /\ logos \in [Users -> Logo]
        /\ \A a \in Assets :
              \/ assets[a] = NoAsset
              \/ /\ assets[a].by \in Users /\ assets[a].of \in Users
                 /\ assets[a].state \in {"prepared", "uploading", "unknown", "ready", "abandoned"}
  BY DEF PapersTypeOK, Profile, Application, Logo

LEMMA AssetTypes ==
    ASSUME assets \in [Assets -> Upload \cup {NoAsset}]
    PROVE  \A a \in Assets :
              \/ assets[a] = NoAsset
              \/ /\ assets[a].by \in Users /\ assets[a].of \in Users
                 /\ assets[a].state \in {"prepared", "uploading", "unknown", "ready", "abandoned"}
  BY DEF Upload

\* A step that changes no upload.
LEMMA PapersQuiet ==
    ASSUME PapersInvariant, assets' = assets,
           accounts' \in [Users -> [role : PaperRoles, status : PaperStatuses, version : Nat]],
           agencies \subseteq agencies', agencies' \subseteq Users,
           profiles' \in [Users -> Profile], applications' \in [Users -> Application],
           logos' \in [Users -> Logo], seen' \in [Users -> Reading \cup {Unseen}],
           SubUsersStay', PapersMove, \A r \in Users : ReadingKnown(r)' \/ seen'[r] = seen[r],
           \A u \in Users :
              /\ AcceptedHolds(u)' /\ DocumentsReady(u)'
              /\ logos'[u].asset \subseteq logos[u].asset
    PROVE  PapersInvariant'
  <1>1. PapersTypeOK'
    <2>1. PapersTypeOK
      BY DEF PapersInvariant, PapersTyped
    <2> QED BY <2>1 DEF PapersTypeOK, Profile, Application, Logo
  <1>2. PapersTyped'
    BY <1>1 DEF PapersInvariant, PapersTyped
  <1>3. ASSUME NEW u \in Users
        PROVE  LogoReady(u)'
    <2>1. logos[u].asset \subseteq Assets
      BY DEF PapersInvariant, PapersTyped, PapersTypeOK
    <2>2. LogoReady(u)
      BY HoldParts DEF PapersInvariant
    <2> QED BY <2>1, <2>2, LogoStays DEF ReadyStays
  <1>4. PapersHold'
    BY <1>3 DEF PapersHold, AcceptedHolds, DocumentsReady, LogoReady
  <1>5. \A r \in Users : ReadingKnown(r)'
    BY <1>1, ReadingStays
  <1>6. \A a \in Assets : UploadKnown(a)'
    BY <1>1, UploadStays
  <1> QED BY <1>2, <1>4, <1>5, <1>6 DEF PapersInvariant

LEMMA InvariantParts ==
    ASSUME PapersInvariant
    PROVE  /\ accounts \in [Users -> [role : PaperRoles, status : PaperStatuses, version : Nat]]
           /\ agencies \subseteq Users
           /\ profiles \in [Users -> Profile] /\ applications \in [Users -> Application]
           /\ logos \in [Users -> Logo] /\ seen \in [Users -> Reading \cup {Unseen}]
           /\ assets \in [Assets -> Upload \cup {NoAsset}]
           /\ \A u \in Users : AcceptedHolds(u) /\ DocumentsReady(u) /\ LogoReady(u)
  BY HoldParts DEF PapersInvariant, PapersTyped, PapersTypeOK, Profile, Application, Logo

LEMMA LookStep ==
    ASSUME PapersInvariant, NEW r \in Users, NEW u \in Users, NEW kind \in PaperKinds,
           Look(r, kind, u)
    PROVE  PapersInvariant'
  <1>1. PICK h \in Users : seen' = [seen EXCEPT ![r] = Read(kind, h)]
    BY HolderIsUser DEF Look
  <1>2. PICK e : e = Read(kind, h)
    OBVIOUS
  <1>3. /\ e \in Reading /\ e.kind = kind /\ e.of = h /\ e.paper = PaperOf(kind, h)
        /\ e # Unseen
    <2>1. PaperOf(kind, h) \in Paper
      BY PaperTypes DEF PapersInvariant, PapersTyped
    <2>2. accounts[h].version \in Nat /\ profiles[h].version \in Nat
      BY InvariantParts DEF Profile
    <2> QED BY <1>2, <2>1, <2>2 DEF Read, Reading, Unseen, PaperKinds
  <1>4. /\ seen' \in [Users -> Reading \cup {Unseen}] /\ seen'[r] = e
        /\ \A q \in Users : q # r => seen'[q] = seen[q]
    BY <1>1, <1>2, <1>3, InvariantParts
  <1>5. UNCHANGED <<accounts, agencies, profiles, applications, logos, assets>>
    BY DEF Look, people, papers
  <1>6. PapersMove
    BY <1>5 DEF PapersMove, PaperOf, PaperKinds
  <1>7. ReadingKnown(r)'
    <2>1. PaperOf(kind, h)' = PaperOf(kind, h)
      BY <1>5 DEF PaperOf
    <2>2. PaperOf(kind, h).version \in Nat
      BY PaperTypes DEF PapersInvariant, PapersTyped
    <2>3. PaperKnown(e.paper, kind, h)'
      BY <1>3, <2>1, <2>2 DEF PaperKnown
    <2> QED BY <1>3, <1>4, <2>3 DEF ReadingKnown, PaperKnown, PaperOf
  <1>8. \A v \in Users : AcceptedHolds(v)' /\ DocumentsReady(v)'
    BY <1>5, InvariantParts DEF AcceptedHolds, DocumentsReady, Attachments
  <1>9. SubUsersStay'
    BY <1>5 DEF PapersInvariant, SubUsersStay
  <1> QED BY <1>4, <1>5, <1>6, <1>7, <1>8, <1>9, InvariantParts, PapersQuiet

LEMMA RuleStep ==
    ASSUME PapersInvariant, NEW u \in Users, NEW role \in PaperRoles,
           NEW status \in PaperStatuses, Rule(u, role, status)
    PROVE  PapersInvariant'
  <1>1. /\ UNCHANGED <<agencies, profiles, applications, logos, assets, seen>>
        /\ accounts' = [accounts EXCEPT ![u] =
              [role |-> role, status |-> status, version |-> @.version + 1]]
        /\ role # accounts[u].role => ~NeedsAgency(u) /\ role \in {"customer", "admin"}
    BY DEF Rule, papers
  <1>2. /\ accounts' \in [Users -> [role : PaperRoles, status : PaperStatuses, version : Nat]]
        /\ accounts'[u].role = role
        /\ \A v \in Users : v # u => accounts'[v] = accounts[v]
    BY <1>1, InvariantParts
  <1>3. \A v \in Users : accounts[v].role \in {"b2b", "b2b_sub"} \/ accounts'[v].role \in {"b2b", "b2b_sub"} =>
            accounts'[v].role = accounts[v].role
    BY <1>1, <1>2 DEF NeedsAgency
  <1>4. SubUsersStay'
    BY <1>3 DEF PapersInvariant, SubUsersStay
  <1>5. PapersMove
    BY <1>1 DEF PapersMove, PaperOf, PaperKinds
  <1>6. \A v \in Users : AcceptedHolds(v)' /\ DocumentsReady(v)'
    BY <1>1, <1>3, InvariantParts DEF AcceptedHolds, DocumentsReady, Attachments
  <1> QED BY <1>1, <1>2, <1>4, <1>5, <1>6, InvariantParts, PapersQuiet

LEMMA EditStep ==
    ASSUME PapersInvariant, NEW r \in Users, NEW u \in Users, EditProfile(r, u)
    PROVE  PapersInvariant'
  <1>1. /\ UNCHANGED <<accounts, agencies, applications, logos, assets, seen>>
        /\ profiles' = [profiles EXCEPT ![u] = [version |-> @.version + 1, from |-> "edit"]]
    BY DEF EditProfile, people
  <1>2. /\ profiles' \in [Users -> Profile]
        /\ profiles[u].version \in Nat /\ profiles'[u].version = profiles[u].version + 1
        /\ \A v \in Users : v # u => profiles'[v] = profiles[v]
    BY <1>1, InvariantParts DEF Profile
  <1>3. PapersMove
    BY <1>1, <1>2 DEF PapersMove, PaperOf, PaperKinds
  <1>4. \A v \in Users : AcceptedHolds(v)' /\ DocumentsReady(v)'
    BY <1>1, InvariantParts DEF AcceptedHolds, DocumentsReady, Attachments
  <1>5. SubUsersStay'
    BY <1>1 DEF PapersInvariant, SubUsersStay
  <1> QED BY <1>1, <1>2, <1>3, <1>4, <1>5, InvariantParts, PapersQuiet

LEMMA RemoveStep ==
    ASSUME PapersInvariant, NEW r \in Users, NEW u \in Users, RemoveLogo(r, u)
    PROVE  PapersInvariant'
  <1>1. PICK h \in Users :
           logos' = [logos EXCEPT ![h] = [version |-> @.version + 1, asset |-> {}]]
    BY HolderIsUser DEF RemoveLogo
  <1>2. UNCHANGED <<accounts, agencies, profiles, applications, assets, seen>>
    BY DEF RemoveLogo, people
  <1>3. /\ logos' \in [Users -> Logo]
        /\ logos[h].version \in Nat /\ logos'[h].version = logos[h].version + 1
        /\ logos'[h].asset = {}
        /\ \A v \in Users : v # h => logos'[v] = logos[v]
    BY <1>1, InvariantParts DEF Logo
  <1>4. PapersMove
    BY <1>2, <1>3 DEF PapersMove, PaperOf, PaperKinds
  <1>5. \A v \in Users : AcceptedHolds(v)' /\ DocumentsReady(v)'
                         /\ logos'[v].asset \subseteq logos[v].asset
    BY <1>2, <1>3, InvariantParts DEF AcceptedHolds, DocumentsReady, Attachments
  <1>6. SubUsersStay'
    BY <1>2 DEF PapersInvariant, SubUsersStay
  <1> QED BY <1>2, <1>3, <1>4, <1>5, <1>6, InvariantParts, PapersQuiet

\* Both decisions, and a submission, give the application its next version.
NextApplication(u) ==
    /\ applications' \in [Users -> Application]
    /\ applications'[u].version = applications[u].version + 1
    /\ \A v \in Users : v # u => applications'[v] = applications[v]

LEMMA SubmitStep ==
    ASSUME PapersInvariant, NEW u \in Users, NEW documents \in SUBSET Assets,
           Submit(u, documents)
    PROVE  PapersInvariant' /\ NextApplication(u) /\ applications'[u].status = "pending"
  <1> DEFINE n == [version |-> applications[u].version + 1, status |-> "pending",
                   documents |-> documents, reviewer |-> {}]
  <1>1. /\ UNCHANGED <<accounts, agencies, profiles, logos, assets, seen>>
        /\ applications' = [applications EXCEPT ![u] = n]
        /\ documents \subseteq Attachments(u)
    BY DEF Submit, people
  <1>2. applications[u].version \in Nat
    BY InvariantParts DEF Application
  <1>3. /\ n \in Application /\ n.version = applications[u].version + 1
        /\ n.status = "pending" /\ n.documents = documents
    BY <1>2 DEF Application
  <1> HIDE DEF n
  <1>4. NextApplication(u) /\ applications'[u] = n
    BY <1>1, <1>3, InvariantParts DEF NextApplication
  <1>5. PapersMove
    BY <1>1, <1>2, <1>4 DEF PapersMove, PaperOf, PaperKinds, NextApplication
  <1>6. \A v \in Users : AcceptedHolds(v)' /\ DocumentsReady(v)'
    BY <1>1, <1>3, <1>4, InvariantParts
       DEF AcceptedHolds, DocumentsReady, Attachments, NextApplication
  <1>7. SubUsersStay'
    BY <1>1 DEF PapersInvariant, SubUsersStay
  <1> QED BY <1>1, <1>3, <1>4, <1>5, <1>6, <1>7, InvariantParts, PapersQuiet
          DEF NextApplication

LEMMA DecisionStep ==
    ASSUME PapersInvariant, NEW r \in Users, NEW u \in Users,
           NEW decision \in {"rejected", "accepted"}, Decision(r, u, decision)
    PROVE  /\ NextApplication(u) /\ applications'[u].status = decision
           /\ applications'[u].reviewer = {r}
           /\ applications'[u].documents = applications[u].documents
  <1>1. applications[u] \in Application
    BY InvariantParts
  <1> DEFINE n == [applications[u] EXCEPT !.version = applications[u].version + 1,
                                          !.status = decision, !.reviewer = {r}]
  <1>2. applications' = [applications EXCEPT ![u] = n]
    BY InvariantParts DEF Decision
  <1>3. /\ n \in Application /\ n.version = applications[u].version + 1
        /\ n.status = decision /\ n.documents = applications[u].documents
        /\ n.reviewer = {r}
    <2>1. PICK p \in Application : p = applications[u]
      BY <1>1
    <2>2. p.version + 1 \in Nat /\ {r} \in SUBSET Users
      BY DEF Application
    <2>3. PICK v \in Nat, q \in SUBSET Users : v = p.version + 1 /\ q = {r}
      BY <2>2
    <2>4. n = [p EXCEPT !.version = v, !.status = decision, !.reviewer = q]
      BY <2>1, <2>3
    <2>5. [p EXCEPT !.version = v] \in Application
      BY DEF Application
    <2>6. [p EXCEPT !.version = v, !.status = decision] \in Application
      BY <2>5 DEF Application
    <2>7. n \in Application
      BY <2>4, <2>6 DEF Application
    <2>8. n.version = v /\ n.status = decision /\ n.documents = p.documents /\ n.reviewer = q
      BY <2>4 DEF Application
    <2> QED BY <2>1, <2>3, <2>7, <2>8
  <1> HIDE DEF n
  <1> QED BY <1>2, <1>3, InvariantParts DEF NextApplication

LEMMA RejectStep ==
    ASSUME PapersInvariant, NEW r \in Users, NEW u \in Users, RejectApplication(r, u)
    PROVE  PapersInvariant'
  <1>1. /\ UNCHANGED <<accounts, agencies, profiles, logos, assets, seen>>
        /\ Decision(r, u, "rejected")
    BY DEF RejectApplication, people
  <1>2. /\ NextApplication(u) /\ applications'[u].status = "rejected"
        /\ applications'[u].documents = applications[u].documents
        /\ applications[u].version \in Nat
    BY <1>1, DecisionStep, InvariantParts DEF Application
  <1>3. PapersMove
    BY <1>1, <1>2 DEF PapersMove, PaperOf, PaperKinds, NextApplication
  <1>4. \A v \in Users : AcceptedHolds(v)' /\ DocumentsReady(v)'
    BY <1>1, <1>2, InvariantParts
       DEF AcceptedHolds, DocumentsReady, Attachments, NextApplication
  <1>5. SubUsersStay'
    BY <1>1 DEF PapersInvariant, SubUsersStay
  <1> QED BY <1>1, <1>2, <1>3, <1>4, <1>5, InvariantParts, PapersQuiet DEF NextApplication

LEMMA AcceptStep ==
    ASSUME PapersInvariant, NEW r \in Users, NEW u \in Users, AcceptApplication(r, u)
    PROVE  PapersInvariant'
  <1>1. /\ UNCHANGED <<logos, assets, seen>> /\ Decision(r, u, "accepted")
        /\ accounts' = [accounts EXCEPT ![u] =
              [role |-> "b2b", status |-> "active", version |-> @.version + 2]]
        /\ agencies' = agencies \cup {u}
        /\ profiles' = [profiles EXCEPT ![u] = Transferred(@)]
    BY DEF AcceptApplication
  <1>2. /\ NextApplication(u)
        /\ applications'[u].documents = applications[u].documents
        /\ applications[u].version \in Nat
    BY <1>1, DecisionStep, InvariantParts DEF Application
  <1>3. /\ accounts' \in [Users -> [role : PaperRoles, status : PaperStatuses, version : Nat]]
        /\ accounts'[u].role = "b2b"
        /\ \A v \in Users : v # u => accounts'[v] = accounts[v]
    <2>1. accounts[u].version + 2 \in Nat
      BY InvariantParts
    <2>2. "b2b" \in PaperRoles /\ "active" \in PaperStatuses
      BY DEF PaperRoles, PaperStatuses
    <2> QED BY <1>1, <2>1, <2>2, InvariantParts
  <1>4. /\ profiles' \in [Users -> Profile]
        /\ profiles[u].version \in Nat /\ profiles'[u].version = profiles[u].version + 1
        /\ \A v \in Users : v # u => profiles'[v] = profiles[v]
    <2>1. profiles[u] \in Profile
      BY InvariantParts
    <2>2. /\ Transferred(profiles[u]) \in Profile
          /\ Transferred(profiles[u]).version = profiles[u].version + 1
          /\ profiles[u].version \in Nat
      BY <2>1 DEF Transferred, Profile
    <2> QED BY <1>1, <2>2, InvariantParts
  <1>5. PapersMove
    <2>1. \A v \in Users :
             /\ applications'[v] = applications[v] \/ applications[v].version < applications'[v].version
             /\ profiles'[v] = profiles[v] \/ profiles[v].version < profiles'[v].version
      BY <1>2, <1>4 DEF NextApplication
    <2> QED BY <1>1, <2>1 DEF PapersMove, PaperOf, PaperKinds
  <1>6. \A v \in Users : AcceptedHolds(v)'
    <2>1. ASSUME NEW v \in Users, v # u
          PROVE  AcceptedHolds(v)'
      BY <1>1, <1>2, <1>3, <2>1, InvariantParts DEF AcceptedHolds, NextApplication
    <2>2. AcceptedHolds(u)'
      BY <1>1, <1>3 DEF AcceptedHolds
    <2> QED BY <2>1, <2>2
  <1>7. \A v \in Users : DocumentsReady(v)'
    BY <1>1, <1>2, InvariantParts, SMTT(60) DEF DocumentsReady, Attachments, NextApplication
  <1>8. SubUsersStay'
    BY <1>3 DEF PapersInvariant, SubUsersStay
  <1>9. agencies \subseteq agencies' /\ agencies' \subseteq Users
    BY <1>1, InvariantParts
  <1> QED BY <1>1, <1>2, <1>3, <1>4, <1>5, <1>6, <1>7, <1>8, <1>9, InvariantParts, PapersQuiet
          DEF NextApplication

\* A step that changes uploads, and perhaps a logo.
LEMMA UploadsMove ==
    ASSUME PapersInvariant, UNCHANGED <<accounts, agencies, profiles, applications, seen>>,
           assets' \in [Assets -> Upload \cup {NoAsset}], logos' \in [Users -> Logo],
           PapersMove, ReadyStays,
           \A a \in Assets :
              \/ assets'[a] = assets[a]
              \/ assets[a].state # "none" /\ \E state : assets'[a] = [assets[a] EXCEPT !.state = state]
              \/ PapersTypeOK' => UploadKnown(a)',
           \A u \in Users : logos'[u] = logos[u] \/ LogoReady(u)'
    PROVE  PapersInvariant'
  <1>1. PapersTypeOK'
    <2>1. PapersTypeOK
      BY DEF PapersInvariant, PapersTyped
    <2>2. \A a \in Assets :
              \/ assets'[a] = NoAsset
              \/ /\ assets'[a].by \in Users /\ assets'[a].of \in Users
                 /\ assets'[a].state \in {"prepared", "uploading", "unknown", "ready", "abandoned"}
      BY DEF Upload
    <2> QED BY <2>1, <2>2 DEF PapersTypeOK, Profile, Application, Logo
  <1>2. PapersTyped'
    BY <1>1 DEF PapersInvariant, PapersTyped
  <1>3. ASSUME NEW u \in Users
        PROVE  AcceptedHolds(u)' /\ DocumentsReady(u)' /\ LogoReady(u)'
    <2>1. AcceptedHolds(u) /\ DocumentsReady(u) /\ LogoReady(u) /\ logos[u].asset \subseteq Assets
      BY InvariantParts DEF Logo
    <2>2. DocumentsReady(u)'
      BY <2>1, DocumentsStay
    <2>3. LogoReady(u)'
      BY <2>1, LogoStays
    <2> QED BY <2>1, <2>2, <2>3 DEF AcceptedHolds
  <1>4. PapersHold'
    BY <1>3 DEF PapersHold, AcceptedHolds, DocumentsReady, LogoReady
  <1>5. \A r \in Users : ReadingKnown(r)'
    BY <1>1, ReadingStays
  <1>6. \A a \in Assets : UploadKnown(a)'
    BY <1>1, UploadStays
  <1>7. SubUsersStay'
    BY DEF PapersInvariant, SubUsersStay
  <1> QED BY <1>2, <1>4, <1>5, <1>6, <1>7 DEF PapersInvariant

LEMMA PrepareStep ==
    ASSUME PapersInvariant, NEW r \in Users, NEW u \in Users,
           NEW kind \in {"application", "logo"}, NEW a \in Assets, PrepareAsset(r, kind, u, a)
    PROVE  PapersInvariant'
  <1>1. PICK h \in Users :
           /\ AsSeen(r, kind, h)
           /\ assets' = [assets EXCEPT ![a] =
                 [state |-> "prepared", by |-> r, of |-> h, kind |-> kind,
                  expected |-> PaperOf(kind, h).version,
                  identity |-> accounts[h].version, over |-> seen[r].paper]]
    BY HolderIsUser DEF PrepareAsset
  <1>2. UNCHANGED <<accounts, agencies, profiles, applications, logos, seen>>
        /\ assets[a] = NoAsset
    BY DEF PrepareAsset, people, papers
  <1>3. kind \in PaperKinds /\ HasRead(r, kind, h)
    BY <1>1, AsSeenIsRead DEF PaperKinds
  <1>4. /\ seen[r].paper = PaperOf(kind, h) /\ PaperOf(kind, h) \in Paper
        /\ PaperOf(kind, h).version \in Nat /\ accounts[h].version \in Nat
    BY <1>3, PaperTypes, InvariantParts DEF HasRead, PapersInvariant, PapersTyped
  <1> DEFINE n == [state |-> "prepared", by |-> r, of |-> h, kind |-> kind,
                   expected |-> PaperOf(kind, h).version,
                   identity |-> accounts[h].version, over |-> seen[r].paper]
  <1>5. /\ n \in Upload /\ n # NoAsset /\ n.over = PaperOf(kind, h)
        /\ n.expected = PaperOf(kind, h).version /\ n.kind = kind /\ n.of = h
    BY <1>4 DEF Upload, NoAsset
  <1> HIDE DEF n
  <1>6. /\ assets' \in [Assets -> Upload \cup {NoAsset}] /\ assets'[a] = n
        /\ \A b \in Assets : b # a => assets'[b] = assets[b]
    BY <1>1, <1>5, InvariantParts DEF n
  <1>7. PapersMove
    BY <1>2 DEF PapersMove, PaperOf, PaperKinds
  <1>8. ReadyStays
    BY <1>2, <1>6 DEF ReadyStays, NoAsset
  <1>9. UploadKnown(a)'
    <2>1. PaperOf(kind, h)' = PaperOf(kind, h)
      BY <1>2 DEF PaperOf
    <2>2. PaperKnown(PaperOf(kind, h), kind, h)
      BY <1>4 DEF PaperKnown
    <2>3. PICK p : p = PaperOf(kind, h)
      OBVIOUS
    <2>4. PaperKnown(p, kind, h)'
      BY <1>4, <2>1, <2>3 DEF PaperKnown
    <2> QED BY <1>5, <1>6, <2>3, <2>4 DEF UploadKnown, PaperKnown, PaperOf
  <1> QED BY <1>2, <1>6, <1>7, <1>8, <1>9, InvariantParts, UploadsMove

LEMMA UploadTurn ==
    ASSUME PapersInvariant, NEW a \in Assets, assets[a].state \notin {"none", "ready"},
           NEW state \in {"uploading", "unknown", "ready", "abandoned"},
           assets' = [assets EXCEPT ![a].state = state]
    PROVE  /\ assets' \in [Assets -> Upload \cup {NoAsset}]
           /\ assets'[a] = [assets[a] EXCEPT !.state = state]
           /\ assets'[a].state = state /\ assets'[a].of = assets[a].of
           /\ assets'[a].kind = assets[a].kind
           /\ \A b \in Assets : b # a => assets'[b] = assets[b]
           /\ ReadyStays
  <1>1. assets[a] \in Upload
    BY UploadTypes
  <1> DEFINE n == [assets[a] EXCEPT !.state = state]
  <1>2. n \in Upload /\ n.state = state /\ n.of = assets[a].of /\ n.kind = assets[a].kind
    BY <1>1 DEF Upload
  <1>3. assets' = [assets EXCEPT ![a] = n]
    OBVIOUS
  <1> HIDE DEF n
  <1>4. /\ assets' \in [Assets -> Upload \cup {NoAsset}] /\ assets'[a] = n
        /\ \A b \in Assets : b # a => assets'[b] = assets[b]
    BY <1>2, <1>3, InvariantParts
  <1> QED BY <1>2, <1>4 DEF ReadyStays, n

LEMMA UploadSteps ==
    ASSUME PapersInvariant, NEW a \in Assets,
           StartUpload(a) \/ \E o \in {"unknown", "abandoned"} : FinishOther(a, o)
    PROVE  PapersInvariant'
  <1>1. PICK state \in {"uploading", "unknown", "abandoned"} :
           /\ assets[a].state \in {"prepared", "uploading", "unknown"}
           /\ assets' = [assets EXCEPT ![a].state = state]
           /\ UNCHANGED <<accounts, agencies, profiles, applications, logos, seen>>
    BY DEF StartUpload, FinishOther, people, papers
  <1>2. /\ assets' \in [Assets -> Upload \cup {NoAsset}]
        /\ assets'[a] = [assets[a] EXCEPT !.state = state]
        /\ \A b \in Assets : b # a => assets'[b] = assets[b]
        /\ ReadyStays
    BY <1>1, UploadTurn
  <1>3. PapersMove
    BY <1>1 DEF PapersMove, PaperOf, PaperKinds
  <1> QED BY <1>1, <1>2, <1>3, InvariantParts, UploadsMove

LEMMA ReadyStep ==
    ASSUME PapersInvariant, NEW a \in Assets, FinishReady(a)
    PROVE  PapersInvariant'
  <1>1. /\ UNCHANGED <<accounts, agencies, profiles, applications, seen>>
        /\ assets[a].state \in {"uploading", "unknown"}
        /\ assets' = [assets EXCEPT ![a].state = "ready"]
        /\ logos' = IF assets[a].kind = "logo"
                    THEN [logos EXCEPT ![assets[a].of] =
                             [version |-> @.version + 1, asset |-> {a}]]
                    ELSE logos
    BY DEF FinishReady, people
  <1>2. /\ assets' \in [Assets -> Upload \cup {NoAsset}]
        /\ assets'[a] = [assets[a] EXCEPT !.state = "ready"]
        /\ assets'[a].state = "ready" /\ assets'[a].of = assets[a].of
        /\ assets'[a].kind = assets[a].kind
        /\ \A b \in Assets : b # a => assets'[b] = assets[b]
        /\ ReadyStays
    BY <1>1, UploadTurn
  <1>3. PICK h \in Users : h = assets[a].of
    BY <1>1, UploadTypes
  <1>4. CASE assets[a].kind = "logo"
    <2>1. /\ logos' \in [Users -> Logo] /\ logos'[h].asset = {a}
          /\ logos[h].version \in Nat /\ logos'[h].version = logos[h].version + 1
          /\ \A u \in Users : u # h => logos'[u] = logos[u]
      BY <1>1, <1>3, <1>4, InvariantParts DEF Logo
    <2>2. LogoReady(h)'
      BY <1>2, <1>3, <1>4, <2>1 DEF LogoReady
    <2>3. PapersMove
      BY <1>1, <2>1 DEF PapersMove, PaperOf, PaperKinds
    <2>4. \A u \in Users : logos'[u] = logos[u] \/ LogoReady(u)'
      BY <2>1, <2>2 DEF LogoReady
    <2> QED BY <1>1, <1>2, <2>1, <2>3, <2>4, UploadsMove
  <1>5. CASE assets[a].kind # "logo"
    <2>1. PapersMove
      BY <1>1, <1>5 DEF PapersMove, PaperOf, PaperKinds
    <2> QED BY <1>1, <1>2, <1>5, <2>1, InvariantParts, UploadsMove
  <1> QED BY <1>4, <1>5

LEMMA InitPapers == PapersInit => PapersInvariant
  <1> SUFFICES ASSUME PapersInit PROVE PapersInvariant
    OBVIOUS
  <1>1. /\ accounts \in [Users -> [role : PaperRoles, status : PaperStatuses, version : Nat]]
        /\ \A u \in Users : accounts[u].role = RoleOf0[u]
    BY PapersAssumption DEF PapersInit, PaperStatuses
  <1>2. agencies \subseteq Users /\ profiles \in [Users -> Profile]
    BY DEF PapersInit, Profile
  <1>3. /\ applications \in [Users -> Application]
        /\ \A u \in Users : applications[u].status = "none" /\ applications[u].documents = {}
    BY DEF PapersInit, Application
  <1>4. logos \in [Users -> Logo] /\ \A u \in Users : logos[u].asset = {}
    BY DEF PapersInit, Logo
  <1>5. /\ \A a \in Assets : assets[a] = NoAsset
        /\ assets \in [Assets -> Upload \cup {NoAsset}]
        /\ \A r \in Users : seen[r] = Unseen
        /\ seen \in [Users -> Reading \cup {Unseen}]
    BY DEF PapersInit
  <1>6. PapersTypeOK
    BY <1>1, <1>2, <1>3, <1>4, <1>5 DEF PapersTypeOK, Profile, Application, Logo
  <1>7. PapersHold
    BY <1>3, <1>4 DEF PapersHold
  <1> QED BY <1>1, <1>5, <1>6, <1>7
          DEF PapersInvariant, PapersTyped, SubUsersStay, ReadingKnown, UploadKnown

\* The actions, by what they change.
LEMMA PapersCases ==
    ASSUME PapersNext
    PROVE  \/ \E r, u \in Users, kind \in PaperKinds : Look(r, kind, u)
           \/ \E r, u \in Users : EditProfile(r, u)
           \/ \E r, u \in Users, kind \in {"application", "logo"}, a \in Assets :
                 PrepareAsset(r, kind, u, a)
           \/ \E r, u \in Users : RemoveLogo(r, u)
           \/ \E r, u \in Users : RejectApplication(r, u)
           \/ \E r, u \in Users : AcceptApplication(r, u)
           \/ \E u \in Users, documents \in SUBSET Assets : Submit(u, documents)
           \/ \E u \in Users, role \in PaperRoles, status \in PaperStatuses :
                 Rule(u, role, status)
           \/ \E a \in Assets : FinishReady(a)
           \/ \E a \in Assets :
                 StartUpload(a) \/ \E o \in {"unknown", "abandoned"} : FinishOther(a, o)
  BY DEF PapersNext, PaperKinds

LEMMA PapersInvariantStep == PapersInvariant /\ [PapersNext]_papersVars => PapersInvariant'
  <1> SUFFICES ASSUME PapersInvariant, [PapersNext]_papersVars PROVE PapersInvariant'
    OBVIOUS
  <1>1. CASE UNCHANGED papersVars
    <2>1. UNCHANGED <<accounts, agencies, profiles, applications, logos, assets, seen>>
      BY <1>1 DEF papersVars, people, papers
    <2>2. PapersMove /\ ReadyStays
      BY <2>1 DEF PapersMove, PaperOf, PaperKinds, ReadyStays
    <2> QED BY <2>1, <2>2, InvariantParts, UploadsMove
  <1>2. CASE PapersNext
    BY <1>2, PapersCases, LookStep, EditStep, PrepareStep, RemoveStep, RejectStep, AcceptStep,
       SubmitStep, RuleStep, ReadyStep, UploadSteps
  <1> QED BY <1>1, <1>2

-----------------------------------------------------------------------------
\* Who changes an application.
LEMMA ApplicationChanges ==
    ASSUME PapersInvariant, PapersNext, NEW u \in Users, applications'[u] # applications[u]
    PROVE  \/ \E documents \in SUBSET Assets : Submit(u, documents)
           \/ \E r \in Users : RejectApplication(r, u) \/ AcceptApplication(r, u)
  <1>1. ASSUME NEW v \in Users, v # u, NextApplication(v)
        PROVE  FALSE
    BY <1>1 DEF NextApplication
  <1>2. ASSUME NEW v \in Users, v # u, NEW documents \in SUBSET Assets, Submit(v, documents)
        PROVE  FALSE
    BY <1>1, <1>2, SubmitStep
  <1>3. ASSUME NEW v \in Users, v # u, NEW r \in Users,
               RejectApplication(r, v) \/ AcceptApplication(r, v)
        PROVE  FALSE
    <2>1. \E decision \in {"rejected", "accepted"} : Decision(r, v, decision)
      BY <1>3 DEF RejectApplication, AcceptApplication
    <2> QED BY <1>1, <1>3, <2>1, DecisionStep
  <1>4. \/ applications' = applications
        \/ \E v \in Users, documents \in SUBSET Assets : Submit(v, documents)
        \/ \E v, r \in Users : RejectApplication(r, v) \/ AcceptApplication(r, v)
    BY PapersCases, ZenonT(90) DEF Look, EditProfile, PrepareAsset, RemoveLogo, Rule, FinishReady,
                       StartUpload, FinishOther, papers
  <1> QED BY <1>2, <1>3, <1>4

\* A decision is made on an application as its reviewer read it.
LEMMA DecidedOnRead ==
    ASSUME PapersInvariant, NEW r \in Users, NEW u \in Users,
           RejectApplication(r, u) \/ AcceptApplication(r, u)
    PROVE  /\ r \in Users \ {u} /\ applications[u].status = "pending"
           /\ applications'[u].reviewer = {r} /\ Administers(r)
           /\ HasRead(r, "application", u) /\ seen[r].profile = profiles[u].version
           /\ applications'[u].documents = applications[u].documents
           /\ applications'[u] # applications[u]
  <1>1. Reviewable(r, u) /\ \E decision \in {"rejected", "accepted"} : Decision(r, u, decision)
    BY DEF RejectApplication, AcceptApplication
  <1>2. /\ applications'[u].reviewer = {r}
        /\ applications'[u].documents = applications[u].documents
        /\ applications'[u].version = applications[u].version + 1
    BY <1>1, DecisionStep DEF NextApplication
  <1>3. applications[u].version \in Nat
    BY InvariantParts DEF Application
  <1>4. HasRead(r, "application", u)
    BY <1>1, AsSeenIsRead DEF Reviewable, PaperKinds
  <1> QED BY <1>1, <1>2, <1>3, <1>4 DEF Reviewable

LEMMA DecidedStep ==
    ASSUME PapersInvariant, PapersNext
    PROVE  DecidedAsRead /\ AcceptedStays
  <1>1. ASSUME NEW u \in Users, applications[u].status = "pending",
               applications'[u] # applications[u]
        PROVE  \E r \in Users \ {u} :
                  /\ applications'[u].reviewer = {r} /\ Administers(r)
                  /\ HasRead(r, "application", u) /\ seen[r].profile = profiles[u].version
                  /\ applications'[u].documents = applications[u].documents
    <2>1. \A documents \in SUBSET Assets : ~Submit(u, documents)
      BY <1>1 DEF Submit, Open
    <2> QED BY <1>1, <2>1, ApplicationChanges, DecidedOnRead
  <1>2. ASSUME NEW u \in Users, applications[u].status = "accepted"
        PROVE  applications'[u] = applications[u]
    <2>1. \A documents \in SUBSET Assets : ~Submit(u, documents)
      BY <1>2 DEF Submit, Open
    <2>2. \A r \in Users : ~(RejectApplication(r, u) \/ AcceptApplication(r, u))
      BY <1>2, DecidedOnRead
    <2> QED BY <2>1, <2>2, ApplicationChanges
  <1> QED BY <1>1, <1>2 DEF DecidedAsRead, AcceptedStays

LEMMA PublishedStep ==
    ASSUME PapersInvariant, PapersNext
    PROVE  PublishedAsPrepared
  <1> SUFFICES ASSUME NEW a \in Assets, assets[a] # NoAsset, assets[a].state # "ready",
                      assets'[a].state = "ready"
               PROVE  /\ PaperOf(assets[a].kind, assets[a].of) = assets[a].over
                      /\ accounts[assets[a].of].version = assets[a].identity
                      /\ IF assets[a].kind = "logo" THEN Administers(assets[a].by)
                                                    ELSE assets[a].by = assets[a].of
    BY DEF PublishedAsPrepared
  <1>0. assets \in [Assets -> Upload \cup {NoAsset}]
    BY InvariantParts
  <1>1. FinishReady(a)
    <2>1. ASSUME NEW r, NEW u, NEW kind, NEW b \in Assets, PrepareAsset(r, kind, u, b)
          PROVE  FALSE
      <3>1. PICK n : assets' = [assets EXCEPT ![b] = n] /\ n.state = "prepared"
        BY <2>1 DEF PrepareAsset
      <3>2. b = a => assets'[a] = n
        BY <1>0, <3>1
      <3>3. b # a => assets'[a] = assets[a]
        BY <1>0, <3>1
      <3> QED BY <3>1, <3>2, <3>3
    <2>2. ASSUME NEW b \in Assets,
                 StartUpload(b) \/ \E o \in {"unknown", "abandoned"} : FinishOther(b, o)
          PROVE  FALSE
      <3>1. PICK state \in {"uploading", "unknown", "abandoned"} :
               /\ assets[b].state \in {"prepared", "uploading", "unknown"}
               /\ assets' = [assets EXCEPT ![b].state = state]
        BY <2>2 DEF StartUpload, FinishOther
      <3>2. assets'[b].state = state /\ \A c \in Assets : c # b => assets'[c] = assets[c]
        BY <3>1, UploadTurn
      <3> QED BY <3>1, <3>2
    <2>3. ASSUME NEW b \in Assets, FinishReady(b)
          PROVE  b = a
      <3>1. /\ assets[b].state \in {"uploading", "unknown"}
            /\ assets' = [assets EXCEPT ![b].state = "ready"]
        BY <2>3 DEF FinishReady
      <3>2. \A c \in Assets : c # b => assets'[c] = assets[c]
        BY <3>1, UploadTurn
      <3> QED BY <3>2
    <2>4. \/ assets' = assets \/ \E b \in Assets : FinishReady(b)
          \/ \E r, u \in Users, kind \in {"application", "logo"}, b \in Assets :
                PrepareAsset(r, kind, u, b)
          \/ \E b \in Assets :
                StartUpload(b) \/ \E o \in {"unknown", "abandoned"} : FinishOther(b, o)
      BY PapersCases DEF Look, EditProfile, RemoveLogo, RejectApplication, AcceptApplication,
                         Submit, Rule
    <2> QED BY <2>1, <2>2, <2>3, <2>4
  <1>2. InScopeOf(a) /\ Current(a) /\ assets[a].state # "none"
    BY <1>1 DEF FinishReady
  <1>3. /\ assets[a].kind \in {"application", "logo"}
        /\ assets[a].over.version = assets[a].expected
        /\ PaperKnown(assets[a].over, assets[a].kind, assets[a].of)
    BY <1>2, UploadTypes
  <1> QED BY <1>2, <1>3 DEF Current, PaperKnown, InScopeOf, MayWrite, MayRead

LEMMA ChangedReadStep ==
    ASSUME PapersInvariant, PapersNext
    PROVE  ChangedAsRead
  <1>1. ASSUME NEW u \in Users, logos'[u] # logos[u], logos'[u].asset = {}
        PROVE  \E r \in Users : Administers(r) /\ HasRead(r, "logo", u)
    <2>1. logos \in [Users -> Logo]
      BY InvariantParts
    <2>2. ASSUME NEW a \in Assets, FinishReady(a)
          PROVE  FALSE
      <3>1. \/ logos' = logos
            \/ /\ assets[a].state # "none"
               /\ logos' = [logos EXCEPT ![assets[a].of] =
                               [version |-> @.version + 1, asset |-> {a}]]
        BY <2>2 DEF FinishReady
      <3>2. assets[a].state # "none" => assets[a].of \in Users
        BY UploadTypes
      <3> QED BY <1>1, <2>1, <3>1, <3>2
    <2>3. ASSUME NEW r \in Users, NEW v \in Users, RemoveLogo(r, v)
          PROVE  Administers(r) /\ HasRead(r, "logo", u)
      <3>1. /\ MayRead(r, "logo", v) /\ AsSeen(r, "logo", Holder(v))
            /\ logos' = [logos EXCEPT ![Holder(v)] = [version |-> @.version + 1, asset |-> {}]]
        BY <2>3 DEF RemoveLogo, MayWrite
      <3>2. Holder(v) \in Users
        BY HolderIsUser
      <3>3. u = Holder(v)
        BY <1>1, <2>1, <3>1, <3>2
      <3>4. HasRead(r, "logo", Holder(v))
        BY <3>1, <3>2, AsSeenIsRead DEF PaperKinds
      <3> QED BY <3>1, <3>3, <3>4 DEF MayRead
    <2>4. \/ logos' = logos \/ \E a \in Assets : FinishReady(a)
          \/ \E r, v \in Users : RemoveLogo(r, v)
      BY PapersCases, ZenonT(90) DEF Look, EditProfile, PrepareAsset, RejectApplication, AcceptApplication,
                         Submit, Rule, StartUpload, FinishOther, papers
    <2> QED BY <1>1, <2>2, <2>3, <2>4
  <1>2. ASSUME NEW u \in Users, profiles'[u] # profiles[u], applications'[u] = applications[u]
        PROVE  \E r \in Users : (r = u \/ Administers(r)) /\ HasRead(r, "profile", u)
    <2>1. profiles \in [Users -> Profile]
      BY InvariantParts
    <2>2. ASSUME NEW r \in Users, NEW v \in Users, EditProfile(r, v)
          PROVE  (r = u \/ Administers(r)) /\ HasRead(r, "profile", u)
      <3>1. v = u
        BY <1>2, <2>1, <2>2 DEF EditProfile
      <3>2. HasRead(r, "profile", v)
        BY <2>2, AsSeenIsRead DEF EditProfile, PaperKinds
      <3> QED BY <2>2, <3>1, <3>2 DEF EditProfile, MayWrite, MayRead
    <2>3. ASSUME NEW r \in Users, NEW v \in Users, AcceptApplication(r, v)
          PROVE  FALSE
      <3>1. v = u
        BY <1>2, <2>1, <2>3 DEF AcceptApplication
      <3> QED BY <1>2, <2>3, <3>1, DecidedOnRead
    <2>4. \/ profiles' = profiles \/ \E r, v \in Users : EditProfile(r, v) \/ AcceptApplication(r, v)
      BY PapersCases, ZenonT(90) DEF Look, PrepareAsset, RemoveLogo, RejectApplication, FinishReady,
                         Submit, Rule, StartUpload, FinishOther, papers
    <2> QED BY <1>2, <2>2, <2>3, <2>4
  <1> QED BY <1>1, <1>2 DEF ChangedAsRead

LEMMA EditedStep ==
    ASSUME PapersInvariant, PapersNext
    PROVE  EditedStays
  <1> SUFFICES ASSUME NEW u \in Users, profiles[u].from = "edit"
               PROVE  profiles'[u].from = "edit"
    BY DEF EditedStays
  <1>1. profiles \in [Users -> Profile]
    BY InvariantParts
  <1>2. ASSUME NEW r \in Users, NEW v \in Users, EditProfile(r, v)
        PROVE  profiles'[u].from = "edit"
    BY <1>1, <1>2 DEF EditProfile
  <1>3. ASSUME NEW r \in Users, NEW v \in Users, AcceptApplication(r, v)
        PROVE  profiles'[u].from = "edit"
    BY <1>1, <1>3 DEF AcceptApplication, Transferred
  <1>4. \/ profiles' = profiles \/ \E r, v \in Users : EditProfile(r, v) \/ AcceptApplication(r, v)
    BY PapersCases, ZenonT(90) DEF Look, PrepareAsset, RemoveLogo, RejectApplication, FinishReady,
                       Submit, Rule, StartUpload, FinishOther, papers
  <1> QED BY <1>2, <1>3, <1>4

\* Whatever readers, uploads and decisions come between, an application is
\* decided as its reviewer read it, an upload is published over the paper it was
\* prepared for, a paper is changed by somebody who read it as it is, what
\* somebody edited stays edited, and an accepted application stays as it was.
THEOREM PapersStayInOrder == PapersSpec => PapersInOrderAlways
  <1>1. PapersInit => PapersInvariant
    BY InitPapers
  <1>2. PapersInvariant /\ [PapersNext]_papersVars => PapersInvariant'
    BY PapersInvariantStep
  <1>3. PapersInvariant => PapersTypeOK /\ PapersHold
    BY DEF PapersInvariant, PapersTyped
  <1>4. PapersInvariant /\ [PapersNext]_papersVars
            => [DecidedAsRead /\ PublishedAsPrepared /\ ChangedAsRead
                /\ EditedStays /\ AcceptedStays]_papersVars
    BY DecidedStep, PublishedStep, ChangedReadStep, EditedStep
  <1> QED BY <1>1, <1>2, <1>3, <1>4, PTL DEF PapersSpec, PapersInOrderAlways

-----------------------------------------------------------------------------
(***************************************************************************)
(* SearchAdmission: every permit of a router is free or held by a search of *)
(* it, every hit of a day is a dispatch that was charged, and what an open  *)
(* claim read and locked is still so when it writes.                        *)
(***************************************************************************)

Phases == {"new", "started", "queued", "working", "answering", "over"}
Codes == {"none", "disabled", "user limit", "supplier limit"}
Claim == [supplier : Suppliers, day : Days, code : Codes]

\* The searches of a router that are in some of the phases.
Held(ph, W, r) == {s \in {t \in Searches : RouterOf[t] = r} : ph[s] \in W}

Queueing == {"queued", "working", "answering"}

AdmissionTyped ==
    /\ AdmissionTypeOK
    /\ asked \in [Searches -> 0..Len(Connections)]
    /\ claiming \in [Searches -> Claim \cup {NoClaim}]
    /\ today \in Days
    /\ control \in [Actors -> [enabled : BOOLEAN, limit : SUBSET Nat, version : Nat]]
    /\ budget \in [Suppliers -> [limit : SUBSET Nat, version : Nat]]

\* An open claim is about the next supplier, by a search at work.
ClaimNext(s) ==
    claiming[s] # NoClaim =>
        /\ phase[s] = "working" /\ asked[s] < Len(Connections)
        /\ claiming[s].supplier = Connections[asked[s] + 1]

NotAskedYet(s) ==
    \A i \in DOMAIN Connections : asked[s] < i => usage[s][Connections[i]] = "none"

\* Of two open claims neither waits for what the other has locked.
ClaimsApart ==
    \A s, t \in Searches :
        claiming[s] # NoClaim /\ claiming[t] # NoClaim
            /\ (ActorOf[s] = ActorOf[t] \/ claiming[s].supplier = claiming[t].supplier)
            => s = t

\* What a claim read that allows a dispatch is still so.
ClaimAllowed(s) ==
    claiming[s] # NoClaim /\ claiming[s].code = "none" =>
        /\ control[ActorOf[s]].enabled
        /\ Within(hits[claiming[s].day][ActorOf[s]], control[ActorOf[s]].limit)
        /\ Within(hits[claiming[s].day][claiming[s].supplier],
                  budget[claiming[s].supplier].limit)

\* The three parts of Conserved.
PlacesKept ==
    \A r \in Routers :
        /\ free[r].active + Cardinality(Held(phase, Working, r)) = MaxActive
        /\ free[r].total + Cardinality(Held(phase, Queueing, r)) = MaxActive + MaxQueued

HitsKept ==
    \A k \in Keys : MapThenSumSet(LAMBDA d : hits[d][k], Days) = Cardinality(ChargedTo(k))

ChecksKept ==
    /\ \A p, q \in pricing : ClientOf[p] = ClientOf[q] => p = q
    /\ ACTIVE = {ClientOf[p] : p \in pricing}

\* The dispatches a key was charged for, and the hits it has.
Charges(u, k) ==
    {sc \in Searches \X Suppliers :
        /\ u[sc[1]][sc[2]] \in {"pending", "success", "failed"}
        /\ k \in {ActorOf[sc[1]], sc[2]}}

HitsOf(h, k) == SumOf([d \in Days |-> h[d][k]])

Counted(h, u) == \A k \in Keys : HitsOf(h, k) = Cardinality(Charges(u, k))

AdmissionInvariant ==
    /\ AdmissionTyped /\ ClaimsApart
    /\ PlacesKept /\ Counted(hits, usage) /\ ChecksKept
    /\ \A s \in Searches : ClaimNext(s) /\ NotAskedYet(s) /\ ClaimAllowed(s)

-----------------------------------------------------------------------------
(* Places *)

LEMMA ConservedParts == Conserved <=> PlacesKept /\ HitsKept /\ ChecksKept
  <1>1. ASSUME NEW r
        PROVE  {s \in {t \in Searches : RouterOf[t] = r} :
                   phase[s] = "queued" \/ phase[s] \in Working} = Held(phase, Queueing, r)
    BY DEF Held, Queueing, Working
  <1>2. ASSUME NEW r \in Routers
        PROVE  (LET here == {s \in Searches : RouterOf[s] = r} IN
                /\ free[r].active + Cardinality({s \in here : phase[s] \in Working}) = MaxActive
                /\ free[r].total + Cardinality({s \in here : phase[s] = "queued" \/ phase[s] \in Working})
                      = MaxActive + MaxQueued)
               <=> /\ free[r].active + Cardinality(Held(phase, Working, r)) = MaxActive
                   /\ free[r].total + Cardinality(Held(phase, Queueing, r)) = MaxActive + MaxQueued
    BY <1>1 DEF Held
  <1> QED BY <1>2 DEF Conserved, PlacesKept, HitsKept, ChecksKept

LEMMA HeldFinite ==
    \A ph, W, r : IsFiniteSet(Held(ph, W, r)) /\ Cardinality(Held(ph, W, r)) \in Nat
  <1> SUFFICES ASSUME NEW ph, NEW W, NEW r
               PROVE  IsFiniteSet(Held(ph, W, r)) /\ Cardinality(Held(ph, W, r)) \in Nat
    OBVIOUS
  <1>1. Held(ph, W, r) \subseteq Searches
    BY DEF Held
  <1> QED BY <1>1, AdmissionAssumption, FS_Subset, FS_CardinalityType

\* A search that moves is counted in where it goes and out where it was.
LEMMA HeldMoves ==
    ASSUME NEW ph, NEW new, NEW s \in Searches, \A t \in Searches \ {s} : new[t] = ph[t],
           NEW W, NEW r
    PROVE  /\ r # RouterOf[s] => Held(new, W, r) = Held(ph, W, r)
           /\ (ph[s] \in W <=> new[s] \in W) => Held(new, W, r) = Held(ph, W, r)
           /\ r = RouterOf[s] /\ ph[s] \notin W /\ new[s] \in W =>
                 Cardinality(Held(new, W, r)) = Cardinality(Held(ph, W, r)) + 1
           /\ r = RouterOf[s] /\ ph[s] \in W /\ new[s] \notin W =>
                 Cardinality(Held(new, W, r)) = Cardinality(Held(ph, W, r)) - 1
  <1>1. r # RouterOf[s] => Held(new, W, r) = Held(ph, W, r)
    BY DEF Held
  <1>2. (ph[s] \in W <=> new[s] \in W) => Held(new, W, r) = Held(ph, W, r)
    BY DEF Held
  <1>3. ASSUME r = RouterOf[s], ph[s] \notin W, new[s] \in W
        PROVE  Cardinality(Held(new, W, r)) = Cardinality(Held(ph, W, r)) + 1
    <2>1. Held(new, W, r) = Held(ph, W, r) \cup {s} /\ s \notin Held(ph, W, r)
      BY <1>3 DEF Held
    <2> QED BY <2>1, HeldFinite, FS_AddElement
  <1>4. ASSUME r = RouterOf[s], ph[s] \in W, new[s] \notin W
        PROVE  Cardinality(Held(new, W, r)) = Cardinality(Held(ph, W, r)) - 1
    <2>1. Held(new, W, r) = Held(ph, W, r) \ {s} /\ s \in Held(ph, W, r)
      BY <1>4, SMTT(60) DEF Held
    <2> QED BY <2>1, HeldFinite, FS_RemoveElement
  <1> QED BY <1>1, <1>2, <1>3, <1>4

\* A search is given a permit that is free, and gives back the one it has.
LEMMA StepPlaces ==
    ASSUME AdmissionTypeOK, PlacesKept, NEW s \in Searches, NEW to \in Phases, Step(s, to),
           to \in Queueing => phase[s] \in Queueing \/ free[RouterOf[s]].total > 0,
           to \in Working => phase[s] \in Working \/ free[RouterOf[s]].active > 0
    PROVE  /\ PlacesKept' /\ phase' \in [Searches -> Phases]
           /\ free' \in [Routers -> [active : 0..MaxActive, total : 0..(MaxActive + MaxQueued)]]
  <1> DEFINE r0 == RouterOf[s]
             from == phase[s]
             R == [active : 0..MaxActive, total : 0..(MaxActive + MaxQueued)]
  <1>1. /\ phase \in [Searches -> Phases] /\ free \in [Routers -> R]
        /\ r0 \in Routers /\ from \in Phases
        /\ MaxActive \in Nat /\ MaxQueued \in Nat
    BY AdmissionAssumption DEF AdmissionTypeOK, Phases, Routers
  <1>2. /\ phase' = [phase EXCEPT ![s] = to]
        /\ free' = [free EXCEPT
              ![r0].active = @ + Places(from).active - Places(to).active,
              ![r0].total = @ + Places(from).total - Places(to).total]
    BY DEF Step, Moved
  <1>0. ASSUME NEW W, NEW r
        PROVE  /\ r # r0 => Held(phase', W, r) = Held(phase, W, r)
               /\ (from \in W <=> to \in W) => Held(phase', W, r) = Held(phase, W, r)
               /\ r = r0 /\ from \notin W /\ to \in W =>
                     Cardinality(Held(phase', W, r)) = Cardinality(Held(phase, W, r)) + 1
               /\ r = r0 /\ from \in W /\ to \notin W =>
                     Cardinality(Held(phase', W, r)) = Cardinality(Held(phase, W, r)) - 1
    <2>1. phase \in [Searches -> Phases] /\ phase' = [phase EXCEPT ![s] = to]
      BY <1>1, <1>2
    <2>2. phase'[s] = to /\ \A t \in Searches \ {s} : phase'[t] = phase[t]
      BY <2>1
    <2> QED BY <2>2, HeldMoves, SMTT(60)
  <1>3. PICK act \in Int : act = free[r0].active + Places(from).active - Places(to).active
    BY <1>1 DEF Places
  <1>4. PICK tot \in Int : tot = free[r0].total + Places(from).total - Places(to).total
    BY <1>1 DEF Places
  <1>5. free' = [free EXCEPT ![r0] = [active |-> act, total |-> tot]]
    <2>1. PICK f : f = [free EXCEPT ![r0].active = act]
      OBVIOUS
    <2>2. /\ f \in [Routers -> [active : Int, total : 0..(MaxActive + MaxQueued)]]
          /\ f[r0].active = act /\ f[r0].total = free[r0].total
          /\ \A r \in Routers \ {r0} : f[r] = free[r]
      BY <1>1, <2>1
    <2>3. free' = [f EXCEPT ![r0].total = tot]
      BY <1>1, <1>2, <1>3, <1>4, <2>1, <2>2
    <2>4. free' = [r \in Routers |-> IF r = r0 THEN [f[r0] EXCEPT !.total = tot] ELSE free[r]]
      BY <2>2, <2>3
    <2>5. [f[r0] EXCEPT !.total = tot] = [active |-> act, total |-> tot]
      BY <1>1, <2>2
    <2> QED BY <1>1, <2>4, <2>5
  <1>6. act + Cardinality(Held(phase', Working, r0)) = MaxActive
    <2>1. free[r0].active + Cardinality(Held(phase, Working, r0)) = MaxActive
      BY <1>1 DEF PlacesKept
    <2>2. Cardinality(Held(phase, Working, r0)) \in Nat /\ free[r0].active \in Nat
      BY <1>1, HeldFinite
    <2>3. CASE from \in Working <=> to \in Working
      <3>1. Held(phase', Working, r0) = Held(phase, Working, r0) /\ act = free[r0].active
        BY <1>0, <1>3, <2>2, <2>3 DEF Places
      <3> QED BY <2>1, <3>1
    <2>4. CASE from \notin Working /\ to \in Working
      <3>1. Cardinality(Held(phase', Working, r0)) = Cardinality(Held(phase, Working, r0)) + 1
        BY <1>0, <2>4
      <3>2. act = free[r0].active - 1
        BY <1>3, <2>2, <2>4 DEF Places
      <3> QED BY <2>1, <2>2, <3>1, <3>2
    <2>5. CASE from \in Working /\ to \notin Working
      <3>1. Cardinality(Held(phase', Working, r0)) = Cardinality(Held(phase, Working, r0)) - 1
        BY <1>0, <2>5
      <3>2. act = free[r0].active + 1
        BY <1>3, <2>2, <2>5 DEF Places
      <3> QED BY <2>1, <2>2, <3>1, <3>2
    <2> QED BY <2>3, <2>4, <2>5
  <1>7. tot + Cardinality(Held(phase', Queueing, r0)) = MaxActive + MaxQueued
    <2>1. free[r0].total + Cardinality(Held(phase, Queueing, r0)) = MaxActive + MaxQueued
      BY <1>1 DEF PlacesKept
    <2>2. Cardinality(Held(phase, Queueing, r0)) \in Nat /\ free[r0].total \in Nat
      BY <1>1, HeldFinite
    <2>0. \A ph : Places(ph).total = IF ph \in Queueing THEN 1 ELSE 0
      BY DEF Places, Queueing, Working
    <2>3. CASE from \in Queueing <=> to \in Queueing
      <3>1. Held(phase', Queueing, r0) = Held(phase, Queueing, r0) /\ tot = free[r0].total
        BY <1>0, <1>4, <2>0, <2>2, <2>3
      <3> QED BY <2>1, <3>1
    <2>4. CASE from \notin Queueing /\ to \in Queueing
      <3>1. Cardinality(Held(phase', Queueing, r0)) = Cardinality(Held(phase, Queueing, r0)) + 1
        BY <1>0, <2>4
      <3>2. tot = free[r0].total - 1
        BY <1>4, <2>0, <2>2, <2>4
      <3> QED BY <2>1, <2>2, <3>1, <3>2
    <2>5. CASE from \in Queueing /\ to \notin Queueing
      <3>1. Cardinality(Held(phase', Queueing, r0)) = Cardinality(Held(phase, Queueing, r0)) - 1
        BY <1>0, <2>5
      <3>2. tot = free[r0].total + 1
        BY <1>4, <2>0, <2>2, <2>5
      <3> QED BY <2>1, <2>2, <3>1, <3>2
    <2> QED BY <2>3, <2>4, <2>5
  <1>8. act \in 0..MaxActive /\ tot \in 0..(MaxActive + MaxQueued)
    <2>1. act >= 0
      <3>1. CASE to \in Working /\ from \notin Working
        BY <1>1, <1>3, <3>1 DEF Places
      <3>2. CASE ~(to \in Working /\ from \notin Working)
        BY <1>1, <1>3, <3>2 DEF Places
      <3> QED BY <3>1, <3>2
    <2>2. tot >= 0
      <3>0. \A ph : Places(ph).total = IF ph \in Queueing THEN 1 ELSE 0
        BY DEF Places, Queueing, Working
      <3>1. CASE to \in Queueing /\ from \notin Queueing
        BY <1>1, <1>4, <3>0, <3>1
      <3>2. CASE ~(to \in Queueing /\ from \notin Queueing)
        BY <1>1, <1>4, <3>0, <3>2
      <3> QED BY <3>1, <3>2
    <2>3. Cardinality(Held(phase', Working, r0)) \in Nat /\ Cardinality(Held(phase', Queueing, r0)) \in Nat
      BY HeldFinite
    <2> QED BY <1>1, <1>6, <1>7, <2>1, <2>2, <2>3
  <1>9. free' \in [Routers -> R]
    BY <1>1, <1>5, <1>8
  <1>10. PlacesKept'
    <2> SUFFICES ASSUME NEW r \in Routers
                 PROVE  /\ free'[r].active + Cardinality(Held(phase', Working, r)) = MaxActive
                        /\ free'[r].total + Cardinality(Held(phase', Queueing, r)) = MaxActive + MaxQueued
      BY DEF PlacesKept
    <2>1. CASE r = r0
      <3>1. free'[r].active = act /\ free'[r].total = tot
        BY <1>1, <1>5, <2>1
      <3> QED BY <1>6, <1>7, <2>1, <3>1
    <2>2. CASE r # r0
      <3>1. free'[r] = free[r]
        BY <1>1, <1>5, <2>2
      <3>2. Held(phase', Working, r) = Held(phase, Working, r) /\ Held(phase', Queueing, r) = Held(phase, Queueing, r)
        BY <1>0, <2>2
      <3> QED BY <3>1, <3>2 DEF PlacesKept
    <2> QED BY <2>1, <2>2
  <1> QED BY <1>1, <1>2, <1>9, <1>10

-----------------------------------------------------------------------------
(* Hits *)

LEMMA HitsSum ==
    ASSUME NEW h, NEW k
    PROVE  MapThenSumSet(LAMBDA d : h[d][k], Days) = HitsOf(h, k)
  <1> DEFINE f == [d \in Days |-> h[d][k]]
             Fits(g) == g = [s \in SUBSET Days |->
                                IF s = {} THEN 0 ELSE h[OneOf(s)][k] + g[s \ {OneOf(s)}]]
             G == Iterated(f, Days)
             H == CHOOSE g : Fits(g)
  <1>1. SumOf(f) = G[Days] /\ G = [s \in SUBSET Days |-> FoldStep(f, G, s)]
    BY SumIterated, IteratedExists, AdmissionAssumption, ZenonT(90)
  <1>2. MapThenSumSet(LAMBDA d : h[d][k], Days) = H[Days]
    BY DEF MapThenSumSet, MapThenFoldSet, OneOf
  <1>3. ASSUME NEW g
        PROVE  [s \in SUBSET Days |->
                    IF s = {} THEN 0 ELSE h[OneOf(s)][k] + g[s \ {OneOf(s)}]]
               = [s \in SUBSET Days |-> FoldStep(f, g, s)]
    <2>1. ASSUME NEW s \in SUBSET Days, s # {}
          PROVE  f[OneOf(s)] = h[OneOf(s)][k]
      BY <2>1 DEF OneOf
    <2> HIDE DEF f
    <2> QED BY <2>1 DEF FoldStep
  <1> HIDE DEF f, G
  <1>4. Fits(G)
    BY <1>1, <1>3
  <1>5. Fits(H)
    <2> HIDE DEF Fits
    <2> QED BY <1>4
  <1> HIDE DEF H
  <1>6. H = [s \in SUBSET Days |-> FoldStep(f, H, s)]
    BY <1>3, <1>5
  <1>7. Iterates(G, f, Days) /\ Iterates(H, f, Days)
    BY <1>1, <1>6 DEF Iterates
  <1>8. G[Days] = H[Days]
    BY <1>7, IteratedOnce, AdmissionAssumption
  <1> QED BY <1>1, <1>2, <1>8 DEF f, HitsOf

LEMMA HitsKeptCounted == HitsKept <=> Counted(hits, usage)
  BY HitsSum DEF HitsKept, ChargedTo, Counted, Charges

LEMMA DaysFinite == IsFiniteSet(Days)
  BY AdmissionAssumption

LEMMA DayChanges ==
    ASSUME NEW f \in [Days -> Int], NEW g \in [Days -> Int],
           NEW day \in Days, \A d \in Days \ {day} : g[d] = f[d]
    PROVE  SumOf(g) = SumOf(f) - f[day] + g[day] /\ SumOf(f) \in Int
  BY SumChanges, DaysFinite

LEMMA ChargesFinite == \A u, k : IsFiniteSet(Charges(u, k)) /\ Cardinality(Charges(u, k)) \in Nat
  <1>1. IsFiniteSet(Suppliers)
    <2>1. DOMAIN Connections = 1..Len(Connections) /\ Len(Connections) \in Nat
      BY AdmissionAssumption, LenProperties
    <2>2. IsFiniteSet(DOMAIN Connections)
      BY <2>1, FS_Interval
    <2>3. Connections \in Surjection(DOMAIN Connections, Suppliers)
      BY <2>1, AdmissionAssumption DEF Surjection, Suppliers
    <2> QED BY <2>2, <2>3, FS_Surjection
  <1>2. IsFiniteSet(Searches \X Suppliers)
    BY <1>1, AdmissionAssumption, FS_Product
  <1>3. \A u, k : Charges(u, k) \subseteq Searches \X Suppliers
    BY DEF Charges
  <1> QED BY <1>2, <1>3, FS_Subset, FS_CardinalityType

\* A dispatch is one charge and one hit of its actor and of its supplier, and
\* nobody else's; a refusal changes neither.
LEMMA DispatchCounted ==
    ASSUME hits \in [Days -> [Keys -> Nat]],
           NEW s \in Searches, NEW c \in Suppliers, NEW day \in Days, NEW n \in {0, 1},
           usage[s][c] = "none",
           usage'[s][c] = (IF n = 1 THEN "pending" ELSE "blocked"),
           \A t \in Searches, e \in Suppliers : <<t, e>> # <<s, c>> => usage'[t][e] = usage[t][e],
           hits' = [hits EXCEPT ![day] =
                       [k \in Keys |-> hits[day][k] + (IF k \in {ActorOf[s], c} THEN n ELSE 0)]],
           Counted(hits, usage)
    PROVE  Counted(hits', usage')
  <1> SUFFICES ASSUME NEW k \in Keys
               PROVE  HitsOf(hits', k) = Cardinality(Charges(usage', k))
    BY DEF Counted
  <1> DEFINE m == IF k \in {ActorOf[s], c} THEN n ELSE 0
  <1>1. m \in {0, 1}
    OBVIOUS
  <1>2. HitsOf(hits', k) = HitsOf(hits, k) + m /\ HitsOf(hits, k) \in Int
    <2>1. PICK f : f = [d \in Days |-> hits[d][k]]
      OBVIOUS
    <2>2. PICK g : g = [d \in Days |-> hits'[d][k]]
      OBVIOUS
    <2>3. f[day] \in Int /\ g[day] = f[day] + m
      BY <2>1, <2>2
    <2>4. SumOf(g) = SumOf(f) - f[day] + g[day] /\ SumOf(f) \in Int
      <3>1. f \in [Days -> Int] /\ g \in [Days -> Int]
        BY <2>1, <2>2
      <3>2. \A d \in Days \ {day} : g[d] = f[d]
        BY <2>1, <2>2
      <3> QED BY <3>1, <3>2, DayChanges
    <2>5. HitsOf(hits, k) = SumOf(f) /\ HitsOf(hits', k) = SumOf(g)
      BY <2>1, <2>2 DEF HitsOf
    <2> QED BY <1>1, <2>3, <2>4, <2>5
  <1>3. CASE m = 0
    <2>1. Charges(usage', k) = Charges(usage, k)
      <3>1. ASSUME NEW t \in Searches, NEW e \in Suppliers, k \in {ActorOf[t], e}
            PROVE  usage'[t][e] \in {"pending", "success", "failed"}
                     <=> usage[t][e] \in {"pending", "success", "failed"}
        BY <1>3, <3>1
      <3> QED BY <3>1 DEF Charges
    <2> QED BY <1>2, <1>3, <2>1 DEF Counted
  <1>4. CASE m = 1
    <2>1. Charges(usage', k) = Charges(usage, k) \cup {<<s, c>>} /\ <<s, c>> \notin Charges(usage, k)
      <3>1. n = 1 /\ k \in {ActorOf[s], c}
        BY <1>4
      <3>2. <<s, c>> \notin Charges(usage, k) /\ <<s, c>> \in Charges(usage', k)
        BY <3>1 DEF Charges
      <3>3. ASSUME NEW t \in Searches, NEW e \in Suppliers, <<t, e>> # <<s, c>>
            PROVE  usage'[t][e] = usage[t][e]
        BY <3>3
      <3>4. \A x \in Searches \X Suppliers : x # <<s, c>> =>
                (x \in Charges(usage', k) <=> x \in Charges(usage, k))
        BY <3>3 DEF Charges
      <3>5. Charges(usage', k) \subseteq Searches \X Suppliers
            /\ Charges(usage, k) \subseteq Searches \X Suppliers
        BY DEF Charges
      <3> QED BY <3>2, <3>4, <3>5
    <2>2. Cardinality(Charges(usage', k)) = Cardinality(Charges(usage, k)) + 1
      BY <2>1, ChargesFinite, FS_AddElement, ZenonT(90)
    <2> QED BY <1>2, <1>4, <2>2 DEF Counted
  <1> QED BY <1>1, <1>3, <1>4

-----------------------------------------------------------------------------
(* The invariant *)

Permits == [active : 0..MaxActive, total : 0..(MaxActive + MaxQueued)]
Usages == {"none", "pending", "success", "failed", "blocked"}

LEMMA AdmissionParts ==
    ASSUME AdmissionInvariant
    PROVE  /\ phase \in [Searches -> Phases] /\ asked \in [Searches -> 0..Len(Connections)]
           /\ outcome \in [Searches -> {"none", "pending", "success", "failed", "blocked"}]
           /\ usage \in [Searches -> [Suppliers -> Usages]]
           /\ claiming \in [Searches -> Claim \cup {NoClaim}]
           /\ hits \in [Days -> [Keys -> Nat]] /\ free \in [Routers -> Permits]
           /\ pricing \subseteq Prices /\ today \in Days
           /\ control \in [Actors -> [enabled : BOOLEAN, limit : SUBSET Nat, version : Nat]]
           /\ budget \in [Suppliers -> [limit : SUBSET Nat, version : Nat]]
           /\ AdmissionTypeOK /\ PlacesKept /\ Counted(hits, usage) /\ ChecksKept /\ ClaimsApart
           /\ \A s \in Searches : ClaimNext(s) /\ NotAskedYet(s) /\ ClaimAllowed(s)
  BY DEF AdmissionInvariant, AdmissionTyped, AdmissionTypeOK, Phases, Usages, Permits

LEMMA AdmissionFrom ==
    ASSUME phase' \in [Searches -> Phases], asked' \in [Searches -> 0..Len(Connections)],
           outcome' \in [Searches -> {"none", "pending", "success", "failed", "blocked"}],
           usage' \in [Searches -> [Suppliers -> Usages]],
           claiming' \in [Searches -> Claim \cup {NoClaim}],
           hits' \in [Days -> [Keys -> Nat]], free' \in [Routers -> Permits],
           pricing' \subseteq Prices, today' \in Days,
           control' \in [Actors -> [enabled : BOOLEAN, limit : SUBSET Nat, version : Nat]],
           budget' \in [Suppliers -> [limit : SUBSET Nat, version : Nat]],
           PlacesKept', Counted(hits', usage'), ChecksKept', ClaimsApart',
           \A s \in Searches : ClaimNext(s)' /\ NotAskedYet(s)' /\ ClaimAllowed(s)'
    PROVE  AdmissionInvariant'
  BY DEF AdmissionInvariant, AdmissionTyped, AdmissionTypeOK, Phases, Usages, Permits

LEMMA Distinct ==
    /\ \A s \in Searches : ActorOf[s] \in Actors /\ ActorOf[s] \in Keys /\ RouterOf[s] \in Routers
    /\ \A c \in Suppliers : c \in Keys /\ c \notin Actors
    /\ DOMAIN Connections = 1..Len(Connections) /\ Len(Connections) \in Nat
    /\ \A i \in DOMAIN Connections : Connections[i] \in Suppliers
    /\ \A d \in Days : d # 0 /\ d \in Nat
  BY AdmissionAssumption, LenProperties DEF Actors, Keys, Routers, Suppliers

\* A search that moves without a claim keeps what others have.
LEMMA PhaseStep ==
    ASSUME AdmissionInvariant, NEW s \in Searches, NEW to \in Phases, Step(s, to),
           to \in Queueing => phase[s] \in Queueing \/ free[RouterOf[s]].total > 0,
           to \in Working => phase[s] \in Working \/ free[RouterOf[s]].active > 0,
           outcome' \in [Searches -> {"none", "pending", "success", "failed", "blocked"}],
           claiming' = [claiming EXCEPT ![s] = NoClaim],
           UNCHANGED <<asked, usage, dayVars, controls, pricing, ACTIVE>>
    PROVE  AdmissionInvariant'
  <1>1. PlacesKept' /\ phase' \in [Searches -> Phases] /\ free' \in [Routers -> Permits]
    BY AdmissionParts, StepPlaces DEF Permits
  <1>2. /\ asked' = asked /\ usage' = usage /\ hits' = hits /\ today' = today
        /\ control' = control /\ budget' = budget /\ pricing' = pricing /\ ACTIVE' = ACTIVE
    BY DEF dayVars, controls
  <1>3. /\ claiming' \in [Searches -> Claim \cup {NoClaim}] /\ claiming'[s] = NoClaim
        /\ \A t \in Searches \ {s} : claiming'[t] = claiming[t] /\ phase'[t] = phase[t]
    BY AdmissionParts DEF Step
  <1>4. ClaimsApart'
    <2>1. \A t \in Searches : claiming'[t] # NoClaim => claiming'[t] = claiming[t]
      BY <1>3
    <2> QED BY <2>1, AdmissionParts DEF ClaimsApart
  <1>5. ChecksKept'
    BY <1>2, AdmissionParts DEF ChecksKept
  <1>6. ASSUME NEW t \in Searches
        PROVE  ClaimNext(t)' /\ NotAskedYet(t)' /\ ClaimAllowed(t)'
    <2>1. NotAskedYet(t)'
      BY <1>2, AdmissionParts DEF NotAskedYet
    <2>2. CASE t = s
      BY <1>3, <2>1, <2>2 DEF ClaimNext, ClaimAllowed
    <2>3. CASE t # s
      BY <1>2, <1>3, <2>1, <2>3, AdmissionParts DEF ClaimNext, ClaimAllowed
    <2> QED BY <2>2, <2>3
  <1> QED BY <1>1, <1>2, <1>3, <1>4, <1>5, <1>6, AdmissionParts, AdmissionFrom

LEMMA IdleClaim ==
    ASSUME AdmissionInvariant, NEW s \in Searches, claiming' = claiming,
           phase[s] # "working" \/ claiming[s] = NoClaim
    PROVE  claiming' = [claiming EXCEPT ![s] = NoClaim]
  <1>1. claiming[s] = NoClaim
    BY AdmissionParts DEF ClaimNext
  <1> QED BY <1>1, AdmissionParts

LEMMA PhaseSteps ==
    ASSUME AdmissionInvariant, NEW s \in Searches,
           \/ Start(s) \/ Arrive(s) \/ Refuse(s) \/ Admitted(s) \/ WaitedTooLong(s)
           \/ Answer(s) \/ NoAnswer(s) \/ Fail(s) \/ Cancelled(s) \/ BodyEnds(s)
    PROVE  AdmissionInvariant'
  <1>0. outcome \in [Searches -> {"none", "pending", "success", "failed", "blocked"}]
    BY AdmissionParts
  <1>1. CASE Start(s)
    <2>1. claiming' = [claiming EXCEPT ![s] = NoClaim]
      BY <1>1, IdleClaim DEF Start
    <2>2. Step(s, "started") /\ "started" \in Phases /\ "started" \notin Queueing /\ "started" \notin Working
      BY <1>1 DEF Start, Phases, Queueing, Working
    <2> QED BY <1>0, <1>1, <2>1, <2>2, PhaseStep DEF Start, Finished
  <1>2. CASE Arrive(s)
    <2>1. claiming' = [claiming EXCEPT ![s] = NoClaim]
      BY <1>2, IdleClaim DEF Arrive
    <2>2. Step(s, "queued") /\ "queued" \in Phases /\ "queued" \notin Working /\ free[RouterOf[s]].total > 0
      BY <1>2 DEF Arrive, Phases, Working
    <2> QED BY <1>0, <1>2, <2>1, <2>2, PhaseStep DEF Arrive
  <1>3. CASE Admitted(s)
    <2>1. claiming' = [claiming EXCEPT ![s] = NoClaim]
      BY <1>3, IdleClaim DEF Admitted
    <2>2. /\ Step(s, "working") /\ "working" \in Phases
          /\ phase[s] \in Queueing /\ free[RouterOf[s]].active > 0
      BY <1>3 DEF Admitted, Phases, Queueing
    <2> QED BY <1>0, <1>3, <2>1, <2>2, PhaseStep DEF Admitted
  <1>4. CASE Answer(s)
    <2>1. claiming' = [claiming EXCEPT ![s] = NoClaim]
      BY <1>4, IdleClaim DEF Answer, Gathered
    <2>2. /\ Step(s, "answering") /\ "answering" \in Phases
          /\ phase[s] \in Queueing /\ phase[s] \in Working
      BY <1>4 DEF Answer, Gathered, Phases, Queueing, Working
    <2> QED BY <1>0, <1>4, <2>1, <2>2, PhaseStep DEF Answer, Finished
  <1>5. ASSUME Step(s, "over"), claiming' = [claiming EXCEPT ![s] = NoClaim],
               outcome' = outcome \/ \E result \in {"blocked", "failed"} : Finished(s, result),
               UNCHANGED <<asked, usage, dayVars, controls, pricing, ACTIVE>>
        PROVE  AdmissionInvariant'
    <2>1. "over" \in Phases /\ "over" \notin Queueing /\ "over" \notin Working
      BY DEF Phases, Queueing, Working
    <2>2. outcome' \in [Searches -> {"none", "pending", "success", "failed", "blocked"}]
      BY <1>0, <1>5 DEF Finished
    <2> QED BY <1>5, <2>1, <2>2, PhaseStep
  <1>6. CASE Fail(s) \/ Cancelled(s)
    BY <1>5, <1>6 DEF Fail, Cancelled
  <1>7. CASE Refuse(s) \/ WaitedTooLong(s) \/ BodyEnds(s)
    <2>1. claiming' = [claiming EXCEPT ![s] = NoClaim]
      BY <1>7, IdleClaim DEF Refuse, WaitedTooLong, BodyEnds
    <2> QED BY <1>5, <1>7, <2>1 DEF Refuse, WaitedTooLong, BodyEnds
  <1>8. CASE NoAnswer(s)
    <2>1. claiming' = [claiming EXCEPT ![s] = NoClaim]
      BY <1>8, IdleClaim DEF NoAnswer, Gathered
    <2> QED BY <1>5, <1>8, <2>1 DEF NoAnswer
  <1> QED BY <1>1, <1>2, <1>3, <1>4, <1>6, <1>7, <1>8

LEMMA ReadStep ==
    ASSUME AdmissionInvariant, NEW s \in Searches, ReadBudget(s)
    PROVE  AdmissionInvariant'
  <1> DEFINE c == Connections[asked[s] + 1]
             new == [supplier |-> c, day |-> today, code |-> RefusalCode(s, c)]
  <1>0. /\ phase' = phase /\ asked' = asked /\ usage' = usage /\ hits' = hits /\ today' = today
        /\ control' = control /\ budget' = budget /\ pricing' = pricing /\ ACTIVE' = ACTIVE
        /\ outcome' = outcome /\ free' = free
        /\ claiming' = [claiming EXCEPT ![s] = new]
    BY DEF ReadBudget, dayVars, controls
  <1>1. /\ phase[s] = "working" /\ asked[s] < Len(Connections)
        /\ ActorFree(ActorOf[s]) /\ SupplierFree(c)
    BY DEF ReadBudget
  <1>2. asked[s] \in Nat /\ asked[s] + 1 \in DOMAIN Connections /\ c \in Suppliers
    BY <1>1, AdmissionParts, Distinct
  <1>3. new \in Claim /\ new # NoClaim
    <2>1. RefusalCode(s, c) \in Codes
      BY DEF RefusalCode, Codes
    <2>2. today \in Days /\ today # 0
      BY AdmissionParts, Distinct
    <2> QED BY <1>2, <2>1, <2>2 DEF Claim, NoClaim
  <1>4. /\ claiming' \in [Searches -> Claim \cup {NoClaim}] /\ claiming'[s] = new
        /\ \A t \in Searches \ {s} : claiming'[t] = claiming[t]
    BY <1>0, <1>3, AdmissionParts
  <1>5. ClaimsApart'
    <2> SUFFICES ASSUME NEW t \in Searches, NEW u \in Searches,
                        claiming'[t] # NoClaim, claiming'[u] # NoClaim,
                        ActorOf[t] = ActorOf[u] \/ claiming'[t].supplier = claiming'[u].supplier
                 PROVE  t = u
      BY DEF ClaimsApart
    <2>1. ASSUME NEW v \in Searches, v # s, claiming[v] # NoClaim
          PROVE  ActorOf[v] # ActorOf[s] /\ claiming[v].supplier # c
      BY <1>1, <2>1 DEF ActorFree, SupplierFree
    <2>2. new.supplier = c
      OBVIOUS
    <2> HIDE DEF new
    <2>3. CASE t # s /\ u # s
      BY <1>4, <2>3, AdmissionParts DEF ClaimsApart
    <2>4. CASE t = s \/ u = s
      BY <1>4, <2>1, <2>2, <2>4
    <2> QED BY <2>3, <2>4
  <1>6. ASSUME NEW t \in Searches
        PROVE  ClaimNext(t)' /\ NotAskedYet(t)' /\ ClaimAllowed(t)'
    <2>1. NotAskedYet(t)'
      BY <1>0, AdmissionParts DEF NotAskedYet
    <2>2. CASE t = s
      <3>1. new.supplier = c /\ new.day = today /\ new.code = RefusalCode(s, c)
        OBVIOUS
      <3>2. ClaimNext(s)'
        BY <1>0, <1>1, <1>4, <3>1 DEF ClaimNext
      <3>3. ClaimAllowed(s)'
        <4>1. RefusalCode(s, c) = "none" =>
                 /\ control[ActorOf[s]].enabled
                 /\ Within(hits[today][ActorOf[s]], control[ActorOf[s]].limit)
                 /\ Within(hits[today][c], budget[c].limit)
          BY DEF RefusalCode
        <4> HIDE DEF new, c
        <4> QED BY <1>0, <1>4, <3>1, <4>1 DEF ClaimAllowed
      <3> QED BY <2>1, <2>2, <3>2, <3>3
    <2>3. CASE t # s
      BY <1>0, <1>4, <2>1, <2>3, AdmissionParts DEF ClaimNext, ClaimAllowed
    <2> QED BY <2>2, <2>3
  <1>7. PlacesKept' /\ ChecksKept' /\ Counted(hits', usage')
    BY <1>0, AdmissionParts DEF PlacesKept, ChecksKept
  <1> HIDE DEF new, c
  <1> QED BY <1>0, <1>4, <1>5, <1>6, <1>7, AdmissionParts, AdmissionFrom

\* What a claim writes: one hit for each it dispatches, none for a refusal.
LEMMA WriteStep ==
    ASSUME AdmissionInvariant, NEW s \in Searches, WriteBudget(s)
    PROVE  AdmissionInvariant'
  <1> DEFINE claim == claiming[s]
             c == claim.supplier
             day == claim.day
             n == IF claim.code = "none" THEN 1 ELSE 0
  <1>0. /\ phase' = phase /\ today' = today
        /\ control' = control /\ budget' = budget /\ pricing' = pricing /\ ACTIVE' = ACTIVE
        /\ outcome' = outcome /\ free' = free
        /\ claiming' = [claiming EXCEPT ![s] = NoClaim]
        /\ asked' = [asked EXCEPT ![s] = @ + 1]
        /\ usage' = [usage EXCEPT ![s][c] = IF claim.code = "none" THEN "pending" ELSE "blocked"]
        /\ claim # NoClaim
    BY DEF WriteBudget, controls
  <1>1. /\ claim \in Claim /\ c \in Suppliers /\ day \in Days
        /\ asked[s] \in Nat /\ asked[s] < Len(Connections) /\ c = Connections[asked[s] + 1]
        /\ asked[s] + 1 \in DOMAIN Connections
    BY <1>0, AdmissionParts, Distinct DEF ClaimNext, Claim
  <1>2. hits' = [hits EXCEPT ![day] =
                    [k \in Keys |-> hits[day][k] + (IF k \in {ActorOf[s], c} THEN n ELSE 0)]]
    BY DEF WriteBudget, Cost
  <1>3. usage[s][c] = "none"
    BY <1>1, AdmissionParts DEF NotAskedYet
  <1>4. /\ usage' \in [Searches -> [Suppliers -> Usages]]
        /\ usage'[s][c] = (IF n = 1 THEN "pending" ELSE "blocked")
        /\ \A t \in Searches, e \in Suppliers : (t # s \/ e # c) => usage'[t][e] = usage[t][e]
    BY <1>0, <1>1, AdmissionParts DEF Usages
  <1>5. asked' \in [Searches -> 0..Len(Connections)] /\ asked'[s] = asked[s] + 1
        /\ \A t \in Searches \ {s} : asked'[t] = asked[t]
    BY <1>0, <1>1, AdmissionParts, Distinct
  <1>6. /\ claiming' \in [Searches -> Claim \cup {NoClaim}] /\ claiming'[s] = NoClaim
        /\ \A t \in Searches \ {s} : claiming'[t] = claiming[t]
    BY <1>0, AdmissionParts
  <1>7. /\ hits' \in [Days -> [Keys -> Nat]]
        /\ \A d \in Days, k \in Keys : k \notin {ActorOf[s], c} => hits'[d][k] = hits[d][k]
    <2>1. n \in Nat
      OBVIOUS
    <2>2. hits \in [Days -> [Keys -> Nat]]
      BY AdmissionParts
    <2> HIDE DEF n, c, day
    <2> QED BY <1>1, <1>2, <2>1, <2>2
  <1>8. Counted(hits', usage')
    <2>1. n \in {0, 1} /\ hits \in [Days -> [Keys -> Nat]] /\ Counted(hits, usage)
      BY AdmissionParts
    <2>2. \A t \in Searches, e \in Suppliers : <<t, e>> # <<s, c>> => usage'[t][e] = usage[t][e]
      BY <1>4
    <2>3. usage'[s][c] = (IF n = 1 THEN "pending" ELSE "blocked")
      BY <1>4
    <2> HIDE DEF n, c, day
    <2> QED BY <1>1, <1>2, <1>3, <2>1, <2>2, <2>3, DispatchCounted, ZenonT(90)
  <1>9. ClaimsApart'
    <2>1. \A t \in Searches : claiming'[t] # NoClaim => claiming'[t] = claiming[t]
      BY <1>6
    <2> QED BY <2>1, AdmissionParts DEF ClaimsApart
  <1>10. ASSUME NEW t \in Searches
         PROVE  ClaimNext(t)' /\ NotAskedYet(t)' /\ ClaimAllowed(t)'
    <2>1. NotAskedYet(t)'
      <3> SUFFICES ASSUME NEW i \in DOMAIN Connections, asked'[t] < i
                   PROVE  usage'[t][Connections[i]] = "none"
        BY DEF NotAskedYet
      <3>1. /\ i \in Nat /\ asked[t] \in Nat /\ Connections[i] \in Suppliers
            /\ asked[t] < i /\ (t = s => i # asked[s] + 1)
        BY <1>1, <1>5, AdmissionParts, Distinct, SMTT(60)
      <3>2. t = s => Connections[i] # c
        BY <1>1, <3>1, AdmissionAssumption
      <3>3. usage[t][Connections[i]] = "none"
        BY <3>1, AdmissionParts DEF NotAskedYet
      <3> QED BY <1>4, <3>1, <3>2, <3>3
    <2>2. CASE t = s
      BY <1>6, <2>1, <2>2 DEF ClaimNext, ClaimAllowed
    <2>3. CASE t # s
      <3>1. ClaimNext(t)'
        BY <1>0, <1>5, <1>6, <2>3, AdmissionParts DEF ClaimNext
      <3>2. ClaimAllowed(t)'
        <4> SUFFICES ASSUME claiming[t] # NoClaim, claiming[t].code = "none"
                     PROVE  /\ control[ActorOf[t]].enabled
                            /\ Within(hits'[claiming[t].day][ActorOf[t]], control[ActorOf[t]].limit)
                            /\ Within(hits'[claiming[t].day][claiming[t].supplier],
                                      budget[claiming[t].supplier].limit)
          BY <1>0, <1>6, <2>3 DEF ClaimAllowed
        <4>1. claiming[t] \in Claim /\ claiming[t].day \in Days /\ claiming[t].supplier \in Suppliers
          BY AdmissionParts DEF Claim
        <4>2. ActorOf[t] # ActorOf[s] /\ claiming[t].supplier # c
          BY <1>0, <2>3, AdmissionParts DEF ClaimsApart
        <4>3. ActorOf[t] \notin {ActorOf[s], c} /\ claiming[t].supplier \notin {ActorOf[s], c}
          BY <1>1, <4>1, <4>2, Distinct
        <4>4. hits'[claiming[t].day][ActorOf[t]] = hits[claiming[t].day][ActorOf[t]]
              /\ hits'[claiming[t].day][claiming[t].supplier] = hits[claiming[t].day][claiming[t].supplier]
          BY <1>7, <4>1, <4>3, Distinct
        <4> QED BY <4>4, AdmissionParts DEF ClaimAllowed
      <3> QED BY <2>1, <3>1, <3>2
    <2> QED BY <2>2, <2>3
  <1>11. PlacesKept' /\ ChecksKept'
    BY <1>0, AdmissionParts DEF PlacesKept, ChecksKept
  <1> HIDE DEF n, c, day, claim
  <1> QED BY <1>0, <1>4, <1>5, <1>6, <1>7, <1>8, <1>9, <1>10, <1>11, AdmissionParts, AdmissionFrom

\* A supplier's answer is charged as its dispatch was.
LEMMA FinishedStep ==
    ASSUME AdmissionInvariant, NEW s \in Searches, NEW c \in Suppliers, NEW success \in BOOLEAN,
           SupplierFinished(s, c, success)
    PROVE  AdmissionInvariant'
  <1>0. /\ phase' = phase /\ asked' = asked /\ hits' = hits /\ today' = today
        /\ control' = control /\ budget' = budget /\ pricing' = pricing /\ ACTIVE' = ACTIVE
        /\ outcome' = outcome /\ free' = free /\ claiming' = claiming
        /\ usage[s][c] = "pending"
        /\ usage' = [usage EXCEPT ![s][c] = IF success THEN "success" ELSE "failed"]
    BY DEF SupplierFinished, dayVars, controls
  <1>1. /\ usage' \in [Searches -> [Suppliers -> Usages]]
        /\ usage'[s][c] \in {"success", "failed"}
        /\ \A t \in Searches, e \in Suppliers : (t # s \/ e # c) => usage'[t][e] = usage[t][e]
    BY <1>0, AdmissionParts DEF Usages
  <1>2. \A k : Charges(usage', k) = Charges(usage, k)
    <2>1. ASSUME NEW x \in Searches \X Suppliers
          PROVE  usage'[x[1]][x[2]] \in {"pending", "success", "failed"}
                   <=> usage[x[1]][x[2]] \in {"pending", "success", "failed"}
      BY <1>0, <1>1
    <2> QED BY <2>1 DEF Charges
  <1>3. Counted(hits', usage')
    BY <1>0, <1>2, AdmissionParts DEF Counted
  <1>4. ASSUME NEW t \in Searches
        PROVE  ClaimNext(t)' /\ NotAskedYet(t)' /\ ClaimAllowed(t)'
    <2>1. NotAskedYet(t)'
      <3> SUFFICES ASSUME NEW i \in DOMAIN Connections, asked[t] < i
                   PROVE  usage'[t][Connections[i]] = "none"
        BY <1>0 DEF NotAskedYet
      <3>1. usage[t][Connections[i]] = "none" /\ Connections[i] \in Suppliers
        BY Distinct, AdmissionParts DEF NotAskedYet
      <3> QED BY <1>0, <1>1, <3>1
    <2> QED BY <1>0, <2>1, AdmissionParts DEF ClaimNext, ClaimAllowed
  <1>5. PlacesKept' /\ ChecksKept' /\ ClaimsApart'
    BY <1>0, AdmissionParts DEF PlacesKept, ChecksKept, ClaimsApart
  <1> QED BY <1>0, <1>1, <1>3, <1>4, <1>5, AdmissionParts, AdmissionFrom

\* An administrator changes a control nobody reads at that moment.
LEMMA ControlStep ==
    ASSUME AdmissionInvariant, UNCHANGED <<searchVars, dayVars, pricing, ACTIVE>>,
           control' \in [Actors -> [enabled : BOOLEAN, limit : SUBSET Nat, version : Nat]],
           budget' \in [Suppliers -> [limit : SUBSET Nat, version : Nat]],
           \A t \in Searches : claiming[t] # NoClaim =>
               /\ control'[ActorOf[t]] = control[ActorOf[t]]
               /\ budget'[claiming[t].supplier] = budget[claiming[t].supplier]
    PROVE  AdmissionInvariant'
  <1>0. /\ phase' = phase /\ asked' = asked /\ usage' = usage /\ hits' = hits /\ today' = today
        /\ pricing' = pricing /\ ACTIVE' = ACTIVE
        /\ outcome' = outcome /\ free' = free /\ claiming' = claiming
    BY DEF searchVars, dayVars
  <1>1. ASSUME NEW t \in Searches
        PROVE  ClaimNext(t)' /\ NotAskedYet(t)' /\ ClaimAllowed(t)'
    BY <1>0, AdmissionParts DEF ClaimNext, NotAskedYet, ClaimAllowed
  <1>2. PlacesKept' /\ ChecksKept' /\ ClaimsApart' /\ Counted(hits', usage')
    BY <1>0, AdmissionParts DEF PlacesKept, ChecksKept, ClaimsApart
  <1> QED BY <1>0, <1>1, <1>2, AdmissionParts, AdmissionFrom

LEMMA ControlSteps ==
    ASSUME AdmissionInvariant,
           \/ \E c \in Suppliers, limit \in {{}} \cup {{n} : n \in SupplierLimits},
                 expected \in 1..MaxVersion : SetSupplier(c, limit, expected)
           \/ \E a \in Actors, enabled \in BOOLEAN, limit \in {{}} \cup {{n} : n \in UserLimits},
                 expected \in 0..(MaxVersion - 1) : SetUser(a, enabled, limit, expected)
    PROVE  AdmissionInvariant'
  <1>0. /\ \A t \in Searches : ActorOf[t] \in Actors
        /\ \A t \in Searches : claiming[t] # NoClaim => claiming[t].supplier \in Suppliers
    BY Distinct, AdmissionParts DEF Claim
  <1>1. ASSUME NEW c \in Suppliers, NEW limit \in {{}} \cup {{n} : n \in SupplierLimits},
               NEW expected \in 1..MaxVersion, SetSupplier(c, limit, expected)
        PROVE  AdmissionInvariant'
    <2>1. limit \in SUBSET Nat /\ expected + 1 \in Nat
      BY AdmissionAssumption
    <2>2. /\ budget' = [budget EXCEPT ![c] = [limit |-> limit, version |-> expected + 1]]
          /\ control' = control /\ SupplierFree(c)
          /\ UNCHANGED <<searchVars, dayVars, pricing, ACTIVE>>
      BY <1>1 DEF SetSupplier
    <2>3. budget' \in [Suppliers -> [limit : SUBSET Nat, version : Nat]]
      BY <2>1, <2>2, AdmissionParts
    <2>4. \A e \in Suppliers \ {c} : budget'[e] = budget[e]
      BY <2>2, AdmissionParts
    <2> QED BY <1>0, <2>2, <2>3, <2>4, AdmissionParts, ControlStep DEF SupplierFree
  <1>2. ASSUME NEW a \in Actors, NEW enabled \in BOOLEAN,
               NEW limit \in {{}} \cup {{n} : n \in UserLimits},
               NEW expected \in 0..(MaxVersion - 1), SetUser(a, enabled, limit, expected)
        PROVE  AdmissionInvariant'
    <2>1. limit \in SUBSET Nat /\ expected + 1 \in Nat
      BY AdmissionAssumption
    <2>2. /\ control' = [control EXCEPT ![a] =
                 [enabled |-> enabled, limit |-> limit, version |-> expected + 1]]
          /\ budget' = budget /\ ActorFree(a)
          /\ UNCHANGED <<searchVars, dayVars, pricing, ACTIVE>>
      BY <1>2 DEF SetUser
    <2>3. control' \in [Actors -> [enabled : BOOLEAN, limit : SUBSET Nat, version : Nat]]
      BY <2>1, <2>2, AdmissionParts
    <2>4. \A e \in Actors \ {a} : control'[e] = control[e]
      BY <2>2, AdmissionParts
    <2> QED BY <1>0, <2>2, <2>3, <2>4, AdmissionParts, ControlStep DEF ActorFree
  <1> QED BY <1>1, <1>2

LEMMA WorldStep ==
    ASSUME AdmissionInvariant, Midnight \/ PriceNext
    PROVE  AdmissionInvariant'
  <1>0. /\ phase' = phase /\ asked' = asked /\ usage' = usage /\ hits' = hits
        /\ control' = control /\ budget' = budget
        /\ outcome' = outcome /\ free' = free /\ claiming' = claiming
    BY DEF Midnight, PriceNext, PriceStarts, PriceEnds, searchVars, dayVars, controls
  <1>1. ASSUME NEW t \in Searches
        PROVE  ClaimNext(t)' /\ NotAskedYet(t)' /\ ClaimAllowed(t)'
    BY <1>0, AdmissionParts DEF ClaimNext, NotAskedYet, ClaimAllowed
  <1>2. PlacesKept' /\ ClaimsApart' /\ Counted(hits', usage')
    BY <1>0, AdmissionParts DEF PlacesKept, ClaimsApart
  <1>3. today' \in Days
    BY AdmissionParts DEF Midnight, PriceNext, PriceStarts, PriceEnds, dayVars
  <1>4. ChecksKept' /\ pricing' \subseteq Prices
    <2>1. CASE Midnight
      BY <2>1, AdmissionParts DEF Midnight, ChecksKept
    <2>2. ASSUME NEW p \in Prices, PriceStarts(p)
          PROVE  ChecksKept' /\ pricing' \subseteq Prices
      BY <2>2, AdmissionParts DEF PriceStarts, PriceAllowed, ChecksKept
    <2>3. ASSUME NEW p \in Prices, PriceEnds(p)
          PROVE  ChecksKept' /\ pricing' \subseteq Prices
      BY <2>3, AdmissionParts DEF PriceEnds, ChecksKept
    <2> QED BY <2>1, <2>2, <2>3 DEF PriceNext
  <1> QED BY <1>0, <1>1, <1>2, <1>3, <1>4, AdmissionParts, AdmissionFrom

LEMMA InitAdmission == AdmissionInit => AdmissionInvariant
  <1> SUFFICES ASSUME AdmissionInit PROVE AdmissionInvariant
    OBVIOUS
  <1>1. AdmissionTyped
    BY AdmissionAssumption, Distinct
       DEF AdmissionInit, AdmissionTyped, AdmissionTypeOK, Keys
  <1>2. ClaimsApart /\ ChecksKept
    BY DEF AdmissionInit, ClaimsApart, ChecksKept
  <1>3. PlacesKept
    <2>1. \A r : Held(phase, Working, r) = {} /\ Held(phase, Queueing, r) = {}
      BY DEF AdmissionInit, Held, Working, Queueing
    <2>2. Cardinality({}) = 0
      BY FS_EmptySet
    <2>3. MaxActive \in Nat /\ MaxQueued \in Nat
      BY AdmissionAssumption
    <2>4. \A r \in Routers : free[r].active = MaxActive /\ free[r].total = MaxActive + MaxQueued
      BY DEF AdmissionInit
    <2>5. ASSUME NEW r \in Routers
          PROVE  /\ free[r].active + Cardinality(Held(phase, Working, r)) = MaxActive
                 /\ free[r].total + Cardinality(Held(phase, Queueing, r))
                       = MaxActive + MaxQueued
      <3>1. /\ Cardinality(Held(phase, Working, r)) = 0
            /\ Cardinality(Held(phase, Queueing, r)) = 0
        BY <2>1, <2>2
      <3>2. free[r].active = MaxActive /\ free[r].total = MaxActive + MaxQueued
        BY <2>4
      <3> QED BY <3>1, <3>2, <2>3
    <2> QED BY <2>5 DEF PlacesKept
  <1>4. Counted(hits, usage)
    <2> SUFFICES ASSUME NEW k \in Keys
                 PROVE  HitsOf(hits, k) = Cardinality(Charges(usage, k))
      BY DEF Counted
    <2>1. Charges(usage, k) = {}
      BY DEF AdmissionInit, Charges
    <2>2. PICK f : f = [d \in Days |-> hits[d][k]]
      OBVIOUS
    <2>3. f \in [Days -> Int] /\ \A d \in Days : f[d] = 0
      BY <2>2 DEF AdmissionInit
    <2>4. SumOf(f) = 0
      BY <2>3, SumOfZeros, DaysFinite
    <2> QED BY <2>1, <2>2, <2>4, FS_EmptySet DEF HitsOf
  <1>5. ASSUME NEW s \in Searches
        PROVE  ClaimNext(s) /\ NotAskedYet(s) /\ ClaimAllowed(s)
    BY Distinct DEF AdmissionInit, ClaimNext, NotAskedYet, ClaimAllowed
  <1> QED BY <1>1, <1>2, <1>3, <1>4, <1>5 DEF AdmissionInvariant

LEMMA AdmissionStep == AdmissionInvariant /\ [AdmissionNext]_admissionVars => AdmissionInvariant'
  <1> SUFFICES ASSUME AdmissionInvariant, [AdmissionNext]_admissionVars
               PROVE  AdmissionInvariant'
    OBVIOUS
  <1>1. CASE Midnight \/ PriceNext
    BY <1>1, WorldStep
  <1>2. ASSUME NEW s \in Searches,
               \/ Start(s) \/ Arrive(s) \/ Refuse(s) \/ Admitted(s) \/ WaitedTooLong(s)
               \/ Answer(s) \/ NoAnswer(s) \/ Fail(s) \/ Cancelled(s) \/ BodyEnds(s)
        PROVE  AdmissionInvariant'
    BY <1>2, PhaseSteps
  <1>3. ASSUME NEW s \in Searches, ReadBudget(s) \/ WriteBudget(s)
        PROVE  AdmissionInvariant'
    BY <1>3, ReadStep, WriteStep
  <1>4. ASSUME NEW s \in Searches, NEW c \in Suppliers, NEW success \in BOOLEAN,
               SupplierFinished(s, c, success)
        PROVE  AdmissionInvariant'
    BY <1>4, FinishedStep
  <1>5. CASE \/ \E c \in Suppliers, limit \in {{}} \cup {{n} : n \in SupplierLimits},
                   expected \in 1..MaxVersion : SetSupplier(c, limit, expected)
             \/ \E a \in Actors, enabled \in BOOLEAN, limit \in {{}} \cup {{n} : n \in UserLimits},
                   expected \in 0..(MaxVersion - 1) : SetUser(a, enabled, limit, expected)
    BY <1>5, ControlSteps
  <1>6. CASE UNCHANGED admissionVars
    <2>1. /\ UNCHANGED <<searchVars, dayVars, pricing, ACTIVE>>
          /\ control' = control /\ budget' = budget
      BY <1>6 DEF admissionVars, controls
    <2> QED BY <2>1, AdmissionParts, ControlStep
  <1> QED BY <1>1, <1>2, <1>3, <1>4, <1>5, <1>6 DEF AdmissionNext, SearchNext

\* A supplier is asked by a claim alone, within what it read.
LEMMA DispatchedWithin ==
    ASSUME AdmissionInvariant, AdmissionNext, NEW s \in Searches, NEW c \in Suppliers,
           Dispatches(s, c)
    PROVE  /\ phase[s] = "working"
           /\ control[ActorOf[s]].enabled
           /\ \E d \in Days : \A k \in {ActorOf[s], c} :
                 /\ hits'[d][k] = hits[d][k] + 1
                 /\ Within(hits[d][k], IF k = c THEN budget[c].limit
                                       ELSE control[ActorOf[s]].limit)
  <1>1. usage[s][c] = "none" /\ usage'[s][c] = "pending" /\ usage' # usage
    BY DEF Dispatches
  <1>2. \/ \E t \in Searches : WriteBudget(t)
        \/ \E t \in Searches, e \in Suppliers, success \in BOOLEAN : SupplierFinished(t, e, success)
    BY <1>1 DEF AdmissionNext, SearchNext, Midnight, Start, Arrive, Refuse, Admitted,
                WaitedTooLong, ReadBudget, Answer, NoAnswer, Fail, Cancelled, BodyEnds,
                SetSupplier, SetUser, PriceNext, PriceStarts, PriceEnds, searchVars
  <1>3. ASSUME NEW t \in Searches, NEW e \in Suppliers, NEW success \in BOOLEAN,
               SupplierFinished(t, e, success)
        PROVE  FALSE
    BY <1>1, <1>3, AdmissionParts DEF SupplierFinished
  <1>4. PICK t \in Searches : WriteBudget(t)
    BY <1>2, <1>3
  <1>5. claiming[t] # NoClaim /\ claiming[t] \in Claim /\ claiming[t].supplier \in Suppliers
        /\ claiming[t].day \in Days
    BY <1>4, AdmissionParts DEF WriteBudget, Claim
  <1>6. t = s /\ claiming[t].supplier = c /\ claiming[t].code = "none"
    <2>1. usage' = [usage EXCEPT ![t][claiming[t].supplier] =
                       IF claiming[t].code = "none" THEN "pending" ELSE "blocked"]
      BY <1>4 DEF WriteBudget
    <2> QED BY <1>1, <1>5, <2>1, AdmissionParts
  <1>7. \A k \in {ActorOf[s], c} : hits'[claiming[s].day][k] = hits[claiming[s].day][k] + 1
    <2>1. hits' = [hits EXCEPT ![claiming[s].day] = [k \in Keys |->
                     hits[claiming[s].day][k] + IF k \in {ActorOf[s], c} THEN 1 ELSE 0]]
      BY <1>4, <1>6 DEF WriteBudget, Cost
    <2> QED BY <1>5, <1>6, <2>1, AdmissionParts, Distinct
  <1>8. c # ActorOf[s]
    BY Distinct
  <1> QED BY <1>5, <1>6, <1>7, <1>8, AdmissionParts, ZenonT(90) DEF ClaimNext, ClaimAllowed

\* However many searches reserve at once, are dropped or fail, and whatever
\* administrators change in between, a supplier is asked within the limits of
\* its actor and its own, no permit and no hit is lost or lent twice, and a
\* client has one price check at work.
THEOREM SearchesStayWithinBudget == AdmissionSpec => WithinBudgetAlways
  <1>1. AdmissionInit => AdmissionInvariant
    BY InitAdmission
  <1>2. AdmissionInvariant /\ [AdmissionNext]_admissionVars => AdmissionInvariant'
    BY AdmissionStep
  <1>3. AdmissionInvariant => AdmissionTypeOK /\ Conserved
    BY AdmissionParts, ConservedParts, HitsKeptCounted
  <1>4. AdmissionInvariant /\ AdmissionTypeOK' /\ Conserved' /\ [AdmissionNext]_admissionVars
            => [WithinBudget]_admissionVars
    BY DispatchedWithin DEF WithinBudget
  <1> QED BY <1>1, <1>2, <1>3, <1>4, PTL DEF AdmissionSpec, WithinBudgetAlways

-----------------------------------------------------------------------------
(***************************************************************************)
(* PortalImports: every import names a quote that was valid when it was     *)
(* prepared, is the answer of one request, and its agency was charged what  *)
(* that quote says, once, when and only when it was confirmed.              *)
(***************************************************************************)

ImportStatuses == {"on-hold", "confirmed", "cancelled", "expired"}

\* The rows of the two tables.
ImportQuote ==
    [actor : Admins, booking : Bookings, assignee : Assignees, agency : Agencies,
     evidence : Evidence, payable : Payables, authorized : BOOLEAN]

ImportRow ==
    [quote : Nat, status : ImportStatuses, tickets : TicketEvidence, version : Nat,
     charged : BOOLEAN]

Wallet == [available : Nat, captured : Nat, frozen : BOOLEAN]

\* Two quotes that differ in their authorization at most.
SameQuote(p, q) ==
    /\ p.actor = q.actor /\ p.booking = q.booking /\ p.assignee = q.assignee
    /\ p.agency = q.agency /\ p.evidence = q.evidence /\ p.payable = q.payable

\* The confirmed imports of an agency, and what each was quoted at.
PaidIn(p, m, g) == {n \in DOMAIN m : m[n].status = "confirmed" /\ p[m[n].quote].agency = g}
Amounts(p, m, g) == [n \in PaidIn(p, m, g) |-> p[m[n].quote].payable]

Captured(f, p, m) == \A g \in Agencies : f[g].captured = SumOf(Amounts(p, m, g))

ImportsTyped ==
    /\ selling \in [Bookings -> Payables] /\ home \in [Assignees -> Agencies]
    /\ funds \in [Agencies -> Wallet]
    /\ prepared \in Seq(ImportQuote) /\ lapsed \in 0..Len(prepared)
    /\ imports \in Seq(ImportRow)
    /\ answers \in [Admins \X Requests -> 0..Len(imports)]

QuotesValid == \A i \in DOMAIN prepared : Valid(prepared[i].evidence)

ImportInOrder(m, n) ==
    /\ m[n].quote \in DOMAIN prepared
    /\ m[n].charged <=> m[n].status = "confirmed"
    /\ m[n].tickets = IF m[n].charged THEN "all" ELSE "none"

ImportedOnce ==
    \A m, n \in DOMAIN imports :
        prepared[imports[m].quote].booking = prepared[imports[n].quote].booking => m = n

AnsweredOnce ==
    \A n \in DOMAIN imports :
        \E x \in Admins \X Requests : {ar \in Admins \X Requests : answers[ar] = n} = {x}

ImportsInvariant ==
    /\ ImportsTyped /\ QuotesValid /\ ImportedOnce /\ AnsweredOnce
    /\ \A n \in DOMAIN imports : ImportInOrder(imports, n)
    /\ Captured(funds, prepared, imports)

-----------------------------------------------------------------------------
(* What was paid *)

LEMMA PaidSum ==
    ASSUME NEW p, NEW m, NEW S, IsFiniteSet(S)
    PROVE  MapThenSumSet(LAMBDA n : p[m[n].quote].payable, S)
           = SumOf([n \in S |-> p[m[n].quote].payable])
  <1> DEFINE f == [n \in S |-> p[m[n].quote].payable]
             Fits(h) == h = [s \in SUBSET S |->
                                IF s = {} THEN 0
                                ELSE p[m[OneOf(s)].quote].payable + h[s \ {OneOf(s)}]]
             G == Iterated(f, S)
             H == CHOOSE h : Fits(h)
  <1>1. SumOf(f) = G[S] /\ G = [s \in SUBSET S |-> FoldStep(f, G, s)]
    BY SumIterated, IteratedExists
  <1>2. MapThenSumSet(LAMBDA n : p[m[n].quote].payable, S) = H[S]
    BY DEF MapThenSumSet, MapThenFoldSet, OneOf
  <1>3. ASSUME NEW h
        PROVE  [s \in SUBSET S |->
                    IF s = {} THEN 0
                    ELSE p[m[OneOf(s)].quote].payable + h[s \ {OneOf(s)}]]
               = [s \in SUBSET S |-> FoldStep(f, h, s)]
    <2>1. ASSUME NEW s \in SUBSET S, s # {}
          PROVE  f[OneOf(s)] = p[m[OneOf(s)].quote].payable
      BY <2>1 DEF OneOf
    <2> HIDE DEF f
    <2> QED BY <2>1 DEF FoldStep
  <1> HIDE DEF f, G
  <1>4. Fits(G)
    BY <1>1, <1>3
  <1>5. Fits(H)
    <2> HIDE DEF Fits
    <2> QED BY <1>4
  <1> HIDE DEF H
  <1>6. H = [s \in SUBSET S |-> FoldStep(f, H, s)]
    BY <1>3, <1>5
  <1>7. Iterates(G, f, S) /\ Iterates(H, f, S)
    BY <1>1, <1>6 DEF Iterates
  <1>8. G[S] = H[S]
    BY <1>7, IteratedOnce
  <1> QED BY <1>1, <1>2, <1>8 DEF f

LEMMA SumKnown ==
    ASSUME NEW S, IsFiniteSet(S), NEW f \in [S -> Int]
    PROVE  SumOf(f) \in Int
  <1> PICK h : h = [x \in S |-> f[x] + f[x]]
    OBVIOUS
  <1>1. h \in [S -> Int] /\ \A x \in S : h[x] = f[x] + f[x]
    OBVIOUS
  <1> QED BY <1>1, SumAdds

LEMMA PaidFinite ==
    ASSUME NEW m, m \in Seq(ImportRow), NEW p, NEW g
    PROVE  IsFiniteSet(PaidIn(p, m, g))
  <1>1. DOMAIN m = 1..Len(m) /\ Len(m) \in Nat
    BY LenProperties
  <1>2. IsFiniteSet(DOMAIN m)
    BY <1>1, FS_Interval
  <1>3. PaidIn(p, m, g) \subseteq DOMAIN m
    BY DEF PaidIn
  <1> QED BY <1>2, <1>3, FS_Subset

\* The invariant has what ImportsPaid promises.
LEMMA PaidPromised ==
    ASSUME ImportsInvariant
    PROVE  ImportsTypeOK /\ ImportsPaid
  <1>1. ImportsTypeOK
    <2>1. \A i \in DOMAIN prepared : prepared[i].payable \in Payables
      <3>1. \A i \in DOMAIN prepared : prepared[i] \in ImportQuote
        BY ElementOfSeq, LenProperties DEF ImportsInvariant, ImportsTyped
      <3> QED BY <3>1 DEF ImportQuote
    <2> QED BY <2>1 DEF ImportsInvariant, ImportsTyped, ImportsTypeOK, Wallet
  <1>2. ASSUME NEW n \in DOMAIN imports
        PROVE  Cardinality({ar \in Admins \X Requests : answers[ar] = n}) = 1
    <2>1. PICK x \in Admins \X Requests :
              {ar \in Admins \X Requests : answers[ar] = n} = {x}
      BY DEF ImportsInvariant, AnsweredOnce
    <2> QED BY <2>1, FS_Singleton
  <1>3. ASSUME NEW g \in Agencies
        PROVE  funds[g].captured =
                  MapThenSumSet(LAMBDA n : prepared[imports[n].quote].payable, PaidBy(g))
    <2>1. PaidBy(g) = PaidIn(prepared, imports, g)
      BY DEF PaidBy, PaidIn
    <2>2. IsFiniteSet(PaidBy(g))
      BY <2>1, PaidFinite DEF ImportsInvariant, ImportsTyped
    <2>3. funds[g].captured = SumOf(Amounts(prepared, imports, g))
      BY DEF ImportsInvariant, Captured
    <2> QED BY <2>1, <2>2, <2>3, PaidSum DEF Amounts
  <1> QED BY <1>1, <1>2, <1>3
          DEF ImportsInvariant, ImportedOnce, ImportInOrder, ImportsPaid

\* As long as the quotes of the imports stay what they are, so does what was paid.
LEMMA SamePaid ==
    ASSUME NEW m, NEW p, NEW q,
           \A n \in DOMAIN m : /\ q[m[n].quote].agency = p[m[n].quote].agency
                               /\ q[m[n].quote].payable = p[m[n].quote].payable
    PROVE  \A g : Amounts(q, m, g) = Amounts(p, m, g)
  <1> SUFFICES ASSUME NEW g PROVE Amounts(q, m, g) = Amounts(p, m, g)
    OBVIOUS
  <1>1. PaidIn(q, m, g) = PaidIn(p, m, g)
    BY DEF PaidIn
  <1>2. \A n \in PaidIn(p, m, g) : n \in DOMAIN m
    BY DEF PaidIn
  <1> QED BY <1>1, <1>2 DEF Amounts

\* One more import is confirmed: its agency is charged what it was quoted at.
LEMMA OneMorePaid ==
    ASSUME NEW p, NEW m \in Seq(ImportRow), NEW w \in Seq(ImportRow), NEW n \in DOMAIN w,
           \A i \in DOMAIN m : m[i].quote \in DOMAIN p, w[n].quote \in DOMAIN p,
           \A i \in DOMAIN p : p[i].payable \in Nat,
           DOMAIN w = DOMAIN m \cup {n},
           \A i \in DOMAIN m : i # n => w[i] = m[i],
           n \in DOMAIN m => m[n].status # "confirmed",
           w[n].status = "confirmed",
           NEW g
    PROVE  SumOf(Amounts(p, w, g)) =
              SumOf(Amounts(p, m, g))
              + (IF p[w[n].quote].agency = g THEN p[w[n].quote].payable ELSE 0)
           /\ SumOf(Amounts(p, m, g)) \in Int
  <1>1. PICK f : f = Amounts(p, m, g)
    OBVIOUS
  <1>2. PICK h : h = Amounts(p, w, g)
    OBVIOUS
  <1> PICK S : S = PaidIn(p, m, g)
    OBVIOUS
  <1>3. n \notin S
    BY DEF PaidIn
  <1>4. IsFiniteSet(S)
    BY PaidFinite
  <1>5. f \in [S -> Int]
    <2>1. \A i \in PaidIn(p, m, g) : p[m[i].quote].payable \in Int
      BY DEF PaidIn
    <2> QED BY <1>1, <2>1 DEF Amounts
  <1>6. \A i \in S : i # n /\ i \in DOMAIN m /\ w[i] = m[i]
    BY DEF PaidIn
  <1>7. CASE p[w[n].quote].agency = g
    <2> PICK R : R = S \cup {n}
      OBVIOUS
    <2>1. PaidIn(p, w, g) = R
      BY <1>7 DEF PaidIn
    <2>2. h \in [R -> Int] /\ h[n] = p[w[n].quote].payable
      <3>1. \A i \in PaidIn(p, w, g) : p[w[i].quote].payable \in Int
        <4>1. \A i \in DOMAIN w : w[i].quote \in DOMAIN p
          OBVIOUS
        <4> QED BY <4>1 DEF PaidIn
      <3> QED BY <1>2, <2>1, <3>1 DEF Amounts
    <2>3. \A i \in S : h[i] = f[i]
      BY <1>1, <1>2, <1>6, <2>1 DEF Amounts
    <2>4. SumOf(h) = SumOf(f) + h[n]
      <3>1. n \in R /\ R = S \cup {n}
        OBVIOUS
      <3> QED BY ONLY <1>3, <1>4, <1>5, <2>2, <2>3, <3>1, SumExtends, SMTT(60)
    <2>5. SumOf(f) \in Int
      BY <1>4, <1>5, SumKnown, Zenon
    <2> QED BY <1>1, <1>2, <1>7, <2>2, <2>4, <2>5
  <1>8. CASE p[w[n].quote].agency # g
    <2>1. PaidIn(p, w, g) = S
      BY <1>3, <1>6, <1>8 DEF PaidIn
    <2>2. h = f
      BY <1>1, <1>2, <1>6, <2>1 DEF Amounts
    <2>3. SumOf(f) \in Int
      BY <1>4, <1>5, SumKnown, Zenon
    <2> QED BY <1>1, <1>2, <1>8, <2>2, <2>3
  <1> QED BY <1>7, <1>8

-----------------------------------------------------------------------------
(* The invariant is inductive *)

LEMMA ImportsRows ==
    ASSUME ImportsTyped
    PROVE  /\ DOMAIN prepared = 1..Len(prepared) /\ Len(prepared) \in Nat
           /\ \A i \in DOMAIN prepared : prepared[i] \in ImportQuote
           /\ DOMAIN imports = 1..Len(imports) /\ Len(imports) \in Nat
           /\ \A n \in DOMAIN imports : imports[n] \in ImportRow
  BY ElementOfSeq, LenProperties DEF ImportsTyped

LEMMA PayablesKnown ==
    ASSUME ImportsTyped
    PROVE  \A i \in DOMAIN prepared : prepared[i].payable \in Nat /\ prepared[i].agency \in Agencies
  BY ImportsRows, ImportsAssumption DEF ImportQuote

LEMMA InitImports == ImportsInit => ImportsInvariant
  <1> SUFFICES ASSUME ImportsInit PROVE ImportsInvariant
    OBVIOUS
  <1>1. DOMAIN prepared = {} /\ DOMAIN imports = {} /\ Len(prepared) = 0 /\ Len(imports) = 0
    BY EmptySeq DEF ImportsInit
  <1>2. ImportsTyped
    BY <1>1, EmptySeq DEF ImportsInit, ImportsTyped, Wallet
  <1>3. Captured(funds, prepared, imports)
    <2> SUFFICES ASSUME NEW g \in Agencies
                 PROVE  funds[g].captured = SumOf(Amounts(prepared, imports, g))
      BY DEF Captured
    <2>1. PICK f : f = Amounts(prepared, imports, g)
      OBVIOUS
    <2>2. f \in [{} -> Int]
      BY <1>1, <2>1 DEF Amounts, PaidIn
    <2>3. SumOf(f) = 0
      BY <2>2, FS_EmptySet, SumOfZeros
    <2> QED BY <2>1, <2>3 DEF ImportsInit
  <1> QED BY <1>1, <1>2, <1>3
          DEF ImportsInvariant, QuotesValid, ImportedOnce, AnsweredOnce

\* What the world does, or a quote that lapses, leaves the imports and the quotes
\* alone; a deposit and a freeze what was captured.
LEMMA WorldImports ==
    ASSUME ImportsInvariant,
           \/ \E r \in Bookings, amount \in Payables : RuleChanges(r, amount)
           \/ \E u \in Assignees, g \in Agencies : Moves(u, g)
           \/ \E g \in Agencies : Deposited(g) \/ Freezes(g)
           \/ QuoteLapses
           \/ UNCHANGED importsVars
    PROVE  ImportsInvariant'
  <1>1. prepared' = prepared /\ imports' = imports /\ answers' = answers
    BY DEF RuleChanges, Moves, Deposited, Freezes, QuoteLapses, importsVars, worldVars
  <1>2. /\ funds' \in [Agencies -> Wallet]
        /\ \A g \in Agencies : funds'[g].captured = funds[g].captured
    <2>1. funds \in [Agencies -> Wallet]
      BY DEF ImportsInvariant, ImportsTyped
    <2>2. CASE funds' = funds
      BY <2>1, <2>2
    <2>3. ASSUME NEW g \in Agencies, Deposited(g) \/ Freezes(g)
          PROVE  /\ funds' \in [Agencies -> Wallet]
                 /\ \A h \in Agencies : funds'[h].captured = funds[h].captured
      <3>1. funds[g] \in Wallet
        BY <2>1
      <3>2. PICK w \in Wallet : funds' = [funds EXCEPT ![g] = w] /\ w.captured = funds[g].captured
        <4>1. CASE Deposited(g)
          <5>1. funds' = [funds EXCEPT ![g] = [funds[g] EXCEPT !.available = @ + 1]]
            BY <4>1 DEF Deposited
          <5>2. [funds[g] EXCEPT !.available = @ + 1] \in Wallet
            BY <3>1 DEF Wallet
          <5> QED BY <3>1, <5>1, <5>2 DEF Wallet
        <4>2. CASE Freezes(g)
          <5>1. funds' = [funds EXCEPT ![g] = [funds[g] EXCEPT !.frozen = ~@]]
            BY <4>2 DEF Freezes
          <5>2. [funds[g] EXCEPT !.frozen = ~@] \in Wallet
            BY <3>1 DEF Wallet
          <5> QED BY <3>1, <5>1, <5>2 DEF Wallet
        <4> QED BY <2>3, <4>1, <4>2
      <3> QED BY <2>1, <3>2
    <2> QED BY <2>2, <2>3
            DEF RuleChanges, Moves, QuoteLapses, importsVars, worldVars
  <1>3. /\ selling \in [Bookings -> Payables] /\ home \in [Assignees -> Agencies]
        /\ lapsed \in 0..Len(prepared) /\ Len(prepared) \in Nat
    BY ImportsRows DEF ImportsInvariant, ImportsTyped
  <1> DEFINE Placed == /\ selling' \in [Bookings -> Payables] /\ home' \in [Assignees -> Agencies]
                       /\ lapsed' \in 0..Len(prepared)
  <1>6. Placed
    <2>1. ASSUME NEW r \in Bookings, NEW amount \in Payables, RuleChanges(r, amount)
          PROVE  Placed
      BY <1>3, <2>1 DEF RuleChanges
    <2>2. ASSUME NEW u \in Assignees, NEW g \in Agencies, Moves(u, g)
          PROVE  Placed
      BY <1>3, <2>2 DEF Moves
    <2>3. ASSUME NEW g \in Agencies, Deposited(g) \/ Freezes(g)
          PROVE  Placed
      BY <1>3, <2>3 DEF Deposited, Freezes, worldVars
    <2>4. CASE QuoteLapses
      BY <1>3, <2>4 DEF QuoteLapses, worldVars
    <2>5. CASE UNCHANGED importsVars
      BY <1>3, <2>5 DEF importsVars, worldVars
    <2> QED BY <2>1, <2>2, <2>3, <2>4, <2>5
  <1>4. ImportsTyped'
    BY <1>1, <1>2, <1>6 DEF ImportsInvariant, ImportsTyped
  <1>5. Captured(funds', prepared, imports)
    BY <1>2 DEF ImportsInvariant, Captured
  <1> QED BY <1>1, <1>4, <1>5
          DEF ImportsInvariant, QuotesValid, ImportedOnce, AnsweredOnce, ImportInOrder

\* A quote more, or one that is authorized, takes nothing from the others.
LEMMA QuotesStep ==
    ASSUME ImportsInvariant,
           prepared' \in Seq(ImportQuote),
           DOMAIN prepared \subseteq DOMAIN prepared', Len(prepared) <= Len(prepared'),
           \A i \in DOMAIN prepared : SameQuote(prepared'[i], prepared[i]),
           \A i \in DOMAIN prepared' \ DOMAIN prepared : Valid(prepared'[i].evidence),
           UNCHANGED <<worldVars, funds, lapsed, imports, answers>>
    PROVE  ImportsInvariant'
  <1>1. ImportsTyped'
    <2>1. lapsed' \in 0..Len(prepared')
      BY LenProperties, ImportsRows DEF ImportsInvariant, ImportsTyped
    <2> QED BY <2>1 DEF ImportsInvariant, ImportsTyped, worldVars
  <1>2. QuotesValid'
    BY DEF ImportsInvariant, QuotesValid, SameQuote
  <1>3. \A n \in DOMAIN imports : imports[n].quote \in DOMAIN prepared
    BY DEF ImportsInvariant, ImportInOrder
  <1>4. ImportedOnce'
    BY <1>3 DEF ImportsInvariant, ImportedOnce, SameQuote
  <1>5. Captured(funds', prepared', imports')
    <2>1. \A g : Amounts(prepared', imports, g) = Amounts(prepared, imports, g)
      BY <1>3, SamePaid, ZenonT(90) DEF SameQuote
    <2> QED BY <2>1 DEF ImportsInvariant, Captured
  <1>6. AnsweredOnce' /\ \A n \in DOMAIN imports' : ImportInOrder(imports, n)'
    BY DEF ImportsInvariant, AnsweredOnce, ImportInOrder
  <1> QED BY <1>1, <1>2, <1>4, <1>5, <1>6 DEF ImportsInvariant

LEMMA PreparedStep ==
    ASSUME ImportsInvariant,
           NEW a \in Admins, NEW r \in Bookings, NEW u \in Assignees, NEW e \in Evidence,
           NEW amount \in Payables, NEW authorize \in BOOLEAN,
           Prepared(a, r, u, e, amount, authorize)
    PROVE  ImportsInvariant'
  <1>1. PICK q : q = [actor |-> a, booking |-> r, assignee |-> u, agency |-> home[u],
                      evidence |-> e, payable |-> amount, authorized |-> authorize]
    OBVIOUS
  <1>2. q \in ImportQuote /\ Valid(q.evidence)
    BY <1>1 DEF ImportQuote, ImportsInvariant, ImportsTyped, Prepared
  <1>3. prepared' = Append(prepared, q) /\ prepared \in Seq(ImportQuote)
    BY <1>1 DEF Prepared, ImportsInvariant, ImportsTyped
  <1>4. /\ prepared' \in Seq(ImportQuote) /\ Len(prepared') = Len(prepared) + 1
        /\ DOMAIN prepared' = 1..(Len(prepared) + 1)
        /\ \A i \in DOMAIN prepared : prepared'[i] = prepared[i]
        /\ prepared'[Len(prepared) + 1] = q
    BY <1>2, <1>3, AppendProperties, LenProperties
  <1>5. DOMAIN prepared = 1..Len(prepared) /\ Len(prepared) \in Nat
    BY ImportsRows DEF ImportsInvariant
  <1>6. DOMAIN prepared' \ DOMAIN prepared = {Len(prepared) + 1}
    BY <1>4, <1>5
  <1>7. UNCHANGED <<worldVars, funds, lapsed, imports, answers>>
    BY DEF Prepared
  <1>8. DOMAIN prepared \subseteq DOMAIN prepared' /\ Len(prepared) <= Len(prepared')
    BY <1>4, <1>5
  <1>9. \A i \in DOMAIN prepared : SameQuote(prepared'[i], prepared[i])
    BY <1>4 DEF SameQuote
  <1> QED BY <1>2, <1>4, <1>6, <1>7, <1>8, <1>9, QuotesStep

LEMMA AuthorizeStep ==
    ASSUME ImportsInvariant,
           NEW a \in Admins, NEW i \in DOMAIN prepared, NEW j \in DOMAIN prepared,
           AuthorizeCharge(a, i, j)
    PROVE  ImportsInvariant'
  <1>1. prepared' = [prepared EXCEPT ![i].authorized = TRUE]
        /\ UNCHANGED <<worldVars, funds, lapsed, imports, answers>>
    BY DEF AuthorizeCharge
  <1>2. DOMAIN prepared' = DOMAIN prepared
    BY <1>1
  <1>3. \A k \in DOMAIN prepared : prepared'[k] \in ImportQuote
            /\ SameQuote(prepared'[k], prepared[k])
    <2> SUFFICES ASSUME NEW k \in DOMAIN prepared
                 PROVE  prepared'[k] \in ImportQuote /\ SameQuote(prepared'[k], prepared[k])
      OBVIOUS
    <2>1. prepared[k] \in ImportQuote
      BY ImportsRows DEF ImportsInvariant
    <2>2. prepared'[k] = IF k = i THEN [prepared[k] EXCEPT !.authorized = TRUE] ELSE prepared[k]
      BY <1>1
    <2> QED BY <2>1, <2>2 DEF ImportQuote, SameQuote
  <1>4. prepared' \in Seq(ImportQuote) /\ Len(prepared') = Len(prepared)
    <2>1. DOMAIN prepared = 1..Len(prepared) /\ Len(prepared) \in Nat
      BY ImportsRows DEF ImportsInvariant
    <2>2. prepared' \in [1..Len(prepared) -> ImportQuote]
      BY <1>1, <1>2, <1>3, <2>1
    <2> QED BY <2>1, <2>2, LenProperties
  <1>5. Len(prepared) <= Len(prepared')
    BY <1>4, ImportsRows DEF ImportsInvariant
  <1> QED BY <1>1, <1>2, <1>3, <1>4, <1>5, QuotesStep

LEMMA ChargeMoves ==
    ASSUME ImportsTyped, NEW g \in Agencies, NEW amount \in Nat, Charge(g, amount)
    PROVE  /\ funds' \in [Agencies -> Wallet]
           /\ \A h \in Agencies :
                 funds'[h].captured = funds[h].captured + (IF h = g THEN amount ELSE 0)
  <1>1. funds \in [Agencies -> Wallet]
    BY DEF ImportsTyped
  <1>2. \A h \in Agencies : funds[h].available \in Nat /\ funds[h].captured \in Nat
    BY <1>1 DEF Wallet
  <1> PICK w : w = [[funds[g] EXCEPT !.available = @ - amount] EXCEPT !.captured = @ + amount]
    OBVIOUS
  <1>3. w \in Wallet /\ w.captured = funds[g].captured + amount
    <2>1. funds[g] \in Wallet /\ funds[g].available >= amount
      BY <1>1 DEF Charge, Affordable
    <2> PICK v : v = [funds[g] EXCEPT !.available = @ - amount]
      OBVIOUS
    <2>2. v \in Wallet /\ v.captured = funds[g].captured
      <3>1. funds[g].available - amount \in Nat
        BY <1>2, <2>1
      <3> QED BY <2>1, <3>1 DEF Wallet
    <2>3. w = [v EXCEPT !.captured = @ + amount]
      OBVIOUS
    <2>4. v.captured + amount \in Nat
      BY <1>2, <2>2
    <2>5. w = [available |-> v.available, captured |-> v.captured + amount, frozen |-> v.frozen]
      BY <2>2, <2>3 DEF Wallet
    <2> QED BY <2>2, <2>4, <2>5 DEF Wallet
  <1>4. funds' = [funds EXCEPT ![g] = w]
    BY <1>1 DEF Charge
  <1> QED BY <1>1, <1>2, <1>3, <1>4

\* An import that is new or was not paid is paid, if it is confirmed now.
LEMMA RowPaid ==
    ASSUME ImportsInvariant, NEW w \in Seq(ImportRow), NEW n \in DOMAIN w,
           DOMAIN w = DOMAIN imports \cup {n},
           \A i \in DOMAIN imports : i # n => w[i] = imports[i],
           n \in DOMAIN imports => imports[n].status # "confirmed",
           w[n].quote \in DOMAIN prepared,
           IF w[n].status = "confirmed"
           THEN Charge(prepared[w[n].quote].agency, prepared[w[n].quote].payable)
           ELSE funds' = funds
    PROVE  funds' \in [Agencies -> Wallet] /\ Captured(funds', prepared, w)
  <1> PICK q : q = prepared[w[n].quote]
    OBVIOUS
  <1>1. /\ ImportsTyped /\ Captured(funds, prepared, imports)
        /\ \A i \in DOMAIN imports : imports[i].quote \in DOMAIN prepared
    BY DEF ImportsInvariant, ImportInOrder
  <1>2. \A i \in DOMAIN prepared : prepared[i].payable \in Nat /\ prepared[i].agency \in Agencies
    BY <1>1, PayablesKnown
  <1>3. imports \in Seq(ImportRow) /\ funds \in [Agencies -> Wallet]
    BY <1>1 DEF ImportsTyped
  <1>4. CASE w[n].status = "confirmed"
    <2>1. /\ funds' \in [Agencies -> Wallet]
          /\ \A h \in Agencies :
                funds'[h].captured = funds[h].captured + (IF h = q.agency THEN q.payable ELSE 0)
      BY <1>1, <1>2, <1>4, ChargeMoves
    <2>2. ASSUME NEW g \in Agencies
          PROVE  funds'[g].captured = SumOf(Amounts(prepared, w, g))
      <3>1. SumOf(Amounts(prepared, w, g)) =
               SumOf(Amounts(prepared, imports, g)) + (IF q.agency = g THEN q.payable ELSE 0)
        BY <1>1, <1>2, <1>3, <1>4, OneMorePaid
      <3>2. funds[g].captured = SumOf(Amounts(prepared, imports, g))
        BY <1>1 DEF Captured
      <3> QED BY <2>1, <3>1, <3>2
    <2> QED BY <2>1, <2>2 DEF Captured
  <1>5. CASE w[n].status # "confirmed"
    <2>1. ASSUME NEW g \in Agencies
          PROVE  Amounts(prepared, w, g) = Amounts(prepared, imports, g)
      <3>1. PaidIn(prepared, w, g) = PaidIn(prepared, imports, g)
        BY <1>5 DEF PaidIn
      <3>2. \A i \in PaidIn(prepared, imports, g) : w[i] = imports[i]
        BY DEF PaidIn
      <3> QED BY <3>1, <3>2 DEF Amounts
    <2> QED BY <1>1, <1>3, <1>5, <2>1 DEF Captured
  <1> QED BY <1>4, <1>5

LEMMA ImportedStep ==
    ASSUME ImportsInvariant,
           NEW a \in Admins, NEW i \in DOMAIN prepared, NEW request \in Requests,
           Imported(a, i, request)
    PROVE  /\ ImportsInvariant'
           /\ DOMAIN imports' = DOMAIN imports \cup {Len(imports) + 1}
           /\ \A n \in DOMAIN imports : imports'[n] = imports[n]
           /\ imports'[Len(imports) + 1].quote = i
           /\ imports'[Len(imports) + 1].charged <=> prepared[i].evidence.status = "confirmed"
  <1> PICK q : q = prepared[i]
    OBVIOUS
  <1> PICK n : n = Len(imports) + 1
    OBVIOUS
  <1> PICK row : row = [quote |-> i, status |-> q.evidence.status,
                        tickets |-> q.evidence.tickets, version |-> 1,
                        charged |-> q.evidence.status = "confirmed"]
    OBVIOUS
  <1>0. /\ ImportsTyped /\ QuotesValid /\ ImportedOnce /\ AnsweredOnce
        /\ \A m \in DOMAIN imports : ImportInOrder(imports, m)
    BY DEF ImportsInvariant
  <1>1. /\ answers[<<a, request>>] = 0 /\ NotImported(q.booking)
        /\ IF q.evidence.status = "confirmed"
           THEN Charge(q.agency, q.payable) ELSE funds' = funds
        /\ imports' = Append(imports, row)
        /\ answers' = [answers EXCEPT ![<<a, request>>] = n]
        /\ UNCHANGED <<worldVars, prepared, lapsed>>
    BY DEF Imported
  <1>2. q \in ImportQuote /\ Valid(q.evidence)
    BY <1>0, ImportsRows DEF QuotesValid
  <1>3. DOMAIN imports = 1..Len(imports) /\ Len(imports) \in Nat
    BY <1>0, ImportsRows
  <1>4. row \in ImportRow
    <2>1. q.evidence.status \in ImportStatuses
      BY <1>2 DEF Valid, ImportStatuses
    <2>2. q.evidence.tickets \in TicketEvidence
      BY <1>2, ImportsAssumption DEF ImportQuote
    <2>3. i \in Nat
      BY <1>0, ImportsRows
    <2> QED BY <2>1, <2>2, <2>3 DEF ImportRow
  <1>5. /\ imports' \in Seq(ImportRow) /\ Len(imports') = n
        /\ \A m \in DOMAIN imports : imports'[m] = imports[m]
        /\ imports'[n] = row
        /\ DOMAIN imports' = DOMAIN imports \cup {n} /\ n \notin DOMAIN imports
    <2>1. imports \in Seq(ImportRow)
      BY <1>0 DEF ImportsTyped
    <2>2. /\ imports' \in Seq(ImportRow) /\ Len(imports') = Len(imports) + 1
          /\ \A m \in 1..Len(imports) : imports'[m] = imports[m]
          /\ imports'[Len(imports) + 1] = row
      BY <1>1, <1>4, <2>1, AppendProperties
    <2>3. DOMAIN imports' = 1..(Len(imports) + 1)
      BY <2>2, LenProperties
    <2> QED BY <1>3, <2>2, <2>3
  <1>6. ImportInOrder(imports', n)
    <2>1. /\ row.quote = i /\ row.status = q.evidence.status
          /\ row.tickets = q.evidence.tickets
      OBVIOUS
    <2>2. CASE q.evidence.status = "confirmed"
      <3>1. row.charged /\ row.tickets = "all"
        BY <1>2, <2>2 DEF Valid, AllTicketed
      <3> QED BY <1>5, <2>1, <2>2, <3>1 DEF ImportInOrder
    <2>3. CASE q.evidence.status # "confirmed"
      <3>1. ~row.charged /\ row.tickets = "none"
        BY <1>2, <2>3 DEF Valid
      <3> QED BY <1>5, <2>1, <2>3, <3>1 DEF ImportInOrder
    <2> QED BY <2>2, <2>3
  <1>7. \A m \in DOMAIN imports : ImportInOrder(imports', m)
    BY <1>0, <1>5 DEF ImportInOrder
  <1>8. funds' \in [Agencies -> Wallet] /\ Captured(funds', prepared, imports')
    <2>1. IF imports'[n].status = "confirmed"
          THEN Charge(prepared[imports'[n].quote].agency, prepared[imports'[n].quote].payable)
          ELSE funds' = funds
      BY <1>1, <1>5
    <2> PICK w : w = imports'
      OBVIOUS
    <2>2. w \in Seq(ImportRow) /\ n \in DOMAIN w /\ DOMAIN w = DOMAIN imports \cup {n}
          /\ (\A m \in DOMAIN imports : m # n => w[m] = imports[m])
          /\ n \notin DOMAIN imports /\ w[n].quote \in DOMAIN prepared
      BY <1>5
    <2>3. IF w[n].status = "confirmed"
          THEN Charge(prepared[w[n].quote].agency, prepared[w[n].quote].payable)
          ELSE funds' = funds
      BY <2>1
    <2> QED BY <2>2, <2>3, RowPaid
  <1>9. answers' \in [Admins \X Requests -> 0..Len(imports')]
    <2>1. answers \in [Admins \X Requests -> 0..Len(imports)]
      BY <1>0 DEF ImportsTyped
    <2> QED BY <1>1, <1>3, <1>5, <2>1
  <1>10. ImportsTyped'
    BY <1>0, <1>1, <1>5, <1>8, <1>9 DEF ImportsTyped, worldVars
  <1>11. ImportedOnce'
    <2>1. \A m \in DOMAIN imports : prepared[imports[m].quote].booking # q.booking
      BY <1>1 DEF NotImported
    <2> QED BY <1>0, <1>1, <1>5, <2>1 DEF ImportedOnce
  <1>12. AnsweredOnce'
    <2> DEFINE S(m) == {ar \in Admins \X Requests : answers[ar] = m}
               T(m) == {ar \in Admins \X Requests : answers'[ar] = m}
    <2>1. answers \in [Admins \X Requests -> 0..Len(imports)]
      BY <1>0 DEF ImportsTyped
    <2>2. <<a, request>> \in Admins \X Requests
      OBVIOUS
    <2>3. T(n) = {<<a, request>>}
      BY <1>1, <1>3, <2>1, <2>2
    <2>4. ASSUME NEW m \in DOMAIN imports
          PROVE  T(m) = S(m)
      <3>1. m # 0 /\ m # n
        BY <1>3
      <3>2. ASSUME NEW ar \in Admins \X Requests
            PROVE  answers'[ar] = m <=> answers[ar] = m
        <4>1. CASE ar = <<a, request>>
          BY <1>1, <2>1, <3>1, <4>1
        <4>2. CASE ar # <<a, request>>
          BY <1>1, <2>1, <4>2
        <4> QED BY <4>1, <4>2
      <3> QED BY <3>2
    <2>5. \A m \in DOMAIN imports : \E x \in Admins \X Requests : S(m) = {x}
      BY <1>0 DEF AnsweredOnce
    <2>6. \A m \in DOMAIN imports' : \E x \in Admins \X Requests : T(m) = {x}
      BY <1>5, <2>2, <2>3, <2>4, <2>5
    <2> QED BY <2>6 DEF AnsweredOnce
  <1>13. QuotesValid'
    BY <1>0, <1>1 DEF QuotesValid
  <1>14. \A m \in DOMAIN imports' : ImportInOrder(imports, m)'
    BY <1>1, <1>5, <1>6, <1>7 DEF ImportInOrder
  <1>15. Captured(funds, prepared, imports)'
    BY <1>1, <1>8
  <1>16. ImportsInvariant'
    BY <1>10, <1>11, <1>12, <1>13, <1>14, <1>15 DEF ImportsInvariant
  <1>17. row.quote = i /\ (row.charged <=> q.evidence.status = "confirmed")
    OBVIOUS
  <1> QED BY <1>5, <1>16, <1>17

LEMMA StatusStep ==
    ASSUME ImportsInvariant,
           NEW n \in DOMAIN imports, NEW status \in {"confirmed", "cancelled", "expired"},
           NEW expected, NEW tickets \in TicketEvidence,
           StatusChanged(n, expected, status, tickets)
    PROVE  /\ ImportsInvariant'
           /\ imports[n].status = "on-hold" /\ DOMAIN imports' = DOMAIN imports
           /\ imports'[n].quote = imports[n].quote
           /\ \A m \in DOMAIN imports : m # n => imports'[m] = imports[m]
  <1>0. /\ ImportsTyped /\ QuotesValid /\ ImportedOnce /\ AnsweredOnce
        /\ \A m \in DOMAIN imports : ImportInOrder(imports, m)
    BY DEF ImportsInvariant
  <1>1. imports[n] \in ImportRow /\ imports[n].status = "on-hold"
        /\ ~imports[n].charged /\ imports[n].tickets = "none"
        /\ imports[n].quote \in DOMAIN prepared
    BY <1>0, ImportsRows DEF StatusChanged, ImportInOrder, ImportRow
  <1>2. /\ imports'[n] \in ImportRow
        /\ imports'[n].quote = imports[n].quote /\ imports'[n].status = status
        /\ imports'[n].charged <=> status = "confirmed"
        /\ imports'[n].tickets = IF imports'[n].charged THEN "all" ELSE "none"
    <2>1. CASE status = "confirmed"
      <3> PICK row : row = [imports[n] EXCEPT !.status = status, !.tickets = tickets,
                                              !.version = @ + 1, !.charged = TRUE]
        OBVIOUS
      <3>1. imports'[n] = row
        <4>1. imports' = [imports EXCEPT ![n] = row]
          BY <2>1 DEF StatusChanged
        <4> QED BY <4>1
      <3>2. tickets = "all"
        BY <2>1 DEF StatusChanged, AllTicketed
      <3>3. row = [quote |-> imports[n].quote, status |-> status, tickets |-> tickets,
                   version |-> imports[n].version + 1, charged |-> TRUE]
        BY <1>1 DEF ImportRow
      <3>4. imports[n].quote \in Nat /\ imports[n].version + 1 \in Nat
        BY <1>1 DEF ImportRow
      <3>5. row \in ImportRow
        BY <2>1, <3>3, <3>4 DEF ImportRow, ImportStatuses
      <3> QED BY <2>1, <3>1, <3>2, <3>3, <3>5
    <2>2. CASE status # "confirmed"
      <3>1. imports'[n] = [imports[n] EXCEPT !.status = status, !.version = @ + 1]
        BY <2>2 DEF StatusChanged
      <3> PICK row : row = imports'[n]
        OBVIOUS
      <3>3. /\ row = [quote |-> imports[n].quote, status |-> status,
                      tickets |-> imports[n].tickets, version |-> imports[n].version + 1,
                      charged |-> imports[n].charged]
        BY <1>1, <3>1 DEF ImportRow
      <3>4. imports[n].quote \in Nat /\ imports[n].version + 1 \in Nat
            /\ imports[n].tickets \in TicketEvidence /\ imports[n].charged \in BOOLEAN
        BY <1>1 DEF ImportRow
      <3>5. row \in ImportRow
        BY <3>3, <3>4 DEF ImportRow, ImportStatuses
      <3> QED BY <1>1, <2>2, <3>3, <3>5
    <2> QED BY <2>1, <2>2
  <1>3. UNCHANGED <<worldVars, prepared, lapsed, answers>>
        /\ IF status = "confirmed"
           THEN Charge(prepared[imports[n].quote].agency, prepared[imports[n].quote].payable)
           ELSE funds' = funds
    BY DEF StatusChanged, ConfirmedCharge
  <1>4. /\ DOMAIN imports' = DOMAIN imports
        /\ \A m \in DOMAIN imports : m # n => imports'[m] = imports[m]
    BY DEF StatusChanged
  <1>5. imports' \in Seq(ImportRow) /\ Len(imports') = Len(imports)
    <2>1. DOMAIN imports = 1..Len(imports) /\ Len(imports) \in Nat
          /\ \A m \in DOMAIN imports : imports[m] \in ImportRow
      BY <1>0, ImportsRows
    <2>2. \A m \in DOMAIN imports : imports'[m] \in ImportRow
      BY <1>2, <1>4, <2>1
    <2>3. \E f : f = imports' /\ f = [m \in 1..Len(imports) |-> f[m]]
      BY <1>4, <2>1 DEF StatusChanged
    <2>4. imports' \in [1..Len(imports) -> ImportRow]
      BY <2>1, <2>2, <2>3
    <2> QED BY <2>1, <2>4, LenProperties
  <1>6. \A m \in DOMAIN imports : ImportInOrder(imports', m)
    BY <1>0, <1>1, <1>2, <1>4 DEF ImportInOrder
  <1>7. funds' \in [Agencies -> Wallet] /\ Captured(funds', prepared, imports')
    <2> PICK w : w = imports'
      OBVIOUS
    <2>1. w \in Seq(ImportRow) /\ n \in DOMAIN w /\ DOMAIN w = DOMAIN imports \cup {n}
          /\ (\A m \in DOMAIN imports : m # n => w[m] = imports[m])
          /\ imports[n].status # "confirmed" /\ w[n].quote \in DOMAIN prepared
      BY <1>1, <1>2, <1>4, <1>5
    <2>2. IF w[n].status = "confirmed"
          THEN Charge(prepared[w[n].quote].agency, prepared[w[n].quote].payable)
          ELSE funds' = funds
      BY <1>2, <1>3, <1>4
    <2> QED BY <2>1, <2>2, RowPaid
  <1>8. ImportsTyped'
    BY <1>0, <1>3, <1>5, <1>7 DEF ImportsTyped, worldVars
  <1>9. \A m \in DOMAIN imports : imports'[m].quote = imports[m].quote
    BY <1>2, <1>4
  <1>10. ImportedOnce' /\ AnsweredOnce' /\ QuotesValid'
    BY <1>0, <1>3, <1>4, <1>9 DEF ImportedOnce, AnsweredOnce, QuotesValid
  <1>11. \A m \in DOMAIN imports' : ImportInOrder(imports, m)'
    BY <1>3, <1>4, <1>6 DEF ImportInOrder
  <1>12. Captured(funds, prepared, imports)'
    BY <1>3, <1>7
  <1>13. ImportsInvariant'
    BY <1>8, <1>10, <1>11, <1>12 DEF ImportsInvariant
  <1> QED BY <1>1, <1>2, <1>4, <1>13

\* What is charged on import was authorized: the authorized quote is still fresh,
\* and says of its booking what the imported one says.
LEMMA ImportReviewed ==
    ASSUME ImportsInvariant,
           NEW a \in Admins, NEW i \in DOMAIN prepared, NEW request \in Requests,
           Imported(a, i, request),
           prepared[i].evidence.status = "confirmed", prepared[i].booking \notin Manual
    PROVE  Reviewed(prepared[i])
  <1>1. ChargeAuthorized(a, prepared[i])
    BY DEF Imported
  <1>2. PICK j \in Fresher :
            prepared[j].authorized /\ Fingerprint(prepared[j]) = Fingerprint(prepared[i])
    BY <1>1 DEF ChargeAuthorized
  <1>3. j \in DOMAIN prepared /\ j > lapsed
    BY <1>2, ImportsRows DEF ImportsInvariant, ImportsTyped, Fresher
  <1>4. prepared[i] \in ImportQuote /\ prepared[j] \in ImportQuote
    BY <1>3, ImportsRows DEF ImportsInvariant
  <1>5. SameQuote(prepared[j], prepared[i])
    BY <1>2, <1>4 DEF Fingerprint, ImportQuote, SameQuote
  <1> QED BY <1>2, <1>3, <1>5 DEF SameQuote, Reviewed

LEMMA ImportsStep == ImportsInvariant /\ [ImportsNext]_importsVars => ImportsInvariant'
  <1> SUFFICES ASSUME ImportsInvariant, [ImportsNext]_importsVars PROVE ImportsInvariant'
    OBVIOUS
  <1> QED BY WorldImports, PreparedStep, AuthorizeStep, ImportedStep, StatusStep DEF ImportsNext

\* The parts of ChargedAsReviewed that are about a step.
LEMMA ImportsKeep ==
    ASSUME ImportsInvariant, [ImportsNext]_importsVars
    PROVE  /\ \A n \in DOMAIN imports :
                 /\ imports'[n].quote = imports[n].quote
                 /\ imports[n].status # "on-hold" => imports'[n] = imports[n]
           /\ \A n \in DOMAIN imports' \ DOMAIN imports :
                 imports'[n].charged /\ prepared[imports'[n].quote].booking \notin Manual
                     => Reviewed(prepared[imports'[n].quote])
  <1>1. CASE imports' = imports
    BY <1>1
  <1>2. ASSUME NEW a \in Admins, NEW i \in DOMAIN prepared, NEW request \in Requests,
               Imported(a, i, request)
        PROVE  /\ \A n \in DOMAIN imports : imports'[n] = imports[n]
               /\ \A n \in DOMAIN imports' \ DOMAIN imports :
                     imports'[n].charged /\ prepared[imports'[n].quote].booking \notin Manual
                         => Reviewed(prepared[imports'[n].quote])
    <2>1. /\ DOMAIN imports' = DOMAIN imports \cup {Len(imports) + 1}
          /\ \A n \in DOMAIN imports : imports'[n] = imports[n]
          /\ imports'[Len(imports) + 1].quote = i
          /\ imports'[Len(imports) + 1].charged <=> prepared[i].evidence.status = "confirmed"
      BY <1>2, ImportedStep
    <2>2. prepared[i].evidence.status = "confirmed" /\ prepared[i].booking \notin Manual
              => Reviewed(prepared[i])
      BY <1>2, ImportReviewed
    <2> QED BY <2>1, <2>2
  <1>3. ASSUME NEW n \in DOMAIN imports, NEW status \in {"confirmed", "cancelled", "expired"},
               NEW expected, NEW tickets \in TicketEvidence,
               StatusChanged(n, expected, status, tickets)
        PROVE  /\ DOMAIN imports' = DOMAIN imports
               /\ \A m \in DOMAIN imports :
                     /\ imports'[m].quote = imports[m].quote
                     /\ imports[m].status # "on-hold" => imports'[m] = imports[m]
    BY <1>3, StatusStep
  <1>4. \/ imports' = imports
        \/ \E a \in Admins, i \in DOMAIN prepared, request \in Requests : Imported(a, i, request)
        \/ \E n \in DOMAIN imports, status \in {"confirmed", "cancelled", "expired"} :
              \E expected \in 1..imports[n].version, tickets \in TicketEvidence :
                 StatusChanged(n, expected, status, tickets)
    BY ZenonT(90) DEF ImportsNext, importsVars, RuleChanges, Moves, Deposited, Freezes, QuoteLapses,
           Prepared, AuthorizeCharge
  <1> QED BY <1>1, <1>2, <1>3, <1>4

\* Whoever prepares, authorizes, imports and confirms in whatever order, while
\* wallets, rules and homes change and quotes lapse: a booking is imported once,
\* by one request, and each agency pays exactly what its confirmed imports were
\* quoted at, on import only what a fresh second look authorized.
THEOREM ImportsChargedAsReviewed == ImportsSpec => ChargedAsReviewedAlways
  <1>1. ImportsInit => ImportsInvariant
    BY InitImports
  <1>2. ImportsInvariant /\ [ImportsNext]_importsVars => ImportsInvariant'
    BY ImportsStep
  <1>3. ImportsInvariant => ImportsTypeOK /\ ImportsPaid
    BY PaidPromised
  <1>4. ImportsInvariant /\ ImportsTypeOK' /\ ImportsPaid' /\ [ImportsNext]_importsVars
            => [ChargedAsReviewed]_importsVars
    BY ImportsKeep DEF ChargedAsReviewed
  <1> QED BY <1>1, <1>2, <1>3, <1>4, PTL DEF ImportsSpec, ChargedAsReviewedAlways

=============================================================================
