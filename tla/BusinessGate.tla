----------------------------- MODULE BusinessGate -----------------------------
(***************************************************************************)
(* How the portal acts for a person (src/identity/business.rs).             *)
(*                                                                         *)
(* A command is admitted under the authority lock by the rights of its      *)
(* actor; whom it concerns and, for secrets, which client are remembered.   *)
(* The transaction ends, the provider is asked about those people, and the  *)
(* handler of the command works in transactions of its own, each of which   *)
(* starts with business::begin: what was remembered must still stand.       *)
(*                                                                         *)
(* A search session is a token of one person and one state of its rights.   *)
(* It is looked up without the lock, checked under it after the provider    *)
(* was asked, and once more where it accepts a price.                       *)
(*                                                                         *)
(* Every transaction takes the authority lock, so each is one step.  What   *)
(* the handlers do is in the modules of their components; of the clients    *)
(* only what decides admission is kept here.  Any request may be refused or *)
(* dropped at any point: the same as no further step.                       *)
(***************************************************************************)
EXTENDS Naturals

CONSTANTS
    Principals,     \* portal_users
    FirstRole,      \* the role of each at the start
    AgencyOwner,    \* the owner of the agency of b2b and b2b_sub users
    HandedOut,      \* roles that administrators hand out
    Executions,     \* requests to business/execute
    SearchUses      \* requests that come with a search session

Staff == {"superadmin", "admin", "staff_account", "staff_support", "staff_media"}
PortalRoles == Staff \cup {"b2b", "b2b_sub", "customer"}

Traders == {p \in Principals : FirstRole[p] \in {"b2b", "b2b_sub"}}
AgencyHeads == {p \in Principals : FirstRole[p] = "b2b"}

\* An agency has one owner, and nobody enters or leaves an agency by a change
\* of role (operations::change).
ASSUME PrincipalsAssumption ==
    /\ FirstRole \in [Principals -> PortalRoles]
    /\ AgencyOwner \in [Traders -> AgencyHeads]
    /\ \A h \in AgencyHeads : AgencyOwner[h] = h
    /\ HandedOut \subseteq Staff \cup {"customer"}

VARIABLES
    standing,   \* portal_users: role, status and authorization_version
    erased,     \* portal_identity_provider_state.deleted
    trading,    \* owners whose agency is active
    grant,      \* api_clients by owner: rights and management_version
    execution,  \* the context of each request and how far it came
    session,    \* portal_identity_search_sessions, the last one of a person
    search      \* requests with a session: what they read of it

gateVars == <<standing, erased, trading, grant, execution, session, search>>

\* Rights of a client: it is active, may search, and manages its API (it is of
\* the enterprise tier and api_management_enabled).
Rights == {"active", "search", "managed"}

NoClient == [rights |-> {}, version |-> 0]
NoSession == [version |-> 0, staff |-> FALSE]
NoSearch == [at |-> "idle"]
NoExecution == [at |-> "idle"]

GateInit ==
    /\ standing = [p \in Principals |->
                      [role |-> FirstRole[p], status |-> "active", version |-> 1]]
    /\ erased = {}
    /\ trading = AgencyHeads
    /\ grant \in [AgencyHeads -> {NoClient, [rights |-> Rights, version |-> 1]}]
    /\ execution = [x \in Executions |-> NoExecution]
    /\ session = [p \in Principals |-> NoSession]
    /\ search = [u \in SearchUses |-> NoSearch]

-----------------------------------------------------------------------------
(* Authority *)

Role(p) == standing[p].role
Manager(p) == Role(p) \in {"superadmin", "admin"}
Present(p) == standing[p].status = "active" /\ p \notin erased

\* principal: an active user that is not a customer; in an agency, it and its
\* owner are active too.
Entitled(p) ==
    /\ Present(p) /\ Role(p) # "customer"
    /\ p \in Traders => AgencyOwner[p] \in trading /\ Present(AgencyOwner[p])

\* BUG: a person is the same as long as it has the role it had.
SameAuthorityByRole(p, seen) == Role(p) = seen.role

\* same_authority.  A person keeps its agency.
SameAuthority(p, seen) == Role(p) = seen.role /\ standing[p].version = seen.version

Seen(people) == [p \in people |-> [role |-> Role(p), version |-> standing[p].version]]

\* BUG: only the actor is looked at again.
StandsActor(c) == Entitled(c.actor) /\ SameAuthority(c.actor, c.seen[c.actor])

\* begin: the actor, the people concerned and the clients are as they were.
Stands(c) ==
    /\ \A p \in DOMAIN c.seen : Entitled(p) /\ SameAuthority(p, c.seen[p])
    /\ \A h \in DOMAIN c.pinned : grant[h].version = c.pinned[h]

-----------------------------------------------------------------------------
(* execute: which commands an actor may give, and whom they may concern *)

Linked(h) == grant[h].version > 0

\* target: the owner of an active agency.
Heads(p) == p \in AgencyHeads /\ Entitled(p)

\* Site content, controls, rules of prices and imports; a rule may name an
\* agent, an import its customer.
SettingGranted(kind, actor, others) ==
    CASE kind = "setting"    -> Role(actor) = "superadmin" /\ others = {}
      [] kind = "agent_rule" -> Role(actor) = "superadmin" /\ \E h \in others : Heads(h)
      [] kind = "import"     -> Role(actor) = "superadmin" /\ \A p \in others : Entitled(p)
      [] kind = "receipt"    -> Role(actor) \in {"superadmin", "b2b", "b2b_sub"} /\ others = {}
      [] OTHER               -> FALSE

\* Tickets and the wallet; a request is assigned to somebody, cash is received
\* by somebody.
MoneyGranted(kind, actor, others) ==
    /\ Role(actor) # "staff_media"
    /\ \A p \in others : Entitled(p)
    /\ CASE kind = "money"   -> others = {}
         [] kind = "assign"  ->
               \E p \in others : Role(p) \in {"staff_account", "admin", "superadmin"}
         [] kind = "deposit" -> \E p \in others : Role(p) \in Staff
         [] OTHER            -> FALSE

\* Passengers and drafts: an owner for itself, staff for the owner.
HoldGranted(kind, actor, others) ==
    /\ \A h \in others : Heads(h)
    /\ CASE kind = "passenger" -> Manager(actor) \/ actor \in Traders
         [] kind = "hold"      ->
               /\ others # {}
               /\ Role(actor) = "superadmin" \/ (Role(actor) = "b2b" /\ others = {actor})
         [] OTHER              -> FALSE

\* Clients, tiers and search sessions.
ClientGranted(kind, actor, others) ==
    /\ \A h \in others : Heads(h)
    /\ CASE kind = "session" -> (Manager(actor) \/ actor \in Traders) /\ others = {}
         [] kind = "tier"    -> Manager(actor) /\ others = {}
         [] kind = "secret"  -> \E h \in others :
               /\ Linked(h)
               /\ \/ Role(actor) = "superadmin"
                  \/ /\ Role(actor) = "b2b" /\ actor = h
                     /\ {"active", "managed"} \subseteq grant[h].rights
         [] kind = "open"    -> Role(actor) = "superadmin" /\ others # {}
         [] kind = "update"  -> Manager(actor) /\ \E h \in others : Linked(h)
         [] OTHER            -> FALSE

CommandKinds ==
    {"setting", "agent_rule", "import", "receipt", "money", "assign", "deposit",
     "passenger", "hold", "session", "tier", "secret", "open", "update"}

Granted(kind, actor, others) ==
    \/ SettingGranted(kind, actor, others)
    \/ MoneyGranted(kind, actor, others)
    \/ HoldGranted(kind, actor, others)
    \/ ClientGranted(kind, actor, others)

\* execute, its first transaction.  A command concerns one person at most.
Admit(x, kind, actor, others) ==
    /\ execution[x] = NoExecution
    /\ Entitled(actor) /\ Granted(kind, actor, others)
    /\ execution' = [execution EXCEPT ![x] =
          [at |-> "admitted", kind |-> kind, actor |-> actor, others |-> others,
           seen |-> Seen({actor} \cup others),
           pinned |-> [h \in IF kind = "secret" THEN others ELSE {} |-> grant[h].version]]]
    /\ UNCHANGED <<standing, erased, trading, grant, session, search>>

\* execute, after the provider was asked about the people concerned.
Recheck(x) ==
    /\ execution[x].at = "admitted"
    /\ Stands(execution[x])
    /\ execution' = [execution EXCEPT ![x].at = "checked"]
    /\ UNCHANGED <<standing, erased, trading, grant, session, search>>

\* What a handler leaves of a client: a new one may search, another has the
\* rights it is given.
Opened(h) == grant' = [grant EXCEPT ![h] = [rights |-> {"active", "search"}, version |-> 1]]
Updated(h, rights) ==
    grant' = [grant EXCEPT ![h] = [rights |-> rights, version |-> @.version + 1]]

MaySearch(h) == {"active", "search"} \subseteq grant[h].rights

\* issue_search: the client of the agency is active, or staff has its own.
Issues(p) ==
    /\ ~Manager(p) => MaySearch(AgencyOwner[p])
    /\ session' = [session EXCEPT ![p] =
          [version |-> standing[p].version, staff |-> Manager(p)]]

\* The transaction of the handler; whether a client manages its API is for a
\* superadmin to decide.
Serve(x) ==
    LET c == execution[x] IN
    /\ c.at = "checked" /\ Stands(c)
    /\ execution' = [execution EXCEPT ![x].at = "served"]
    /\ CASE c.kind = "session" -> Issues(c.actor) /\ UNCHANGED grant
         [] c.kind = "open" ->
               /\ \E h \in c.others : ~Linked(h) /\ Opened(h)
               /\ UNCHANGED session
         [] c.kind = "update" ->
               /\ \E h \in c.others, rights \in SUBSET Rights :
                     /\ c.seen[c.actor].role # "superadmin"
                           => ("managed" \in rights <=> "managed" \in grant[h].rights)
                     /\ Updated(h, rights)
               /\ UNCHANGED session
         [] OTHER -> UNCHANGED <<grant, session>>
    /\ UNCHANGED <<standing, erased, trading, search>>

-----------------------------------------------------------------------------
(* Search sessions *)

\* authenticate_search: the row is read without the lock.
FindSession(u, p) ==
    /\ search[u] = NoSearch
    /\ session[p] # NoSession /\ Role(p) # "customer"
    /\ standing[p].status = "active" /\ standing[p].version = session[p].version
    /\ search' = [search EXCEPT ![u] = [at |-> "found", actor |-> p, token |-> session[p]]]
    /\ UNCHANGED <<standing, erased, trading, grant, execution, session>>

\* BUG: the rights the session was issued for were compared when it was read.
TokenCurrentThen(p, token) == token.staff = Manager(p)

TokenCurrent(p, token) ==
    standing[p].version = token.version /\ token.staff = Manager(p)

\* authenticate_search, after the provider was asked.
Authenticate(u) ==
    LET s == search[u] IN
    /\ s.at = "found"
    /\ Entitled(s.actor) /\ TokenCurrent(s.actor, s.token)
    /\ ~s.token.staff => MaySearch(AgencyOwner[s.actor])
    /\ search' = [search EXCEPT ![u] =
          [at |-> "authenticated", actor |-> s.actor, token |-> s.token,
           seen |-> Seen({s.actor}), pinned |-> [h \in {} |-> 0]]]
    /\ UNCHANGED <<standing, erased, trading, grant, execution, session>>

\* accept_search: staff reviews prices and accepts none.
AcceptPrice(u) ==
    /\ search[u].at = "authenticated" /\ ~search[u].token.staff
    /\ Stands(search[u])
    /\ search' = [search EXCEPT ![u].at = "accepted"]
    /\ UNCHANGED <<standing, erased, trading, grant, execution, session>>

-----------------------------------------------------------------------------
(* What changes meanwhile: IdentityAuthority says how *)

\* portal_users_guard bumps authorization_version, agencies::invalidate_members
\* does so for the sub-users of an agency, and identity_revoke_search_sessions
\* deletes the sessions of all of them.
Changed(p, role, status, members) ==
    /\ standing' = [q \in Principals |->
          IF q = p THEN [role |-> role, status |-> status, version |-> standing[q].version + 1]
          ELSE IF q \in members THEN [standing[q] EXCEPT !.version = @ + 1] ELSE standing[q]]
    /\ session' = [q \in Principals |-> IF q \in members \cup {p} THEN NoSession ELSE session[q]]

ChangeRole(p, role) ==
    /\ p \notin Traders /\ role # Role(p) /\ p \notin erased
    /\ Changed(p, role, standing[p].status, {})
    /\ UNCHANGED <<erased, trading, grant, execution, search>>

Members(h) == {p \in Traders \ {h} : AgencyOwner[p] = h}

\* A suspension, by an administrator or because the account is gone at the
\* provider; with an owner its agency and its client go.
Suspend(p, gone) ==
    /\ standing[p].status = "active"
    /\ Changed(p, Role(p), "suspended", Members(p))
    /\ erased' = IF gone THEN erased \cup {p} ELSE erased
    /\ trading' = trading \ {p}
    /\ grant' = [h \in AgencyHeads |->
          IF h = p /\ Linked(h)
          THEN [rights |-> grant[h].rights \ {"active", "managed"},
                version |-> grant[h].version + 1]
          ELSE grant[h]]
    /\ UNCHANGED <<execution, search>>

Reactivate(p) ==
    /\ standing[p].status = "suspended" /\ p \notin erased
    /\ p \in Traders \ AgencyHeads =>
          AgencyOwner[p] \in trading /\ Present(AgencyOwner[p])
    /\ Changed(p, Role(p), "active", Members(p))
    /\ trading' = IF p \in AgencyHeads THEN trading \cup {p} ELSE trading
    /\ UNCHANGED <<erased, grant, execution, search>>

\* An administrator of the older console updates a client or lowers its tier.
UpdateElsewhere(h, rights) ==
    /\ Linked(h)
    /\ "managed" \in rights => "managed" \in grant[h].rights
    /\ Updated(h, rights)
    /\ UNCHANGED <<standing, erased, trading, execution, session, search>>

-----------------------------------------------------------------------------
GateNext ==
    \/ \E x \in Executions :
          \/ \E k \in CommandKinds, a \in Principals :
                Admit(x, k, a, {}) \/ \E p \in Principals : Admit(x, k, a, {p})
          \/ Recheck(x) \/ Serve(x)
    \/ \E u \in SearchUses :
          \/ \E p \in Principals : FindSession(u, p)
          \/ Authenticate(u) \/ AcceptPrice(u)
    \/ \E p \in Principals :
          \/ \E r \in HandedOut : ChangeRole(p, r)
          \/ \E gone \in BOOLEAN : Suspend(p, gone)
          \/ Reactivate(p)
    \/ \E h \in AgencyHeads, rights \in SUBSET Rights : UpdateElsewhere(h, rights)

GateSpec == GateInit /\ [][GateNext]_gateVars

-----------------------------------------------------------------------------
(* Properties *)

GateTypeOK ==
    /\ standing \in [Principals -> [role : PortalRoles, status : {"active", "suspended"},
                                    version : Nat]]
    /\ erased \subseteq Principals /\ trading \subseteq AgencyHeads
    /\ grant \in [AgencyHeads -> [rights : SUBSET Rights, version : Nat]]
    /\ session \in [Principals -> [version : Nat, staff : BOOLEAN]]

Serves(x) == execution[x].at # "served" /\ execution'[x].at = "served"
Accepts(u) == search[u].at # "accepted" /\ search'[u].at = "accepted"

\* A command is carried out by the rights its actor has at that moment, over
\* people and a client that it may concern at that moment, and nothing about
\* them changed since it was admitted; and a price is accepted in a session only
\* by a person, not of the staff, whose rights are those the session was issued
\* for (begin, execute, authenticate_search, accept_search).
ActedByAuthority ==
    /\ GateTypeOK
    /\ \A x \in Executions : Serves(x) =>
          LET c == execution[x] IN
          /\ Entitled(c.actor)
          /\ Granted(c.kind, c.actor, c.others)
          /\ \A p \in {c.actor} \cup c.others : standing[p].version = c.seen[p].version
    /\ \A u \in SearchUses : Accepts(u) =>
          LET s == search[u] IN
          /\ Entitled(s.actor) /\ ~Manager(s.actor)
          /\ standing[s.actor].version = s.token.version

ActedByAuthorityAlways == [][ActedByAuthority]_gateVars

=============================================================================
