------------------------------ MODULE MCService ------------------------------
(* Six small parts of the service that share no state.  A behaviour runs    *)
(* one of their nine machines, chosen at the start.                           *)
EXTENDS Deliveries, SearchAdmission, PortalDrafts, PortalImports, IdentityPapers,
        BusinessGate, TLC

CONSTANTS ann, bob, r1, r2, sup1, sup2, p1, p2, p3, c1, c2, s1, s2, s3, g1, g2,
          cust, trader, clerk, adm1, adm2, root, adm, boss, sub, x1, x2, a1, a2, q1, q2, k2

VARIABLE part

MCMails == {1, 2}
MCPlans == {[p \in People |-> "address"],
            [p \in People |-> IF p = Requester THEN "none" ELSE "address"]}

MCActorOf == s1 :> ann @@ s2 :> ann @@ s3 :> bob
MCRouterOf == s1 :> r1 @@ s2 :> r2 @@ s3 :> r2
MCConnections == <<sup1, sup2>>
MCClientOf == p1 :> c1 @@ p2 :> c1 @@ p3 :> c2

MCContexts ==
    {[tier |-> 1, agent |-> 1], [tier |-> 2, agent |-> 1], [tier |-> 1, agent |-> 2]}

MCEvidence == [status : {"on-hold", "confirmed"}, tickets : {"none", "some", "all"}]

MCRoleOf0 == cust :> "customer" @@ trader :> "b2b" @@ clerk :> "b2b_sub"
                 @@ adm1 :> "admin" @@ adm2 :> "admin"
MCEmployerOf == clerk :> trader

MCFirstRole == root :> "superadmin" @@ adm :> "admin" @@ boss :> "b2b" @@ sub :> "b2b_sub"
MCAgencyOwner == boss :> boss @@ sub :> boss

Versions(controlled) ==
    MapThenSumSet(LAMBDA k : controlled[k].version, DOMAIN controlled)

\* One expansion and three sends, or two of each; operation ids are used in their
\* order.
WalletBound ==
    /\ Len(wallet'.claims) <= 2
    /\ Len(wallet'.sends) <= IF Len(wallet'.claims) = 2 THEN 2 ELSE 3
    /\ a2 \in Asked(wallet') => a1 \in Asked(wallet')

\* One control is changed, of ann or of the first supplier, and a day ends; or
\* there is a third search.  Two searches are under way at once, only the first
\* asks both suppliers, and only it may fail or be lost.  They arrive in their
\* order, and may wait in it as long as they like.
Rules == Versions(control') + Versions(budget')

SearchBound ==
    /\ Rules \in 2..3 /\ (today' > 1 => Rules = 3) /\ (phase'[s3] # "new" => Rules = 2)
    /\ control'[bob].version = 0 /\ budget'[sup2].version = 1
    /\ Cardinality({s \in Searches : phase'[s] \in {"queued", "working", "answering"}}) <= 2
    /\ \A s \in Searches :
          outcome'[s] = "failed" \/ (phase'[s] = "over" /\ outcome'[s] = "pending") => s = s1
    /\ asked'[s2] + asked'[s3] <= 1
    /\ phase'[s2] # "new" => phase'[s1] # "new"
    /\ phase'[s3] # "new" => phase'[s2] # "new"

\* The owner's programs know two contexts, only one offer has prices, and one
\* request is at work once a draft has two.
DraftsBound ==
    /\ Cardinality(seenIn') <= 2
    /\ \A d \in Drafts : Len(quotes'[d]) > 1 => calls'[k2] = NoRequest
    /\ \A s \in Sources : quotes'[s] # << >> =>
          /\ Len(quotes'[s]) = 1 /\ ~quotes'[s][1].accepted
          /\ \A d \in Drafts : quotes'[d] = << >>

\* Manual bookings have one fare, are not authorized and not the first to be
\* prepared; a booking on hold is not left to expire; the second agency is given
\* less, and last.  One of these happens: a wallet is frozen, quotes lapse, both
\* agencies have funds; a manual booking only sees quotes lapse.  Assignees move
\* before the first import, and request ids are used in their order.
Given(g) == funds'[g].available + funds'[g].captured

ImportsBound ==
    /\ \A a \in Admins : answers'[a, q2] # 0 => answers'[a, q1] # 0
    /\ \A r \in Manual : selling'[r] = 1
    /\ \A i \in DOMAIN prepared' :
          prepared'[i].booking \in Manual => i > 1 /\ ~prepared'[i].authorized
    /\ \A n \in DOMAIN imports' : imports'[n].status # "expired"
    /\ Given(g2) <= 1 /\ ~funds'[g2].frozen
    /\ Given(g2) > 0 => Given(g1) = MaxBalance
    /\ prepared' # << >> => Given(g1) > 0
    /\ funds'[g1].frozen => prepared' # << >> /\ funds'[g1].captured = 0 /\ lapsed' = 0
    /\ Given(g2) > 0 => lapsed' = 0 /\ ~funds'[g1].frozen
    /\ (\E i \in DOMAIN prepared' : prepared'[i].booking \in Manual) =>
          Given(g2) = 0 /\ ~funds'[g1].frozen
    /\ selling' # selling => Len(prepared) <= 1
    /\ home' # home => imports = << >>

LogoUsed ==
    \/ logos[trader].version > 0 \/ \E u \in Users : seen[u].kind = "logo"
    \/ \E a \in Assets : assets[a] # NoAsset /\ assets[a].kind = "logo"
OthersUsed ==
    \/ applications[cust].version + profiles[cust].version > 0
    \/ \E u \in Users : seen[u].kind \in {"application", "profile"}
    \/ \E a \in Assets : assets[a] # NoAsset /\ assets[a].kind = "application"

\* The papers of the customer, with one document, or the logo of the agency.  One
\* thing happens beside: an account changes, the first administrator edits the
\* profile or the application is submitted again, unless the second one, who reads
\* once, has read.
Changes == MapThenSumSet(LAMBDA u : accounts[u].version - 1, Users)
Besides ==
    IF cust \in agencies THEN Changes - 2 + profiles[cust].version - 1
    ELSE Changes + profiles[cust].version + IF applications[cust].version > 2 THEN 1 ELSE 0

PapersBound ==
    /\ Besides' <= 1 /\ applications'[cust].version <= 4 /\ logos'[trader].version <= 2
    /\ \A u \in Users \ {cust} : profiles'[u].version + applications'[u].version = 0
    /\ \A u \in Users \ {trader} : logos'[u].version = 0
    /\ cust \in agencies => seen' = seen /\ assets' = assets
    /\ accounts'[adm2].version = 1
    /\ seen'[adm2] # seen[adm2] => seen[adm2] = Unseen
    /\ seen'[adm2] # Unseen => Besides' = 0
    /\ \A u \in Users : seen'[u].kind = "profile" => u = adm1
    /\ \A u \in Users : seen'[u] # Unseen => seen'[u].of \in {cust, trader}
    /\ LogoUsed' => accounts'[cust].version = 1 /\ ~OthersUsed'
    /\ OthersUsed' =>
          /\ Cardinality({a \in Assets : assets'[a] # NoAsset}) <= 1
          /\ \A a \in Assets : assets'[a].state \notin {"unknown", "abandoned"}
          /\ \A u \in Users : accounts'[u].version > 1 => u \in {cust, adm1}

\* The owner of the agency is suspended and comes back, with its sub-user, or the
\* role or access of one administrator changes; a second command changes the
\* client or starts a session, while the first is about a secret or a client
\* and no administrator changes.  The client keeps its right to search.
GateBound ==
    /\ execution'[x1] # NoExecution /\ grant'[boss].version > 1 =>
          execution'[x1].kind \in {"session", "secret", "update"}
    /\ execution'[x1] # NoExecution /\ standing'[sub].version > 2 =>
          execution'[x1].kind \in {"session", "money", "hold"}
    /\ standing'[boss].version <= 3 /\ standing'[sub].version <= 3
    /\ standing'[root].version + standing'[adm].version <= 3
    /\ standing'[boss].version > 1 => standing'[root].version + standing'[adm].version = 2
    /\ grant'[boss].version <= 2
    /\ grant'[boss].version > 0 =>
          grant'[boss].rights \in
             {{"search"}, {"active", "search"}, {"search", "managed"}, Rights}
    /\ execution'[x2] # NoExecution =>
          /\ execution'[x2].kind \in {"update", "open", "session"}
          /\ execution'[x1] # NoExecution => execution'[x1].kind \in {"secret", "open"}
          /\ standing'[root].version + standing'[adm].version = 2
    /\ \A u \in SearchUses : search'[u] # NoSearch => execution'[x1] = NoExecution

MCInit ==
    /\ part \in {"mail", "wallet", "notices", "search", "prices", "drafts", "imports",
                "papers", "gate"}
    /\ DeliveriesInit /\ AdmissionInit /\ DraftsInit /\ ImportsInit /\ PapersInit
    /\ GateInit
    /\ part # "gate" => grant[boss] = NoClient
    /\ owner.context = [tier |-> 1, agent |-> 1]
    /\ \A r \in Bookings : selling[r] = 1
    /\ \A u \in Assignees : home[u] = g1

MCNext ==
    /\ part' = part
    /\ \/ /\ part = "mail" /\ MailNext
          /\ UNCHANGED <<admissionVars, draftsVars, importsVars, papersVars, gateVars>>
       \/ /\ part = "wallet" /\ WalletNext /\ WalletBound
          /\ UNCHANGED <<admissionVars, draftsVars, importsVars, papersVars, gateVars>>
       \/ /\ part = "notices" /\ NoticeNext
          /\ UNCHANGED <<admissionVars, draftsVars, importsVars, papersVars, gateVars>>
       \/ /\ part = "search" /\ SearchNext /\ SearchBound
          /\ UNCHANGED <<deliveriesVars, draftsVars, importsVars, papersVars, gateVars>>
       \/ /\ part = "prices" /\ PriceNext
          /\ UNCHANGED <<deliveriesVars, draftsVars, importsVars, papersVars, gateVars>>
       \/ /\ part = "drafts" /\ DraftsNext /\ DraftsBound
          /\ UNCHANGED <<deliveriesVars, admissionVars, importsVars, papersVars, gateVars>>
       \/ /\ part = "imports" /\ ImportsNext /\ ImportsBound
          /\ UNCHANGED <<deliveriesVars, admissionVars, draftsVars, papersVars, gateVars>>
       \/ /\ part = "papers" /\ PapersNext /\ PapersBound
          /\ UNCHANGED <<deliveriesVars, admissionVars, draftsVars, importsVars, gateVars>>
       \/ /\ part = "gate" /\ GateNext /\ GateBound
          /\ UNCHANGED <<deliveriesVars, admissionVars, draftsVars, importsVars, papersVars>>

MCSpec ==
    MCInit /\ [][MCNext]_<<part, deliveriesVars, admissionVars, draftsVars, importsVars,
                          papersVars, gateVars>>

=============================================================================
