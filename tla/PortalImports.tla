---------------------------- MODULE PortalImports ----------------------------
(***************************************************************************)
(* Bookings made elsewhere and imported by a superadmin                    *)
(* (src/portal_imports.rs, portal_imports/pricing.rs): what was read is    *)
(* priced and prepared as a quote, a confirmed one is authorized by a      *)
(* second look that found the same, and the import charges the wallet of   *)
(* the assignee's agency.                                                  *)
(*                                                                         *)
(* Every command is one transaction under the authority lock.  What the    *)
(* superadmin enters or a supplier returns may differ each time it is read.*)
(* A quote is named by its number.  References that a booking of this      *)
(* service has already are refused and left out, as are the commands that  *)
(* only read, add itinerary details or note a legacy cost.                 *)
(***************************************************************************)
EXTENDS Naturals, Sequences, FiniteSets, FiniteSetsExt

CONSTANTS
    Admins,        \* superadmins
    Bookings,      \* provider and supplier reference
    Manual,        \* those entered by hand: no supplier, no pricing by rule
    Assignees,     \* portal users an import is made for
    Agencies,      \* b2b agencies
    Evidence,      \* what is read: [status, tickets], the lifecycle and for
                   \* which passengers there is a ticket number
    Payables,      \* amounts
    Requests,      \* request ids of the portal
    MaxPrepared,   \* bound: quotes
    MaxBalance     \* bound: what an agency is given in all

TicketEvidence == {"none", "some", "all"}

ASSUME ImportsAssumption ==
    /\ Manual \subseteq Bookings /\ Payables \subseteq Nat \ {0}
    /\ \A e \in Evidence : e.tickets \in TicketEvidence
    /\ MaxPrepared \in Nat /\ MaxBalance \in Nat

VARIABLES
    selling,    \* what the rules and the tier make of a booking's fare today
    home,       \* agency of each assignee
    funds,      \* wallets: available, captured by imports, frozen or not
    prepared,   \* portal_import_quotes, oldest first
    lapsed,     \* how many of them are older than ten minutes
    imports,    \* portal_import_bookings, oldest first
    answers     \* portal_import_requests

worldVars == <<selling, home>>
importsVars == <<worldVars, funds, prepared, lapsed, imports, answers>>

Fresher == (lapsed + 1)..Len(prepared)

-----------------------------------------------------------------------------
(* The world.                                                              *)

\* price: what a fare comes to for its assignee, by the rules, the tier and the
\* share of today.
RulePrice(r) == selling[r]

RuleChanges(r, amount) ==
    /\ selling' = [selling EXCEPT ![r] = amount]
    /\ UNCHANGED <<home, funds, prepared, lapsed, imports, answers>>

Moves(u, g) ==
    /\ home' = [home EXCEPT ![u] = g]
    /\ UNCHANGED <<selling, funds, prepared, lapsed, imports, answers>>

Deposited(g) ==
    /\ funds[g].available + funds[g].captured < MaxBalance
    /\ funds' = [funds EXCEPT ![g].available = @ + 1]
    /\ UNCHANGED <<worldVars, prepared, lapsed, imports, answers>>

Freezes(g) ==
    /\ funds' = [funds EXCEPT ![g].frozen = ~@]
    /\ UNCHANGED <<worldVars, prepared, lapsed, imports, answers>>

\* Ten minutes after it was prepared, a quote is worth nothing any more.
QuoteLapses ==
    /\ lapsed < Len(prepared)
    /\ lapsed' = lapsed + 1
    /\ UNCHANGED <<worldVars, funds, prepared, imports, answers>>

-----------------------------------------------------------------------------
(* Commands.                                                               *)

Affordable(g, amount) == ~funds[g].frozen /\ funds[g].available >= amount

\* charge: reserve and settle, in the transaction of the command.
Charge(g, amount) ==
    /\ Affordable(g, amount)
    /\ funds' = [funds EXCEPT ![g].available = @ - amount, ![g].captured = @ + amount]

\* BUG: the amounts are not part of what is compared.
FingerprintWithoutAmount(q) == [q EXCEPT !.authorized = FALSE, !.payable = 0]

\* fingerprint, of everything but the moment it was read; actors are compared
\* beside it.
Fingerprint(q) == [q EXCEPT !.authorized = FALSE]

\* evidence: a ticket number for every passenger.
AllTicketed(tickets) == tickets = "all"

\* validate: a confirmed booking has its tickets, any other has none.
Valid(e) ==
    /\ e.status \in {"on-hold", "confirmed", "cancelled", "expired"}
    /\ IF e.status = "confirmed" THEN AllTicketed(e.tickets) ELSE e.tickets = "none"

\* prepare: a supplier's booking is priced again, and must come to what the
\* portal calculated.
Prepared(a, r, u, e, amount, authorize) ==
    /\ Len(prepared) < MaxPrepared
    /\ Valid(e)
    /\ r \notin Manual => amount = RulePrice(r)
    /\ authorize => e.status = "confirmed"
    /\ prepared' = Append(prepared,
          [actor |-> a, booking |-> r, assignee |-> u, agency |-> home[u],
           evidence |-> e, payable |-> amount, authorized |-> authorize])
    /\ UNCHANGED <<worldVars, funds, lapsed, imports, answers>>

\* authorize: a second quote of the same admin found the same, and the wallet
\* could pay, unless exactly this was imported and paid before.
AuthorizeCharge(a, i, j) ==
    LET q == prepared[i] IN
    /\ {i, j} \subseteq Fresher
    /\ q.actor = a /\ Fingerprint(prepared[j]) = Fingerprint(q)
    /\ (/\ q.evidence.status = "confirmed"
        /\ \A n \in DOMAIN imports :
              imports[n].charged => Fingerprint(prepared[imports[n].quote]) # Fingerprint(q))
          => Affordable(q.agency, q.payable)
    /\ prepared' = [prepared EXCEPT ![i].authorized = TRUE]
    /\ UNCHANGED <<worldVars, funds, lapsed, imports, answers>>

\* BUG: only the request is looked at.
NeverImported(r) == TRUE

NotImported(r) == \A n \in DOMAIN imports : prepared[imports[n].quote].booking # r

\* BUG: any authorization of the admin will do.
AnyAuthorization(a, q) == \E j \in Fresher : prepared[j].authorized /\ prepared[j].actor = a

\* The charge of a supplier's booking is authorized by a quote that is still
\* fresh, of the same admin and of exactly this.
ChargeAuthorized(a, q) ==
    \E j \in Fresher : prepared[j].authorized /\ Fingerprint(prepared[j]) = Fingerprint(q) /\ q.actor = a

\* import: a request that was answered is answered again from its fingerprint;
\* a new one imports the booking, charged if and only if it is confirmed.
Imported(a, i, request) ==
    LET q == prepared[i]
        charged == q.evidence.status = "confirmed"
    IN /\ q.actor = a /\ answers[a, request] = 0
       /\ i \in Fresher /\ home[q.assignee] = q.agency
       /\ charged /\ q.booking \notin Manual => ChargeAuthorized(a, q)
       /\ NotImported(q.booking)
       /\ IF charged THEN Charge(q.agency, q.payable) ELSE UNCHANGED funds
       /\ imports' = Append(imports,
             [quote |-> i, status |-> q.evidence.status, tickets |-> q.evidence.tickets,
              version |-> 1, charged |-> charged])
       /\ answers' = [answers EXCEPT ![<<a, request>>] = Len(imports) + 1]
       /\ UNCHANGED <<worldVars, prepared, lapsed>>

\* BUG: a booking is paid for when it is imported, not when it is confirmed.
ConfirmedFree(q) == UNCHANGED funds

\* The amount that was imported is charged.
ConfirmedCharge(q) == Charge(q.agency, q.payable)

\* status: a booking on hold is confirmed, cancelled or expired by somebody who
\* saw its present version; confirming it needs the tickets and charges it.
StatusChanged(n, expected, status, tickets) ==
    /\ imports[n].version = expected /\ imports[n].status = "on-hold"
    /\ IF status = "confirmed"
       THEN /\ AllTicketed(tickets)
            /\ ConfirmedCharge(prepared[imports[n].quote])
            /\ imports' = [imports EXCEPT ![n] =
                  [imports[n] EXCEPT !.status = status, !.tickets = tickets,
                                     !.version = @ + 1, !.charged = TRUE]]
       ELSE /\ imports' = [imports EXCEPT ![n].status = status, ![n].version = @ + 1]
            /\ UNCHANGED funds
    /\ UNCHANGED <<worldVars, prepared, lapsed, answers>>

-----------------------------------------------------------------------------

ImportsInit ==
    /\ selling \in [Bookings -> Payables]
    /\ home \in [Assignees -> Agencies]
    /\ funds = [g \in Agencies |-> [available |-> 0, captured |-> 0, frozen |-> FALSE]]
    /\ prepared = << >> /\ lapsed = 0 /\ imports = << >>
    /\ answers = [ar \in Admins \X Requests |-> 0]

ImportsNext ==
    \/ \E r \in Bookings, amount \in Payables : RuleChanges(r, amount)
    \/ \E u \in Assignees, g \in Agencies : Moves(u, g)
    \/ \E g \in Agencies : Deposited(g) \/ Freezes(g)
    \/ QuoteLapses
    \/ \E a \in Admins :
          \/ \E r \in Bookings, u \in Assignees, e \in Evidence, amount \in Payables,
                authorize \in BOOLEAN : Prepared(a, r, u, e, amount, authorize)
          \/ \E i \in DOMAIN prepared :
                \/ \E j \in DOMAIN prepared : AuthorizeCharge(a, i, j)
                \/ \E request \in Requests : Imported(a, i, request)
    \/ \E n \in DOMAIN imports, status \in {"confirmed", "cancelled", "expired"} :
          \E expected \in 1..imports[n].version, tickets \in TicketEvidence :
             StatusChanged(n, expected, status, tickets)

ImportsSpec == ImportsInit /\ [][ImportsNext]_importsVars

-----------------------------------------------------------------------------
(* Properties.                                                             *)

\* The value space of the tables.
ImportsTypeOK ==
    /\ selling \in [Bookings -> Payables] /\ home \in [Assignees -> Agencies]
    /\ funds \in [Agencies -> [available : Nat, captured : Nat, frozen : BOOLEAN]]
    /\ lapsed \in 0..Len(prepared)
    /\ \A i \in DOMAIN prepared : prepared[i].payable \in Payables
    /\ answers \in [Admins \X Requests -> 0..Len(imports)]

PaidBy(g) ==
    {n \in DOMAIN imports : imports[n].status = "confirmed" /\ prepared[imports[n].quote].agency = g}

\* What was imported is imported once, by one request, whoever prepared it as
\* often as he liked; and each agency has paid exactly what its confirmed
\* imports, which have all their tickets, were quoted at
\* (docs/DASHBOARD_SECTIONS.md:26-28).
ImportsPaid ==
    /\ \A m, n \in DOMAIN imports :
          prepared[imports[m].quote].booking = prepared[imports[n].quote].booking => m = n
    /\ \A n \in DOMAIN imports :
          /\ imports[n].charged <=> imports[n].status = "confirmed"
          /\ imports[n].tickets = IF imports[n].charged THEN "all" ELSE "none"
          /\ Cardinality({ar \in Admins \X Requests : answers[ar] = n}) = 1
    /\ \A g \in Agencies :
          funds[g].captured =
             MapThenSumSet(LAMBDA n : prepared[imports[n].quote].payable, PaidBy(g))

Reviewed(q) ==
    \E j \in DOMAIN prepared :
       /\ j > lapsed /\ prepared[j].authorized
       /\ \A field \in {"actor", "booking", "assignee", "agency", "evidence", "payable"} :
             prepared[j][field] = q[field]

\* Money leaves a wallet only as its admin has seen it: a supplier's booking is
\* charged on import only for what a fresh quote of the same admin, authorized,
\* says of the same passengers, agency and amount; later only by confirming it,
\* once, at the amount it was imported with.  A final status is final.
ChargedAsReviewed ==
    /\ ImportsTypeOK' /\ ImportsPaid'
    /\ \A n \in DOMAIN imports :
          /\ imports'[n].quote = imports[n].quote
          /\ imports[n].status # "on-hold" => imports'[n] = imports[n]
    /\ \A n \in DOMAIN imports' \ DOMAIN imports :
          LET q == prepared[imports'[n].quote] IN
          imports'[n].charged /\ q.booking \notin Manual => Reviewed(q)

ChargedAsReviewedAlways == [][ChargedAsReviewed]_importsVars

=============================================================================
