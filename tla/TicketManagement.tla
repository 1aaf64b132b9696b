-------------------------- MODULE TicketManagement --------------------------
(***************************************************************************)
(* Refunds, reissues and voids of the tickets of one booking               *)
(* (src/wallet/ticket_management): a customer or an API client asks, the   *)
(* staff publishes a quotation, the customer confirms it before its        *)
(* deadline, finance settles it.  Every command is one transaction under   *)
(* the identity authority lock and the row of the booking, so it is one    *)
(* action.                                                                 *)
(*                                                                         *)
(* The wallet is used through what it promises (WalletPromise, which       *)
(* WalletLedger implements): a payment is named by its subject, the issue  *)
(* of the booking or a quotation, and not by its operation id.  That it may*)
(* refuse a hold, like every other refusal, is a step that is not taken.   *)
(***************************************************************************)
EXTENDS Integers, FiniteSets, Sequences, FiniteSetsExt

CONSTANTS
    Requests,     \* ticket_management_requests ids, chosen by the requester
    Passengers,   \* passenger_index of the booking
    Price,        \* what each of them was charged, in minor units
    Fees,         \* sums of the fees a quotation may ask
    Differences,  \* fare differences it may ask of a ticket
    MaxQuotes,    \* bound of the quotations of a request
    Funds,        \* what the account can spend besides the booking
    Admins,       \* admin and superadmin
    Accountants,  \* staff_account: settle only what they are assigned
    NoRequest,    \* an entitlement that no reissue made
    NoQuote,
    NoUser,
    Issue,        \* the ticket_issue operation that paid for the booking
    Payer,        \* its wallet account
    Nobody

ASSUME PriceAssumption ==
    /\ IsFiniteSet(Passengers) /\ Passengers \subseteq Nat
    /\ Price \in [Passengers -> Nat \ {0}]
ASSUME QuoteAssumption ==
    Fees \subseteq Nat /\ Differences \subseteq Nat /\ MaxQuotes \in Nat
\* One history has finitely many requests; NoRequest and NoQuote are the NULLs
\* of their columns.
ASSUME RequestAssumption ==
    /\ IsFiniteSet(Requests) /\ NoRequest \notin Requests
    /\ NoQuote \notin Requests \X (1..MaxQuotes)
ASSUME FundsAssumption == Funds \in Nat

VARIABLES
    rows,          \* ticket_management_requests
    entitlements,  \* ticket_management_entitlements
    claims,        \* ticket_management_claims: <<entitlement, request>>
    quotes,        \* ticket_management_quotes
    elapsed,       \* the quotations whose confirmation deadline passed
    view,          \* what finance has on its screen of an approved request
    spendable, purchase   \* the wallet, see WalletPromise

deskVars == <<rows, entitlements, claims, quotes>>
worldVars == <<elapsed, view>>
walletVars == <<spendable, purchase>>
managementVars == <<deskVars, worldVars, walletVars>>

Kinds == {"refund", "reissue", "void"}
QuoteIds == Requests \X (1..MaxQuotes)
Payments == {Issue} \cup QuoteIds
Total(f) == MapThenSumSet(LAMBDA x : f[x], DOMAIN f)

Wallet == INSTANCE WalletPromise WITH
    Accounts <- {Payer},
    frozen <- {},
    Purchases <- Payments,
    MaxMinor <- Funds + Total(Price)

-----------------------------------------------------------------------------
(* Rows *)

NotAsked ==
    [kind |-> "none", selected |-> {}, status |-> "none", outcome |-> "none",
     version |-> 0, active |-> NoQuote, approved |-> NoQuote,
     hold |-> NoQuote, assignee |-> NoUser]

NoTerms == [direction |-> "none", amount |-> 0, extra |-> <<>>]

Screen(row) == [version |-> row.version, approved |-> row.approved]

Outcome(kind) ==
    CASE kind = "refund" -> "refunded"
      [] kind = "reissue" -> "reissued"
      [] kind = "void" -> "voided"

\* rules::allocate_initial: one ticket a passenger, paid by the issue with
\* the price of the passenger.
InitialEntitlements ==
    {[id |-> <<p, NoRequest>>, amount |-> Price[p], state |-> "active",
      funding |-> <<[payment |-> Issue, amount |-> Price[p]]>>] :
        p \in Passengers}

\* initialize: they are written when they are first needed.
Initialized == IF entitlements = {} THEN InitialEntitlements ELSE entitlements

Open(table, r) == table[r].status # "none" /\ table[r].outcome = "none"
Selected(r) == {e \in entitlements : e.id \in rows[r].selected}
ClaimsOf(r) == {c \in claims : c[2] = r}

\* active_selections: TICKET_ENTITLEMENT_CONFLICT otherwise.
SelectionsActive(r) ==
    /\ Cardinality(ClaimsOf(r)) = Cardinality(rows[r].selected)
    /\ \A e \in Selected(r) : e.state = "active"

Overdue(table, r) ==
    table[r].status = "awaiting-confirmation" /\ table[r].active \in elapsed

\* save deletes the claims of a request that ends.
WithoutExpired(table, cs) == {c \in cs : ~Overdue(table, c[2])}

\* BUG: a request that expires gets no outcome.
ExpiredOpen(table) ==
    [r \in Requests |->
        IF Overdue(table, r)
        THEN [table[r] EXCEPT !.status = "expired", !.version = @ + 1]
        ELSE table[r]]

\* expire and expire_booking
Expired(table) ==
    [r \in Requests |->
        IF Overdue(table, r)
        THEN [table[r] EXCEPT !.status = "expired",
                              !.outcome = "confirmation-expired",
                              !.version = @ + 1]
        ELSE table[r]]

Saved(r, row) == rows' = [rows EXCEPT ![r] = [row EXCEPT !.version = @ + 1]]

\* What save does once a request has an outcome.
ReleaseClaims(r) == claims' = claims \ ClaimsOf(r)

-----------------------------------------------------------------------------
(* Asking *)

ManagementInit ==
    /\ rows = [r \in Requests |-> NotAsked]
    /\ entitlements = {} /\ claims = {}
    /\ quotes = [q \in QuoteIds |-> NoTerms]
    /\ elapsed = {}
    /\ view = [r \in Requests |-> Screen(NotAsked)]
    /\ spendable = [a \in {Payer} |-> Funds]
    /\ purchase = [p \in Payments |->
            IF p = Issue
            THEN [phase |-> "charged", account |-> Payer, cost |-> Total(Price)]
            ELSE [phase |-> "none", account |-> Nobody, cost |-> 0]]

\* BUG: only requests of the same kind are looked at.
FreeUnclaimed(table, cs, kind, es) ==
    ~\E r \in Requests : Open(table, r) /\ table[r].kind = kind

\* ACTIVE_REQUEST_EXISTS: one open request of a kind for the booking, and one
\* of any kind for a ticket.
Free(table, cs, kind, es) ==
    /\ ~\E r \in Requests : Open(table, r) /\ table[r].kind = kind
    /\ \A c \in cs : c[1] \notin {e.id : e \in es}

\* An id that was used is a replay, which answers what was saved, or an error.
NewRequest(r) == rows[r] = NotAsked

\* create_with_preferences.  What is overdue expires first, in the same
\* transaction.  A void may also be refused because it is late, and a client
\* because its grant ended.
Create(r, kind, P) ==
    LET table == Expired(rows)
        left == WithoutExpired(rows, claims)
        es == {e \in Initialized : e.id[1] \in P /\ e.state = "active"}
    IN  /\ NewRequest(r)
        /\ P # {}
        /\ P = {e.id[1] : e \in es}
        /\ Free(table, left, kind, es)
        /\ rows' = [table EXCEPT ![r] =
              [NotAsked EXCEPT !.kind = kind, !.selected = {e.id : e \in es},
                               !.status = "requested", !.version = 1]]
        /\ claims' = left \cup {<<e.id, r>> : e \in es}
        /\ entitlements' = Initialized
        /\ UNCHANGED <<quotes, worldVars, walletVars>>

\* availability: also initializes and expires.
Availability ==
    /\ rows' = Expired(rows)
    /\ claims' = WithoutExpired(rows, claims)
    /\ entitlements' = Initialized
    /\ UNCHANGED <<quotes, worldVars, walletVars>>

\* request_scoped: a request is expired before it is shown.
Shown(r) ==
    /\ rows[r] # NotAsked
    /\ rows' = [rows EXCEPT ![r] = Expired(rows)[r]]
    /\ claims' = IF Overdue(rows, r) THEN claims \ ClaimsOf(r) ELSE claims

\* detail and list_scoped: finance looks at an approved request.
Look(r) ==
    /\ Shown(r)
    /\ view' = [view EXCEPT ![r] =
          IF rows'[r].status = "approved" THEN Screen(rows'[r]) ELSE @]
    /\ UNCHANGED <<entitlements, quotes, elapsed, walletVars>>

-----------------------------------------------------------------------------
(* Quoting *)

\* A command on a request first expires it, and fails if it has ended:
\* TICKET_REQUEST_TERMINAL undoes that expiry with the transaction.
May(r, status) ==
    Open(rows, r) /\ ~Overdue(rows, r) /\ rows[r].status \in status

Accept(r) ==
    /\ May(r, {"requested"})
    /\ Saved(r, [rows[r] EXCEPT !.status = "in-progress"])
    /\ UNCHANGED <<entitlements, claims, quotes, worldVars, walletVars>>

StaffReject(r) ==
    /\ May(r, {"requested", "in-progress", "awaiting-confirmation"})
    /\ Saved(r, [rows[r] EXCEPT !.status = "rejected",
                                !.outcome = "staff-rejected"])
    /\ ReleaseClaims(r)
    /\ UNCHANGED <<entitlements, quotes, worldVars, walletVars>>

Direction(balance) ==
    IF balance > 0 THEN "credit" ELSE IF balance < 0 THEN "debit" ELSE "none"

Distance(balance) == IF balance < 0 THEN -balance ELSE balance

\* Quote::validate: the quotations that pass.  A reissue is charged its fare
\* differences and fees; a refund or a void gives back what the tickets cost
\* less the fees, and only the fees of a void may exceed it.
Terms(r) ==
    LET worth == MapThenSumSet(LAMBDA e : e.amount, Selected(r))
        none == [i \in rows[r].selected |-> 0]
    IN  IF rows[r].kind = "reissue"
        THEN {[direction |-> Direction(-(Total(x) + fee)),
               amount |-> Total(x) + fee, extra |-> x] :
                  x \in [rows[r].selected -> Differences], fee \in Fees}
        ELSE {[direction |-> Direction(worth - fee),
               amount |-> Distance(worth - fee), extra |-> none] :
                  fee \in {f \in Fees : rows[r].kind = "refund" => f <= worth}}

QuotesOf(r) == {q \in QuoteIds : q[1] = r /\ quotes[q] # NoTerms}

PublishQuote(r) ==
    LET q == <<r, Cardinality(QuotesOf(r)) + 1>>
    IN  /\ May(r, {"in-progress"})
        /\ SelectionsActive(r)
        /\ q \in QuoteIds
        /\ \E terms \in Terms(r) : quotes' = [quotes EXCEPT ![q] = terms]
        /\ Saved(r, [rows[r] EXCEPT !.status = "awaiting-confirmation",
                                    !.active = q])
        /\ UNCHANGED <<entitlements, claims, worldVars, walletVars>>

\* reopen
Reopened(row) ==
    [row EXCEPT !.status = "in-progress", !.active = NoQuote,
                !.approved = NoQuote, !.hold = NoQuote, !.assignee = NoUser]

\* BUG: a held reissue is quoted again without giving the hold back.
MayRequoteHeld(r) == May(r, {"approved"})

\* TICKET_HOLD_RELEASE_REQUIRED
MayRequote(r) == May(r, {"approved"}) /\ rows[r].hold = NoQuote

Requote(r) ==
    /\ MayRequote(r)
    /\ Saved(r, Reopened(rows[r]))
    /\ UNCHANGED <<entitlements, claims, quotes, worldVars, walletVars>>

-----------------------------------------------------------------------------
(* The customer decides *)

\* TICKET_QUOTE_SUPERSEDED and TICKET_QUOTE_EXPIRED
MayConfirm(r, q) ==
    /\ May(r, {"awaiting-confirmation"})
    /\ rows[r].active = q

\* A debit is reserved, with the quotation as its subject: the wallet may
\* refuse it.
Confirm(r, q) ==
    /\ MayConfirm(r, q)
    /\ SelectionsActive(r)
    /\ quotes[q] \in Terms(r)
    /\ IF quotes[q].direction = "debit"
       THEN Wallet!Hold(q, Payer, quotes[q].amount)
       ELSE UNCHANGED walletVars
    /\ Saved(r, [rows[r] EXCEPT
          !.status = "approved", !.approved = q,
          !.hold = IF quotes[q].direction = "debit" THEN q ELSE NoQuote])
    /\ UNCHANGED <<entitlements, claims, quotes, worldVars>>

Decline(r, q) ==
    /\ MayConfirm(r, q)
    /\ SelectionsActive(r)
    /\ Saved(r, [rows[r] EXCEPT !.status = "rejected",
                                !.outcome = "customer-rejected"])
    /\ ReleaseClaims(r)
    /\ UNCHANGED <<entitlements, quotes, worldVars, walletVars>>

\* What an API client may decide, like its portal user.
Decision(r, q) == Confirm(r, q) \/ Decline(r, q)

-----------------------------------------------------------------------------
(* Settling *)

\* Any operator may assign.  Assigning an administrator changes nothing that
\* he may do.
Assign(r, u) ==
    /\ May(r, {"approved"})
    /\ u \in Accountants /\ rows[r].assignee # u
    /\ Saved(r, [rows[r] EXCEPT !.assignee = u])
    /\ UNCHANGED <<entitlements, claims, quotes, worldVars, walletVars>>

\* rules::finance
Finance(r, u) == u \in Admins \/ (u \in Accountants /\ rows[r].assignee = u)

\* BUG: the version a command was made for is not compared.
AsSeenAnyVersion(r) == TRUE

\* TICKET_VERSION_CONFLICT: the command carries the version on the screen.
AsSeen(r) == view[r].version = rows[r].version

\* validate_hold
HoldValid(r) ==
    LET q == rows[r].approved
    IN  /\ rows[r].hold = q /\ quotes[q].direction = "debit"
        /\ purchase[q] = [phase |-> "held", account |-> Payer,
                          cost |-> quotes[q].amount]

\* ReleaseReissue and ReleaseVoid: the hold, if any, is given back and the
\* request is quoted again.
Release(r, u) ==
    /\ May(r, {"approved"}) /\ AsSeen(r)
    /\ Finance(r, u)
    /\ rows[r].kind # "refund"
    /\ IF rows[r].hold = NoQuote
       THEN UNCHANGED walletVars
       ELSE HoldValid(r) /\ Wallet!GiveBack(rows[r].hold)
    /\ Saved(r, Reopened(rows[r]))
    /\ UNCHANGED <<entitlements, claims, quotes, worldVars>>

\* The slices of money the selected tickets were paid with: a ticket and a
\* position in its funding.
Slices(r) == UNION {{e} \X DOMAIN e.funding : e \in Selected(r)}

Slice(s) == s[1].funding[s[2]]

\* In the order of the passengers and, for each, the oldest first.
Earlier(s, t) ==
    \/ s[1].id[1] < t[1].id[1]
    \/ s[1].id[1] = t[1].id[1] /\ s[2] < t[2]

\* f.amount.min(remaining), slice after slice.
Taken(slices, amount) ==
    LET before(s) == Total([t \in {t \in slices : Earlier(t, s)} |-> Slice(t).amount])
        left(s) == IF before(s) < amount THEN amount - before(s) ELSE 0
    IN  [s \in slices |->
            IF Slice(s).amount < left(s) THEN Slice(s).amount ELSE left(s)]

\* TICKET_ENTITLEMENT_CONFLICT: a ticket is worth what its slices are.
Whole(r) ==
    \A e \in Selected(r) :
        Total([i \in DOMAIN e.funding |-> e.funding[i].amount]) = e.amount

\* What each payment gives back for the approved quotation.
CreditOf(r, p) ==
    LET slices == Slices(r)
        taken == Taken(slices, quotes[rows[r].approved].amount)
    IN  Total([s \in slices |-> IF Slice(s).payment = p THEN taken[s] ELSE 0])

\* REFUND_EXCEEDS_CAPTURE of the wallet, for every posting of a settlement.
Refundable(r) ==
    \A p \in Payments :
        CreditOf(r, p) > 0 => /\ purchase[p].phase = "charged"
                              /\ CreditOf(r, p) <= purchase[p].cost

\* One refund posting for each payment, in one transaction.
Refunds(r) ==
    LET credits == [p \in Payments |-> CreditOf(r, p)]
    IN  /\ Whole(r)
        /\ Total(credits) = quotes[rows[r].approved].amount
        /\ Refundable(r)
        /\ spendable' = [spendable EXCEPT ![Payer] = @ + Total(credits)]
        /\ purchase' = [p \in Payments |->
                           [purchase[p] EXCEPT !.cost = @ - credits[p]]]

Settled(direction, r) ==
    CASE direction = "debit"  -> HoldValid(r) /\ Wallet!Charge(rows[r].hold)
      [] direction = "credit" -> rows[r].hold = NoQuote /\ Refunds(r)
      [] direction = "none"   -> rows[r].hold = NoQuote /\ UNCHANGED walletVars

\* BUG: the new ticket is funded with all that was held, fees included.
FundedByHold(r, e) ==
    LET q == rows[r].approved
    IN  IF quotes[q].extra[e.id] = 0 THEN e.funding
        ELSE Append(e.funding, [payment |-> q, amount |-> quotes[q].amount])

\* A reissued ticket keeps the money of its predecessor and adds its share of
\* the fare difference; fees are not refundable.
Funded(r, e) ==
    LET q == rows[r].approved
    IN  IF quotes[q].extra[e.id] = 0 THEN e.funding
        ELSE Append(e.funding, [payment |-> q, amount |-> quotes[q].extra[e.id]])

Successors(r) ==
    IF rows[r].kind # "reissue" THEN {}
    ELSE {[id |-> <<e.id[1], r>>, state |-> "active",
           amount |-> e.amount + quotes[rows[r].approved].extra[e.id],
           funding |-> Funded(r, e)] : e \in Selected(r)}

\* settle: CompleteRefund, CompleteVoid and CompleteReissue.
Complete(r, u) ==
    LET q == rows[r].approved
        outcome == Outcome(rows[r].kind)
    IN  /\ May(r, {"approved"}) /\ AsSeen(r)
        /\ Finance(r, u)
        /\ q = rows[r].active
        /\ SelectionsActive(r)
        /\ Settled(quotes[q].direction, r)
        /\ entitlements' = {IF e \in Selected(r)
                            THEN [e EXCEPT !.state = outcome] ELSE e :
                               e \in entitlements} \cup Successors(r)
        /\ Saved(r, [rows[r] EXCEPT !.outcome = outcome])
        /\ ReleaseClaims(r)
        /\ UNCHANGED <<quotes, worldVars>>

-----------------------------------------------------------------------------
(* Time *)

\* It matters only while the quotation is waited for.
DeadlinePasses(q) ==
    /\ rows[q[1]].status = "awaiting-confirmation" /\ rows[q[1]].active = q
    /\ elapsed' = elapsed \cup {q}
    /\ UNCHANGED <<deskVars, view, walletVars>>

Desk(r) ==
    \/ \E kind \in Kinds, P \in SUBSET Passengers : Create(r, kind, P)
    \/ Look(r) \/ Accept(r) \/ StaffReject(r) \/ PublishQuote(r) \/ Requote(r)
    \/ \E q \in QuoteIds : Decision(r, q)
    \/ \E u \in Admins \cup Accountants :
          Assign(r, u) \/ Release(r, u) \/ Complete(r, u)

ManagementNext ==
    \/ \E r \in Requests : Desk(r)
    \/ Availability
    \/ \E q \in QuoteIds : DeadlinePasses(q)

ManagementSpec == ManagementInit /\ [][ManagementNext]_managementVars

-----------------------------------------------------------------------------
(* Properties *)

Row ==
    [kind: Kinds, selected: SUBSET (Passengers \X (Requests \cup {NoRequest})),
     status: {"requested", "in-progress", "awaiting-confirmation", "approved",
              "rejected", "expired"},
     outcome: {"none", "staff-rejected", "customer-rejected",
               "confirmation-expired"} \cup {Outcome(k) : k \in Kinds},
     version: Nat \ {0}, active: QuoteIds \cup {NoQuote},
     approved: QuoteIds \cup {NoQuote}, hold: QuoteIds \cup {NoQuote},
     assignee: Admins \cup Accountants \cup {NoUser}]

\* rules::outcome_matches
OutcomeMatches(row) ==
    CASE row.status = "approved" -> row.outcome \in {"none", Outcome(row.kind)}
      [] row.status = "rejected" ->
            row.outcome \in {"staff-rejected", "customer-rejected"}
      [] row.status = "expired"  -> row.outcome = "confirmation-expired"
      [] OTHER                   -> row.outcome = "none"

\* The types of the rows, and a status has an outcome that belongs to it.
ManagementTypeOK ==
    /\ rows \in [Requests -> Row \cup {NotAsked}]
    /\ \A r \in Requests : OutcomeMatches(rows[r])
    /\ \A e \in entitlements :
          /\ e.id \in Passengers \X (Requests \cup {NoRequest})
          /\ e.amount \in Nat
          /\ e.state \in {"active"} \cup {Outcome(k) : k \in Kinds}
    /\ claims \subseteq {e.id : e \in entitlements} \X Requests
    /\ elapsed \subseteq QuoteIds

\* A ticket is in the hands of one request (the primary key of the claims,
\* and ticket_management_integrity): open requests share none, each holds its
\* claims while it is open and none afterwards, and a passenger never has two
\* tickets that are good.
OneRequestPerTicket ==
    /\ ManagementTypeOK
    /\ \A r, s \in Requests :
          Open(rows, r) /\ Open(rows, s) /\ r # s =>
              rows[r].selected \cap rows[s].selected = {}
    /\ \A r \in Requests :
          {c[1] : c \in ClaimsOf(r)} =
              IF Open(rows, r) THEN rows[r].selected ELSE {}
    /\ \A d, e \in entitlements :
          d.state = "active" /\ e.state = "active" /\ d.id[1] = e.id[1] => d = e

\* What a request costs its customer: the quotation he approved.
CostOf(r) ==
    IF rows[r].status # "approved" THEN 0
    ELSE LET terms == quotes[rows[r].approved]
         IN  CASE terms.direction = "debit" -> terms.amount
               [] terms.direction = "credit" ->
                     IF rows[r].outcome = "none" THEN 0 ELSE -terms.amount
               [] terms.direction = "none" -> 0

\* The balance is explained by the quotations that were approved, to the last
\* minor unit: debits from their approval on, credits from their settlement
\* on, however a refund is split over the payments of a ticket, and nothing
\* for what was rejected, expired, released or quoted again.  It never falls
\* below zero.
BalanceIsAgreed ==
    /\ spendable[Payer] \in Nat
    /\ spendable[Payer] = Funds - MapThenSumSet(CostOf, Requests)

Paid(e, p) ==
    Total([i \in DOMAIN e.funding |->
              IF e.funding[i].payment = p THEN e.funding[i].amount ELSE 0])

Owed(es, p) == Total([e \in {d \in es : d.state = "active"} |-> Paid(e, p)])

\* What a good ticket cost is still there to be refunded: no payment falls
\* below zero, the account never has more than there was, and the slices of the
\* good tickets never exceed what their payments kept, through any chain of
\* reissues and partial refunds of other tickets; and so what a customer
\* approved can be settled, whatever other requests did to the booking since.
AgreedCanSettle ==
    /\ spendable[Payer] <= Funds + Total(Price)
    /\ \A p \in Payments : purchase[p].cost \in Nat
    /\ \A p \in Payments :
          Owed(entitlements, p) > 0 => /\ purchase[p].phase = "charged"
                                       /\ Owed(entitlements, p) <= purchase[p].cost
    /\ \A r \in Requests :
          rows[r].status = "approved" /\ Open(rows, r) =>
              LET terms == quotes[rows[r].approved]
              IN  /\ SelectionsActive(r)
                  /\ terms.direction = "debit" => HoldValid(r)
                  /\ terms.direction = "credit" =>
                        /\ Whole(r) /\ Refundable(r)
                        /\ Total([p \in Payments |-> CreditOf(r, p)]) = terms.amount

\* Finance settles and releases what it saw: the quotation approved when it
\* loaded the request, and not one that took its place meanwhile.
SettledAsSeen ==
    \A r \in Requests :
        /\ rows[r].status = "approved" /\ Open(rows, r)
        /\ ~Open(rows', r) \/ (rows[r].hold # NoQuote /\ rows'[r].hold = NoQuote)
        => view[r].approved = rows[r].approved

SettledAsSeenAlways == [][SettledAsSeen]_managementVars

=============================================================================
