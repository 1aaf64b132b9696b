----------------------- MODULE TicketManagementProofs -----------------------
(***************************************************************************)
(* Theorems about TicketManagement, for any booking, requests, quotations,  *)
(* fees and operators: whose a ticket is, what a customer pays, what finance*)
(* settles, and that what was agreed can be paid.                           *)
(***************************************************************************)
EXTENDS TicketManagement, SumTheorems, SequenceTheorems, TLAPS

-----------------------------------------------------------------------------
(* Sums *)

LEMMA TotalIsSum == \A f : Total(f) = SumOf(f)
  BY DEF Total, SumOf

\* The sums of the model that are taken with an operator are Totals.
LEMMA CostsSum ==
    ASSUME NEW S, IsFiniteSet(S)
    PROVE  MapThenSumSet(CostOf, S) = Total([r \in S |-> CostOf(r)])
  <1> DEFINE f == [r \in S |-> CostOf(r)]
             Fits(h) == h = [s \in SUBSET S |->
                                IF s = {} THEN 0 ELSE CostOf(OneOf(s)) + h[s \ {OneOf(s)}]]
             G == Iterated(f, S)
             H == CHOOSE h : Fits(h)
  <1>1. Total(f) = G[S] /\ G = [s \in SUBSET S |-> FoldStep(f, G, s)]
    BY SumIterated, TotalIsSum, IteratedExists
  <1>2. MapThenSumSet(CostOf, S) = H[S]
    BY DEF MapThenSumSet, MapThenFoldSet, OneOf
  <1>3. ASSUME NEW h
        PROVE  [s \in SUBSET S |->
                    IF s = {} THEN 0 ELSE CostOf(OneOf(s)) + h[s \ {OneOf(s)}]]
               = [s \in SUBSET S |-> FoldStep(f, h, s)]
    <2>1. ASSUME NEW s \in SUBSET S, s # {}
          PROVE  f[OneOf(s)] = CostOf(OneOf(s))
      BY <2>1 DEF OneOf
    <2> HIDE DEF f
    <2> QED BY <2>1 DEF FoldStep
  <1> HIDE DEF f, G
  <1>4. Fits(G)
    BY <1>1, <1>3
  <1>5. Fits(H)
    <2> HIDE DEF Fits
    <2> QED BY <1>4
  <1> HIDE DEF H
  <1>6. H = [s \in SUBSET S |-> FoldStep(f, H, s)]
    BY <1>3, <1>5
  <1>7. Iterates(G, f, S) /\ Iterates(H, f, S)
    BY <1>1, <1>6 DEF Iterates
  <1>8. G[S] = H[S]
    BY <1>7, IteratedOnce
  <1> QED BY <1>1, <1>2, <1>8 DEF f

LEMMA AmountsSum ==
    ASSUME NEW E, IsFiniteSet(E)
    PROVE  MapThenSumSet(LAMBDA e : e.amount, E) = Total([e \in E |-> e.amount])
  <1> DEFINE f == [e \in E |-> e.amount]
             Fits(h) == h = [s \in SUBSET E |->
                                IF s = {} THEN 0 ELSE OneOf(s).amount + h[s \ {OneOf(s)}]]
             G == Iterated(f, E)
             H == CHOOSE h : Fits(h)
  <1>1. Total(f) = G[E] /\ G = [s \in SUBSET E |-> FoldStep(f, G, s)]
    BY SumIterated, TotalIsSum, IteratedExists
  <1>2. MapThenSumSet(LAMBDA e : e.amount, E) = H[E]
    BY DEF MapThenSumSet, MapThenFoldSet, OneOf
  <1>3. ASSUME NEW h
        PROVE  [s \in SUBSET E |->
                    IF s = {} THEN 0 ELSE OneOf(s).amount + h[s \ {OneOf(s)}]]
               = [s \in SUBSET E |-> FoldStep(f, h, s)]
    <2>1. ASSUME NEW s \in SUBSET E, s # {}
          PROVE  f[OneOf(s)] = OneOf(s).amount
      BY <2>1 DEF OneOf
    <2> HIDE DEF f
    <2> QED BY <2>1 DEF FoldStep
  <1> HIDE DEF f, G
  <1>4. Fits(G)
    BY <1>1, <1>3
  <1>5. Fits(H)
    <2> HIDE DEF Fits
    <2> QED BY <1>4
  <1> HIDE DEF H
  <1>6. H = [s \in SUBSET E |-> FoldStep(f, H, s)]
    BY <1>3, <1>5
  <1>7. Iterates(G, f, E) /\ Iterates(H, f, E)
    BY <1>1, <1>6 DEF Iterates
  <1>8. G[E] = H[E]
    BY <1>7, IteratedOnce
  <1> QED BY <1>1, <1>2, <1>8 DEF f

-----------------------------------------------------------------------------
(* The inductive invariant *)

Ids(es) == {e.id : e \in es}

TicketId == Passengers \X (Requests \cup {NoRequest})

Ticket ==
    [id: TicketId, amount: Nat, state: {"active"} \cup {Outcome(k) : k \in Kinds},
     funding: Seq([payment: Payments, amount: Nat])]

\* A request was quoted, approved and held with quotations of its own; what is
\* approved and open holds a debit, and nothing else.
OwnQuotes(r) ==
    /\ rows[r].active # NoQuote => rows[r].active[1] = r
    /\ rows[r].approved # NoQuote => rows[r].approved[1] = r
    /\ rows[r].status = "approved" =>
          /\ rows[r].approved \in QuoteIds
          /\ rows[r].outcome = "none" =>
                /\ rows[r].hold = IF quotes[rows[r].approved].direction = "debit"
                                  THEN rows[r].approved ELSE NoQuote
                /\ quotes[rows[r].approved].extra \in [rows[r].selected -> Nat]

RowsRight ==
    /\ rows \in [Requests -> Row \cup {NotAsked}]
    /\ \A r \in Requests : OutcomeMatches(rows[r]) /\ OwnQuotes(r)

QuotesRight ==
    /\ DOMAIN quotes = QuoteIds
    /\ \A q \in QuoteIds : /\ quotes[q].amount \in Nat
                           /\ quotes[q].direction \in {"credit", "debit", "none"}
    /\ elapsed \subseteq QuoteIds

\* An id is one ticket, a passenger has one that is good, and the others were
\* made by requests that are settled.
TicketsRight ==
    /\ IsFiniteSet(entitlements)
    /\ \A e \in entitlements :
          /\ e \in Ticket
          /\ e.id[2] # NoRequest => rows[e.id[2]].outcome # "none"
    /\ \A d, e \in entitlements : d.id = e.id => d = e
    /\ \A d, e \in entitlements :
          d.state = "active" /\ e.state = "active" /\ d.id[1] = e.id[1] => d = e

\* The claims are the tickets of the open requests, which share none.
ClaimsRight ==
    /\ \A c \in claims :
          /\ c \in Ids(entitlements) \X Requests
          /\ Open(rows, c[2]) /\ c[1] \in rows[c[2]].selected
    /\ \A r \in Requests : Open(rows, r) => \A i \in rows[r].selected : <<i, r>> \in claims
    /\ \A r, s \in Requests :
          Open(rows, r) /\ Open(rows, s) /\ r # s =>
              rows[r].selected \cap rows[s].selected = {}

Costs == [r \in Requests |-> CostOf(r)]

MoneyRight ==
    /\ DOMAIN spendable = {Payer} /\ spendable[Payer] \in Nat
    /\ spendable[Payer] = Funds - Total(Costs)

\* What finance has on its screen is the quotation of that version.
ViewRight ==
    /\ DOMAIN view = Requests
    /\ \A r \in Requests :
          /\ view[r].version \in Nat /\ view[r].version <= rows[r].version
          /\ view[r].version = rows[r].version => view[r].approved = rows[r].approved

DeskInvariant ==
    RowsRight /\ QuotesRight /\ TicketsRight /\ ClaimsRight /\ MoneyRight /\ ViewRight

-----------------------------------------------------------------------------
(* What the commands do to the rows *)

\* A row with these columns.
Columns(kind, selected, status, outcome, version, active, approved, hold, assignee) ==
    [kind |-> kind, selected |-> selected, status |-> status, outcome |-> outcome,
     version |-> version, active |-> active, approved |-> approved, hold |-> hold,
     assignee |-> assignee]

\* The updates of the commands, column by column.
LEMMA Columned ==
    ASSUME NEW row \in Row
    PROVE  row = Columns(row.kind, row.selected, row.status, row.outcome, row.version,
                         row.active, row.approved, row.hold, row.assignee)
  BY DEF Row, Columns

LEMMA Accepted ==
    ASSUME NEW row \in Row, NEW s
    PROVE  [row EXCEPT !.status = s]
           = Columns(row.kind, row.selected, s, row.outcome, row.version, row.active,
                     row.approved, row.hold, row.assignee)
  <1>1. PICK a : a = [row EXCEPT !.status = s]
    OBVIOUS
  <1>2. a = Columns(row.kind, row.selected, s, row.outcome, row.version, row.active,
                    row.approved, row.hold, row.assignee)
    BY <1>1, Columned DEF Columns
  <1> QED BY <1>1, <1>2

LEMMA Assigned ==
    ASSUME NEW row \in Row, NEW u
    PROVE  [row EXCEPT !.assignee = u]
           = Columns(row.kind, row.selected, row.status, row.outcome, row.version,
                     row.active, row.approved, row.hold, u)
  <1>1. PICK a : a = [row EXCEPT !.assignee = u]
    OBVIOUS
  <1>2. a = Columns(row.kind, row.selected, row.status, row.outcome, row.version,
                    row.active, row.approved, row.hold, u)
    BY <1>1, Columned DEF Columns
  <1> QED BY <1>1, <1>2

LEMMA Completed ==
    ASSUME NEW row \in Row, NEW o
    PROVE  [row EXCEPT !.outcome = o]
           = Columns(row.kind, row.selected, row.status, o, row.version, row.active,
                     row.approved, row.hold, row.assignee)
  <1>1. PICK a : a = [row EXCEPT !.outcome = o]
    OBVIOUS
  <1>2. a = Columns(row.kind, row.selected, row.status, o, row.version, row.active,
                    row.approved, row.hold, row.assignee)
    BY <1>1, Columned DEF Columns
  <1> QED BY <1>1, <1>2

LEMMA Ended ==
    ASSUME NEW row \in Row, NEW s, NEW o
    PROVE  [row EXCEPT !.status = s, !.outcome = o]
           = Columns(row.kind, row.selected, s, o, row.version, row.active,
                     row.approved, row.hold, row.assignee)
  <1>1. PICK a : a = [row EXCEPT !.status = s]
    OBVIOUS
  <1>2. PICK b : b = [a EXCEPT !.outcome = o]
    OBVIOUS
  <1>3. a = Columns(row.kind, row.selected, s, row.outcome, row.version, row.active,
                    row.approved, row.hold, row.assignee)
    BY <1>1, Accepted
  <1>4. b = Columns(row.kind, row.selected, s, o, row.version, row.active,
                    row.approved, row.hold, row.assignee)
    BY <1>2, <1>3 DEF Columns
  <1>5. [row EXCEPT !.status = s, !.outcome = o] = b
    BY <1>1, <1>2
  <1> QED BY <1>4, <1>5

LEMMA EndedByTime ==
    ASSUME NEW row \in Row, NEW s, NEW o
    PROVE  [row EXCEPT !.status = s, !.outcome = o, !.version = @ + 1]
           = Columns(row.kind, row.selected, s, o, row.version + 1, row.active,
                     row.approved, row.hold, row.assignee)
  <1>1. PICK a : a = [row EXCEPT !.status = s]
    OBVIOUS
  <1>2. PICK b : b = [a EXCEPT !.outcome = o]
    OBVIOUS
  <1>3. PICK c : c = [b EXCEPT !.version = @ + 1]
    OBVIOUS
  <1>4. a = Columns(row.kind, row.selected, s, row.outcome, row.version, row.active,
                    row.approved, row.hold, row.assignee)
    BY <1>1, Accepted
  <1>5. b = Columns(row.kind, row.selected, s, o, row.version, row.active,
                    row.approved, row.hold, row.assignee)
    BY <1>2, <1>4 DEF Columns
  <1>6. c = Columns(row.kind, row.selected, s, o, row.version + 1, row.active,
                    row.approved, row.hold, row.assignee)
    BY <1>3, <1>5 DEF Columns
  <1>7. [row EXCEPT !.status = s, !.outcome = o, !.version = @ + 1] = c
    BY <1>1, <1>2, <1>3
  <1> QED BY <1>6, <1>7

LEMMA Quoted ==
    ASSUME NEW row \in Row, NEW s, NEW ac
    PROVE  [row EXCEPT !.status = s, !.active = ac]
           = Columns(row.kind, row.selected, s, row.outcome, row.version, ac,
                     row.approved, row.hold, row.assignee)
  <1>1. PICK a : a = [row EXCEPT !.status = s]
    OBVIOUS
  <1>2. PICK b : b = [a EXCEPT !.active = ac]
    OBVIOUS
  <1>3. a = Columns(row.kind, row.selected, s, row.outcome, row.version, row.active,
                    row.approved, row.hold, row.assignee)
    BY <1>1, Accepted
  <1>4. b = Columns(row.kind, row.selected, s, row.outcome, row.version, ac,
                    row.approved, row.hold, row.assignee)
    BY <1>2, <1>3 DEF Columns
  <1>5. [row EXCEPT !.status = s, !.active = ac] = b
    BY <1>1, <1>2
  <1> QED BY <1>4, <1>5

LEMMA Approved ==
    ASSUME NEW row \in Row, NEW s, NEW ap, NEW h
    PROVE  [row EXCEPT !.status = s, !.approved = ap, !.hold = h]
           = Columns(row.kind, row.selected, s, row.outcome, row.version, row.active,
                     ap, h, row.assignee)
  <1>1. PICK a : a = [row EXCEPT !.status = s]
    OBVIOUS
  <1>2. PICK b : b = [a EXCEPT !.approved = ap]
    OBVIOUS
  <1>3. PICK c : c = [b EXCEPT !.hold = h]
    OBVIOUS
  <1>4. a = Columns(row.kind, row.selected, s, row.outcome, row.version, row.active,
                    row.approved, row.hold, row.assignee)
    BY <1>1, Accepted
  <1>5. b = Columns(row.kind, row.selected, s, row.outcome, row.version, row.active,
                    ap, row.hold, row.assignee)
    BY <1>2, <1>4 DEF Columns
  <1>6. c = Columns(row.kind, row.selected, s, row.outcome, row.version, row.active,
                    ap, h, row.assignee)
    BY <1>3, <1>5 DEF Columns
  <1>7. [row EXCEPT !.status = s, !.approved = ap, !.hold = h] = c
    BY <1>1, <1>2, <1>3
  <1> QED BY <1>6, <1>7

LEMMA ReopenedRow ==
    ASSUME NEW row \in Row
    PROVE  Reopened(row)
           = Columns(row.kind, row.selected, "in-progress", row.outcome, row.version,
                     NoQuote, NoQuote, NoQuote, NoUser)
  <1>1. PICK a : a = [row EXCEPT !.status = "in-progress", !.active = NoQuote]
    OBVIOUS
  <1>2. PICK b : b = [a EXCEPT !.approved = NoQuote]
    OBVIOUS
  <1>3. PICK c : c = [b EXCEPT !.hold = NoQuote]
    OBVIOUS
  <1>4. PICK d : d = [c EXCEPT !.assignee = NoUser]
    OBVIOUS
  <1>5. a = Columns(row.kind, row.selected, "in-progress", row.outcome, row.version,
                    NoQuote, row.approved, row.hold, row.assignee)
    BY <1>1, Quoted
  <1>6. b = Columns(row.kind, row.selected, "in-progress", row.outcome, row.version,
                    NoQuote, NoQuote, row.hold, row.assignee)
    BY <1>2, <1>5 DEF Columns
  <1>7. c = Columns(row.kind, row.selected, "in-progress", row.outcome, row.version,
                    NoQuote, NoQuote, NoQuote, row.assignee)
    BY <1>3, <1>6 DEF Columns
  <1>8. d = Columns(row.kind, row.selected, "in-progress", row.outcome, row.version,
                    NoQuote, NoQuote, NoQuote, NoUser)
    BY <1>4, <1>7 DEF Columns
  <1>9. Reopened(row) = d
    BY <1>1, <1>2, <1>3, <1>4 DEF Reopened
  <1> QED BY <1>8, <1>9

LEMMA Saving ==
    ASSUME NEW r, NEW k, NEW sel, NEW st, NEW o, NEW v, NEW ac, NEW ap, NEW h, NEW u,
           Saved(r, Columns(k, sel, st, o, v, ac, ap, h, u))
    PROVE  rows' = [rows EXCEPT ![r] = Columns(k, sel, st, o, v + 1, ac, ap, h, u)]
  <1>1. PICK a : a = Columns(k, sel, st, o, v, ac, ap, h, u)
    OBVIOUS
  <1>2. PICK b : b = [a EXCEPT !.version = @ + 1]
    OBVIOUS
  <1>3. b = Columns(k, sel, st, o, v + 1, ac, ap, h, u)
    BY <1>1, <1>2 DEF Columns
  <1>4. rows' = [rows EXCEPT ![r] = b]
    BY <1>1, <1>2 DEF Saved
  <1> QED BY <1>3, <1>4

\* The row after a command.
Becomes(r, status, outcome, active, approved, hold, assignee) ==
    rows' = [rows EXCEPT ![r] =
        Columns(rows[r].kind, rows[r].selected, status, outcome, rows[r].version + 1,
                active, approved, hold, assignee)]

LEMMA MaySteps ==
    ASSUME RowsRight, NEW r \in Requests, NEW status, May(r, status), "none" \notin status
    PROVE  rows[r] \in Row /\ rows[r].outcome = "none" /\ rows[r].status \in status
  BY DEF RowsRight, May, Open, NotAsked

LEMMA Quoting ==
    ASSUME RowsRight, NEW r \in Requests
    PROVE  /\ Accept(r) =>
                /\ rows[r] \in Row /\ rows[r].outcome = "none"
                /\ rows[r].status = "requested"
                /\ Becomes(r, "in-progress", "none", rows[r].active, rows[r].approved,
                           rows[r].hold, rows[r].assignee)
           /\ StaffReject(r) =>
                /\ rows[r] \in Row /\ rows[r].outcome = "none"
                /\ rows[r].status \in {"requested", "in-progress", "awaiting-confirmation"}
                /\ Becomes(r, "rejected", "staff-rejected", rows[r].active,
                           rows[r].approved, rows[r].hold, rows[r].assignee)
           /\ Requote(r) =>
                /\ rows[r] \in Row /\ rows[r].outcome = "none"
                /\ rows[r].status = "approved" /\ rows[r].hold = NoQuote
                /\ Becomes(r, "in-progress", "none", NoQuote, NoQuote, NoQuote, NoUser)
  <1>1. ASSUME Accept(r)
        PROVE  /\ rows[r] \in Row /\ rows[r].outcome = "none"
               /\ rows[r].status = "requested"
               /\ Becomes(r, "in-progress", "none", rows[r].active, rows[r].approved,
                          rows[r].hold, rows[r].assignee)
    <2>1. rows[r] \in Row /\ rows[r].outcome = "none" /\ rows[r].status = "requested"
      BY <1>1, MaySteps DEF Accept
    <2>2. Saved(r, [rows[r] EXCEPT !.status = "in-progress"])
      BY <1>1 DEF Accept
    <2>3. [rows[r] EXCEPT !.status = "in-progress"]
          = Columns(rows[r].kind, rows[r].selected, "in-progress", rows[r].outcome, rows[r].version,
                       rows[r].active, rows[r].approved, rows[r].hold, rows[r].assignee)
      BY <2>1, Accepted
    <2> QED BY <2>2, <2>3, <2>1, Saving DEF Becomes
  <1>2. ASSUME StaffReject(r)
        PROVE  /\ rows[r] \in Row /\ rows[r].outcome = "none"
               /\ rows[r].status \in {"requested", "in-progress", "awaiting-confirmation"}
               /\ Becomes(r, "rejected", "staff-rejected", rows[r].active,
                          rows[r].approved, rows[r].hold, rows[r].assignee)
    <2>1. /\ rows[r] \in Row /\ rows[r].outcome = "none"
          /\ rows[r].status \in {"requested", "in-progress", "awaiting-confirmation"}
      BY <1>2, MaySteps DEF StaffReject
    <2>2. Saved(r, [rows[r] EXCEPT !.status = "rejected", !.outcome = "staff-rejected"])
      BY <1>2 DEF StaffReject
    <2>3. [rows[r] EXCEPT !.status = "rejected", !.outcome = "staff-rejected"]
          = Columns(rows[r].kind, rows[r].selected, "rejected", "staff-rejected", rows[r].version,
                       rows[r].active, rows[r].approved, rows[r].hold, rows[r].assignee)
      BY <2>1, Ended
    <2> QED BY <2>2, <2>3, <2>1, Saving DEF Becomes
  <1>3. ASSUME Requote(r)
        PROVE  /\ rows[r] \in Row /\ rows[r].outcome = "none"
               /\ rows[r].status = "approved" /\ rows[r].hold = NoQuote
               /\ Becomes(r, "in-progress", "none", NoQuote, NoQuote, NoQuote, NoUser)
    <2>1. rows[r] \in Row /\ rows[r].outcome = "none" /\ rows[r].status = "approved"
      BY <1>3, MaySteps DEF Requote, MayRequote
    <2>2. Saved(r, Reopened(rows[r])) /\ rows[r].hold = NoQuote
      BY <1>3 DEF Requote, MayRequote
    <2>3. Reopened(rows[r])
          = Columns(rows[r].kind, rows[r].selected, "in-progress", rows[r].outcome, rows[r].version,
                       NoQuote, NoQuote, NoQuote, NoUser)
      BY <2>1, ReopenedRow
    <2> QED BY <2>2, <2>3, <2>1, Saving DEF Becomes
  <1> QED BY <1>1, <1>2, <1>3

LEMMA Publishing ==
    ASSUME RowsRight, NEW r \in Requests, PublishQuote(r)
    PROVE  \E q \in QuoteIds :
              /\ q[1] = r
              /\ rows[r] \in Row /\ rows[r].outcome = "none"
              /\ rows[r].status = "in-progress"
              /\ Becomes(r, "awaiting-confirmation", "none", q, rows[r].approved,
                         rows[r].hold, rows[r].assignee)
              /\ \E terms \in Terms(r) : quotes' = [quotes EXCEPT ![q] = terms]
  <1>1. PICK q : q = <<r, Cardinality(QuotesOf(r)) + 1>>
    OBVIOUS
  <1>2. q \in QuoteIds /\ q[1] = r
    BY <1>1 DEF PublishQuote
  <1>3. rows[r] \in Row /\ rows[r].outcome = "none" /\ rows[r].status = "in-progress"
    BY MaySteps DEF PublishQuote
  <1>4. /\ Saved(r, [rows[r] EXCEPT !.status = "awaiting-confirmation", !.active = q])
        /\ \E terms \in Terms(r) : quotes' = [quotes EXCEPT ![q] = terms]
    BY <1>1 DEF PublishQuote
  <1>5. Becomes(r, "awaiting-confirmation", "none", q, rows[r].approved, rows[r].hold,
                rows[r].assignee)
    <2>1. [rows[r] EXCEPT !.status = "awaiting-confirmation", !.active = q]
          = Columns(rows[r].kind, rows[r].selected, "awaiting-confirmation", rows[r].outcome, rows[r].version,
                       q, rows[r].approved, rows[r].hold, rows[r].assignee)
      BY <1>3, Quoted
    <2> QED BY <1>3, <1>4, <2>1, Saving DEF Becomes
  <1> QED BY <1>2, <1>3, <1>4, <1>5

LEMMA Deciding ==
    ASSUME RowsRight, NEW r \in Requests, NEW q \in QuoteIds
    PROVE  /\ Confirm(r, q) =>
                /\ rows[r] \in Row /\ rows[r].outcome = "none"
                /\ rows[r].status = "awaiting-confirmation" /\ rows[r].active = q
                /\ Becomes(r, "approved", "none", q, q,
                           IF quotes[q].direction = "debit" THEN q ELSE NoQuote,
                           rows[r].assignee)
           /\ Decline(r, q) =>
                /\ rows[r] \in Row /\ rows[r].outcome = "none"
                /\ rows[r].status = "awaiting-confirmation"
                /\ Becomes(r, "rejected", "customer-rejected", rows[r].active,
                           rows[r].approved, rows[r].hold, rows[r].assignee)
  <1>1. ASSUME Confirm(r, q)
        PROVE  /\ rows[r] \in Row /\ rows[r].outcome = "none"
               /\ rows[r].status = "awaiting-confirmation" /\ rows[r].active = q
               /\ Becomes(r, "approved", "none", q, q,
                          IF quotes[q].direction = "debit" THEN q ELSE NoQuote,
                          rows[r].assignee)
    <2>1. /\ rows[r] \in Row /\ rows[r].outcome = "none"
          /\ rows[r].status = "awaiting-confirmation" /\ rows[r].active = q
      BY <1>1, MaySteps DEF Confirm, MayConfirm
    <2>2. PICK h : h = IF quotes[q].direction = "debit" THEN q ELSE NoQuote
      OBVIOUS
    <2>3. Saved(r, [rows[r] EXCEPT !.status = "approved", !.approved = q, !.hold = h])
      BY <1>1, <2>2 DEF Confirm
    <2>4. Becomes(r, "approved", "none", q, q, h, rows[r].assignee)
      <3>1. [rows[r] EXCEPT !.status = "approved", !.approved = q, !.hold = h]
            = Columns(rows[r].kind, rows[r].selected, "approved", rows[r].outcome, rows[r].version,
                       rows[r].active, q, h, rows[r].assignee)
        BY <2>1, Approved, ZenonT(90)
      <3> QED BY <2>1, <2>3, <3>1, Saving DEF Becomes
    <2> QED BY <2>1, <2>2, <2>4
  <1>2. ASSUME Decline(r, q)
        PROVE  /\ rows[r] \in Row /\ rows[r].outcome = "none"
               /\ rows[r].status = "awaiting-confirmation"
               /\ Becomes(r, "rejected", "customer-rejected", rows[r].active,
                          rows[r].approved, rows[r].hold, rows[r].assignee)
    <2>1. /\ rows[r] \in Row /\ rows[r].outcome = "none"
          /\ rows[r].status = "awaiting-confirmation"
      BY <1>2, MaySteps DEF Decline, MayConfirm
    <2>2. Saved(r, [rows[r] EXCEPT !.status = "rejected", !.outcome = "customer-rejected"])
      BY <1>2 DEF Decline
    <2>3. [rows[r] EXCEPT !.status = "rejected", !.outcome = "customer-rejected"]
          = Columns(rows[r].kind, rows[r].selected, "rejected", "customer-rejected", rows[r].version,
                       rows[r].active, rows[r].approved, rows[r].hold, rows[r].assignee)
      BY <2>1, Ended
    <2> QED BY <2>2, <2>3, <2>1, Saving DEF Becomes
  <1> QED BY <1>1, <1>2

LEMMA Settling ==
    ASSUME RowsRight, NEW r \in Requests, NEW u
    PROVE  /\ Assign(r, u) =>
                /\ rows[r] \in Row /\ rows[r].outcome = "none"
                /\ rows[r].status = "approved" /\ u \in Accountants
                /\ Becomes(r, "approved", "none", rows[r].active, rows[r].approved,
                           rows[r].hold, u)
           /\ Release(r, u) =>
                /\ rows[r] \in Row /\ rows[r].outcome = "none"
                /\ rows[r].status = "approved"
                /\ Becomes(r, "in-progress", "none", NoQuote, NoQuote, NoQuote, NoUser)
           /\ Complete(r, u) =>
                /\ rows[r] \in Row /\ rows[r].outcome = "none"
                /\ rows[r].status = "approved"
                /\ Becomes(r, "approved", Outcome(rows[r].kind), rows[r].active,
                           rows[r].approved, rows[r].hold, rows[r].assignee)
  <1>1. ASSUME Assign(r, u)
        PROVE  /\ rows[r] \in Row /\ rows[r].outcome = "none"
               /\ rows[r].status = "approved" /\ u \in Accountants
               /\ Becomes(r, "approved", "none", rows[r].active, rows[r].approved,
                          rows[r].hold, u)
    <2>1. /\ rows[r] \in Row /\ rows[r].outcome = "none"
          /\ rows[r].status = "approved" /\ u \in Accountants
      BY <1>1, MaySteps DEF Assign
    <2>2. Saved(r, [rows[r] EXCEPT !.assignee = u])
      BY <1>1 DEF Assign
    <2>3. [rows[r] EXCEPT !.assignee = u]
          = Columns(rows[r].kind, rows[r].selected, rows[r].status, rows[r].outcome, rows[r].version,
                       rows[r].active, rows[r].approved, rows[r].hold, u)
      BY <2>1, Assigned
    <2> QED BY <2>2, <2>3, <2>1, Saving DEF Becomes
  <1>2. ASSUME Release(r, u)
        PROVE  /\ rows[r] \in Row /\ rows[r].outcome = "none"
               /\ rows[r].status = "approved"
               /\ Becomes(r, "in-progress", "none", NoQuote, NoQuote, NoQuote, NoUser)
    <2>1. rows[r] \in Row /\ rows[r].outcome = "none" /\ rows[r].status = "approved"
      BY <1>2, MaySteps DEF Release
    <2>2. Saved(r, Reopened(rows[r]))
      BY <1>2 DEF Release
    <2>3. Reopened(rows[r])
          = Columns(rows[r].kind, rows[r].selected, "in-progress", rows[r].outcome, rows[r].version,
                       NoQuote, NoQuote, NoQuote, NoUser)
      BY <2>1, ReopenedRow
    <2> QED BY <2>2, <2>3, <2>1, Saving DEF Becomes
  <1>3. ASSUME Complete(r, u)
        PROVE  /\ rows[r] \in Row /\ rows[r].outcome = "none"
               /\ rows[r].status = "approved"
               /\ Becomes(r, "approved", Outcome(rows[r].kind), rows[r].active,
                          rows[r].approved, rows[r].hold, rows[r].assignee)
    <2>1. rows[r] \in Row /\ rows[r].outcome = "none" /\ rows[r].status = "approved"
      BY <1>3, MaySteps DEF Complete
    <2>2. PICK o : o = Outcome(rows[r].kind)
      OBVIOUS
    <2>3. Saved(r, [rows[r] EXCEPT !.outcome = o])
      BY <1>3, <2>2 DEF Complete
    <2>4. Becomes(r, "approved", o, rows[r].active, rows[r].approved, rows[r].hold,
                  rows[r].assignee)
      <3>1. [rows[r] EXCEPT !.outcome = o]
            = Columns(rows[r].kind, rows[r].selected, rows[r].status, o, rows[r].version,
                       rows[r].active, rows[r].approved, rows[r].hold, rows[r].assignee)
        BY <2>1, Completed
      <3> QED BY <2>1, <2>3, <3>1, Saving DEF Becomes
    <2> QED BY <2>1, <2>2, <2>4
  <1> QED BY <1>1, <1>2, <1>3

\* What expires was waiting for its customer.
LEMMA Expiring ==
    ASSUME RowsRight, NEW s \in Requests, Overdue(rows, s)
    PROVE  /\ rows[s] \in Row /\ rows[s].outcome = "none"
           /\ rows[s].status = "awaiting-confirmation"
           /\ Expired(rows)[s] =
                Columns(rows[s].kind, rows[s].selected, "expired", "confirmation-expired",
                        rows[s].version + 1, rows[s].active, rows[s].approved,
                        rows[s].hold, rows[s].assignee)
  <1>1. /\ rows[s] \in Row /\ rows[s].outcome = "none"
        /\ rows[s].status = "awaiting-confirmation"
    BY DEF Overdue, RowsRight, OutcomeMatches, NotAsked
  <1>2. Expired(rows)[s] = [rows[s] EXCEPT !.status = "expired",
                                           !.outcome = "confirmation-expired",
                                           !.version = @ + 1]
    BY DEF Expired
  <1> QED BY <1>1, <1>2, EndedByTime

LEMMA ExpiredRows ==
    /\ DOMAIN Expired(rows) = Requests
    /\ \A s \in Requests : ~Overdue(rows, s) => Expired(rows)[s] = rows[s]
  BY DEF Expired

\* The terms a quotation may have are sums of money.
LEMMA TermsTyped ==
    ASSUME RowsRight, TicketsRight, NEW r \in Requests, rows[r] \in Row,
           NEW terms \in Terms(r)
    PROVE  /\ terms.amount \in Nat
           /\ terms.direction \in {"credit", "debit", "none"}
           /\ terms.extra \in [rows[r].selected -> Nat]
  <1>1. IsFiniteSet(rows[r].selected)
    <2>1. IsFiniteSet(Requests \cup {NoRequest})
      BY RequestAssumption, FS_AddElement
    <2>2. IsFiniteSet(Passengers \X (Requests \cup {NoRequest}))
      BY <2>1, PriceAssumption, FS_Product
    <2>3. rows[r].selected \subseteq Passengers \X (Requests \cup {NoRequest})
      BY DEF Row
    <2> QED BY <2>2, <2>3, FS_Subset
  <1>2. MapThenSumSet(LAMBDA e : e.amount, Selected(r)) \in Int
    <2>1. IsFiniteSet(Selected(r)) /\ \A e \in Selected(r) : e.amount \in Nat
      <3>1. Selected(r) \in SUBSET entitlements
        BY DEF Selected
      <3> QED BY <3>1, FS_Subset DEF TicketsRight, Ticket
    <2>2. PICK f : f = [e \in Selected(r) |-> e.amount]
      OBVIOUS
    <2>3. f \in [Selected(r) -> Int]
      BY <2>1, <2>2
    <2>4. \E G : Sums(G, f, Selected(r)) /\ Total(f) = G[Selected(r)]
      BY <2>1, <2>3, SumIsSums, TotalIsSum
    <2>5. Total(f) \in Int
      BY <2>4 DEF Sums
    <2> QED BY <2>1, <2>2, <2>5, AmountsSum
  <1> DEFINE worth == MapThenSumSet(LAMBDA e : e.amount, Selected(r))
  <1>3. worth \in Int
    BY <1>2
  <1>4. CASE rows[r].kind = "reissue"
    <2>1. PICK x \in [rows[r].selected -> Differences], fee \in Fees :
             terms = [direction |-> Direction(-(Total(x) + fee)),
                      amount |-> Total(x) + fee, extra |-> x]
      BY <1>4 DEF Terms
    <2>2. x \in [rows[r].selected -> Nat] /\ fee \in Nat
      BY <2>1, QuoteAssumption
    <2>3. Total(x) \in Nat
      BY <1>1, <2>2, SumCovers, TotalIsSum
    <2> QED BY <2>1, <2>2, <2>3 DEF Direction
  <1>5. CASE rows[r].kind # "reissue"
    <2>1. PICK fee \in Fees :
             terms = [direction |-> Direction(worth - fee),
                      amount |-> Distance(worth - fee),
                      extra |-> [i \in rows[r].selected |-> 0]]
      <3>1. Terms(r) = {[direction |-> Direction(worth - fee),
                         amount |-> Distance(worth - fee),
                         extra |-> [i \in rows[r].selected |-> 0]] :
                           fee \in {f \in Fees : rows[r].kind = "refund" => f <= worth}}
        BY <1>5 DEF Terms
      <3> HIDE DEF worth
      <3> QED BY <3>1
    <2> HIDE DEF worth
    <2>2. fee \in Nat
      BY <2>1, QuoteAssumption
    <2>3. worth - fee \in Int
      BY <1>3, <2>2
    <2>4. Distance(worth - fee) \in Nat
      BY <2>3 DEF Distance
    <2> QED BY <2>1, <2>4 DEF Direction
  <1> QED BY <1>4, <1>5

-----------------------------------------------------------------------------
(* The rows *)

\* A command changes one row, and the quotations of that request only.
LEMMA RowBecomes ==
    ASSUME RowsRight, NEW r \in Requests, rows[r] \in Row,
           NEW status, NEW outcome, NEW active, NEW approved, NEW hold, NEW assignee,
           Becomes(r, status, outcome, active, approved, hold, assignee),
           status \in {"requested", "in-progress", "awaiting-confirmation", "approved",
                       "rejected", "expired"},
           outcome \in {"none", "staff-rejected", "customer-rejected",
                        "confirmation-expired"} \cup {Outcome(k) : k \in Kinds},
           active \in QuoteIds \cup {NoQuote}, approved \in QuoteIds \cup {NoQuote},
           hold \in QuoteIds \cup {NoQuote},
           assignee \in Admins \cup Accountants \cup {NoUser},
           OutcomeMatches(rows[r])', OwnQuotes(r)',
           \A q \in QuoteIds : q[1] # r => quotes'[q] = quotes[q]
    PROVE  RowsRight'
  <1>1. rows \in [Requests -> Row \cup {NotAsked}]
    BY DEF RowsRight
  <1>2. rows'[r] \in Row
    <2>1. rows'[r] = Columns(rows[r].kind, rows[r].selected, status, outcome,
                             rows[r].version + 1, active, approved, hold, assignee)
      BY <1>1 DEF Becomes
    <2>2. /\ rows[r].kind \in Kinds
          /\ rows[r].selected \in SUBSET (Passengers \X (Requests \cup {NoRequest}))
          /\ rows[r].version + 1 \in Nat \ {0}
      BY DEF Row
    <2> QED BY <2>1, <2>2 DEF Row, Columns
  <1>3. \A s \in Requests : s # r => rows'[s] = rows[s]
    BY <1>1 DEF Becomes
  <1>4. rows' \in [Requests -> Row \cup {NotAsked}]
    BY <1>1, <1>2, <1>3 DEF Becomes
  <1>5. ASSUME NEW s \in Requests, s # r
        PROVE  OutcomeMatches(rows[s])' /\ OwnQuotes(s)'
    <2>1. OutcomeMatches(rows[s]) /\ OwnQuotes(s) /\ rows'[s] = rows[s]
      BY <1>3, <1>5 DEF RowsRight
    <2>2. PICK a : a = rows[s]
      OBVIOUS
    <2>3. a.approved \in QuoteIds => quotes'[a.approved] = quotes[a.approved]
      <3>1. a.approved \in QuoteIds => a.approved[1] = s
        BY <2>1, <2>2, RequestAssumption DEF OwnQuotes, QuoteIds
      <3> QED BY <1>5, <3>1
    <2> QED BY <2>1, <2>2, <2>3 DEF OutcomeMatches, OwnQuotes
  <1> QED BY <1>4, <1>5 DEF RowsRight

\* What the expiring transactions do to the rows, before a new one is written.
LEMMA RowsExpire ==
    ASSUME RowsRight, quotes' = quotes, DOMAIN rows' = Requests, 
           rows' \in [Requests -> Row \cup {NotAsked}],
           NEW s \in Requests, rows'[s] = Expired(rows)[s] \/ rows'[s] = rows[s]
    PROVE  OutcomeMatches(rows[s])' /\ OwnQuotes(s)'
  <1>1. OutcomeMatches(rows[s]) /\ OwnQuotes(s)
    BY DEF RowsRight
  <1>2. CASE rows'[s] = rows[s]
    BY <1>1, <1>2 DEF OutcomeMatches, OwnQuotes
  <1>3. CASE Overdue(rows, s) /\ rows'[s] = Expired(rows)[s]
    <2>1. /\ rows'[s].status = "expired" /\ rows'[s].outcome = "confirmation-expired"
          /\ rows'[s].approved = rows[s].approved /\ rows'[s].active = rows[s].active
      <3>1. rows'[s] = Columns(rows[s].kind, rows[s].selected, "expired",
                               "confirmation-expired", rows[s].version + 1,
                               rows[s].active, rows[s].approved, rows[s].hold,
                               rows[s].assignee)
        BY <1>3, Expiring
      <3> QED BY <3>1 DEF Columns
    <2>2. OutcomeMatches(rows[s])'
      BY <2>1 DEF OutcomeMatches
    <2>3. OwnQuotes(s)'
      BY <1>1, <2>1 DEF OwnQuotes
    <2> QED BY <2>2, <2>3
  <1> QED BY <1>2, <1>3, ExpiredRows

LEMMA RowsExpired ==
    ASSUME RowsRight, quotes' = quotes,
           Availability \/ \E r \in Requests : Look(r)
    PROVE  RowsRight'
  <1>1. /\ DOMAIN rows' = Requests
        /\ \A s \in Requests : rows'[s] = Expired(rows)[s] \/ rows'[s] = rows[s]
        /\ rows' = [s \in Requests |-> rows'[s]]
    <2>1. rows \in [Requests -> Row \cup {NotAsked}] /\ DOMAIN Expired(rows) = Requests
      BY ExpiredRows DEF RowsRight
    <2>2. CASE Availability
      <3>1. rows' = Expired(rows)
        BY <2>2 DEF Availability
      <3> QED BY <2>1, <3>1 DEF Expired
    <2>3. ASSUME NEW r \in Requests, Look(r)
          PROVE  /\ DOMAIN rows' = Requests
                 /\ \A s \in Requests : rows'[s] = Expired(rows)[s] \/ rows'[s] = rows[s]
                 /\ rows' = [s \in Requests |-> rows'[s]]
      <3>1. PICK a : a = Expired(rows)[r]
        OBVIOUS
      <3>2. rows' = [rows EXCEPT ![r] = a]
        BY <2>3, <3>1 DEF Look, Shown
      <3> QED BY <2>1, <3>1, <3>2
    <2> QED BY <2>2, <2>3
  <1>2. ASSUME NEW s \in Requests
        PROVE  rows'[s] \in Row \cup {NotAsked}
    <2>1. rows[s] \in Row \cup {NotAsked}
      BY DEF RowsRight
    <2>2. CASE rows'[s] = rows[s]
      BY <2>1, <2>2
    <2>3. CASE Overdue(rows, s) /\ rows'[s] = Expired(rows)[s]
      <3>1. rows[s] \in Row
        BY <2>3, Expiring
      <3>2. /\ rows[s].kind \in Kinds
            /\ rows[s].selected \in SUBSET (Passengers \X (Requests \cup {NoRequest}))
            /\ rows[s].version + 1 \in Nat \ {0}
            /\ rows[s].active \in QuoteIds \cup {NoQuote}
            /\ rows[s].approved \in QuoteIds \cup {NoQuote}
            /\ rows[s].hold \in QuoteIds \cup {NoQuote}
            /\ rows[s].assignee \in Admins \cup Accountants \cup {NoUser}
        BY <3>1 DEF Row
      <3>3. rows'[s] = Columns(rows[s].kind, rows[s].selected, "expired",
                               "confirmation-expired", rows[s].version + 1,
                               rows[s].active, rows[s].approved, rows[s].hold,
                               rows[s].assignee)
        BY <2>3, Expiring
      <3> QED BY <3>2, <3>3 DEF Row, Columns
    <2> QED BY <1>1, <2>2, <2>3, ExpiredRows
  <1>3. rows' \in [Requests -> Row \cup {NotAsked}]
    BY <1>1, <1>2
  <1> QED BY <1>1, <1>3, RowsExpire DEF RowsRight

\* A new request is the only row of a creation that does not just expire.
LEMMA Creating ==
    ASSUME RowsRight, NEW r \in Requests, NEW kind, NEW P, Create(r, kind, P)
    PROVE  /\ rows[r] = NotAsked
           /\ rows' = [Expired(rows) EXCEPT ![r] =
                 [kind |-> kind,
                  selected |-> {e.id : e \in {d \in Initialized : d.id[1] \in P /\ d.state = "active"}},
                  status |-> "requested", outcome |-> "none", version |-> 1,
                  active |-> NoQuote, approved |-> NoQuote, hold |-> NoQuote,
                  assignee |-> NoUser]]
           /\ \A s \in Requests : s # r => rows'[s] = Expired(rows)[s]
  <1>1. rows[r] = NotAsked
    BY DEF Create, NewRequest
  <1>2. PICK new : new = {e.id : e \in {d \in Initialized : d.id[1] \in P /\ d.state = "active"}}
    OBVIOUS
  <1>3. rows' = [Expired(rows) EXCEPT ![r] =
            [NotAsked EXCEPT !.kind = kind, !.selected = new, !.status = "requested",
                             !.version = 1]]
    BY <1>2 DEF Create
  <1>4. [NotAsked EXCEPT !.kind = kind, !.selected = new, !.status = "requested",
                         !.version = 1]
        = [kind |-> kind, selected |-> new, status |-> "requested", outcome |-> "none",
           version |-> 1, active |-> NoQuote, approved |-> NoQuote, hold |-> NoQuote,
           assignee |-> NoUser]
    <2>1. PICK a : a = [NotAsked EXCEPT !.kind = kind]
      OBVIOUS
    <2>2. a = Columns(kind, {}, "none", "none", 0, NoQuote, NoQuote, NoQuote, NoUser)
      BY <2>1 DEF NotAsked, Columns
    <2>3. PICK b : b = [a EXCEPT !.selected = new]
      OBVIOUS
    <2>4. b = Columns(kind, new, "none", "none", 0, NoQuote, NoQuote, NoQuote, NoUser)
      BY <2>2, <2>3 DEF Columns
    <2>5. PICK c : c = [b EXCEPT !.status = "requested"]
      OBVIOUS
    <2>6. c = Columns(kind, new, "requested", "none", 0, NoQuote, NoQuote, NoQuote, NoUser)
      BY <2>4, <2>5 DEF Columns
    <2>7. PICK d : d = [c EXCEPT !.version = 1]
      OBVIOUS
    <2>8. d = Columns(kind, new, "requested", "none", 1, NoQuote, NoQuote, NoQuote, NoUser)
      BY <2>6, <2>7 DEF Columns
    <2>9. [NotAsked EXCEPT !.kind = kind, !.selected = new, !.status = "requested",
                           !.version = 1] = d
      BY <2>1, <2>3, <2>5, <2>7
    <2> QED BY <2>8, <2>9 DEF Columns
  <1>5. DOMAIN Expired(rows) = Requests
    BY DEF Expired
  <1> QED BY <1>1, <1>2, <1>3, <1>4, <1>5

LEMMA Allocated ==
    ASSUME TicketsRight
    PROVE  /\ IsFiniteSet(Initialized)
           /\ \A e \in Initialized :
                 /\ e \in Ticket
                 /\ e.id[2] # NoRequest => rows[e.id[2]].outcome # "none"
           /\ \A d, e \in Initialized : d.id = e.id => d = e
           /\ \A d, e \in Initialized :
                 d.state = "active" /\ e.state = "active" /\ d.id[1] = e.id[1] => d = e
           /\ entitlements \subseteq Initialized
  <1>1. CASE entitlements # {}
    BY <1>1 DEF TicketsRight, Initialized
  <1>2. CASE entitlements = {}
    <2>1. IsFiniteSet(InitialEntitlements)
      <3> DEFINE f(p) == [id |-> <<p, NoRequest>>, amount |-> Price[p], state |-> "active",
                          funding |-> <<[payment |-> Issue, amount |-> Price[p]]>>]
      <3>1. PICK F : F = [p \in Passengers |-> f(p)]
        OBVIOUS
      <3>2. InitialEntitlements = {F[p] : p \in Passengers}
        BY <3>1 DEF InitialEntitlements
      <3>3. F \in Surjection(Passengers, InitialEntitlements)
        BY <3>1, <3>2 DEF Surjection
      <3> QED BY <3>3, PriceAssumption, FS_Surjection
    <2>2. ASSUME NEW e \in InitialEntitlements
          PROVE  e \in Ticket /\ e.id[2] = NoRequest
      <3>1. PICK p \in Passengers :
               e = [id |-> <<p, NoRequest>>, amount |-> Price[p], state |-> "active",
                    funding |-> <<[payment |-> Issue, amount |-> Price[p]]>>]
        BY <2>2 DEF InitialEntitlements
      <3>2. Price[p] \in Nat
        BY PriceAssumption
      <3>3. <<[payment |-> Issue, amount |-> Price[p]]>> \in Seq([payment: Payments, amount: Nat])
        BY <3>2 DEF Payments
      <3> QED BY <3>1, <3>2, <3>3 DEF Ticket, TicketId
    <2>3. \A d, e \in InitialEntitlements : d.id[1] = e.id[1] => d = e
      BY DEF InitialEntitlements
    <2>4. Initialized = InitialEntitlements
      BY <1>2 DEF Initialized
    <2> QED BY <1>2, <2>1, <2>2, <2>3, <2>4
  <1> QED BY <1>1, <1>2

LEMMA RowsCreated ==
    ASSUME RowsRight, TicketsRight, NEW r \in Requests, NEW kind \in Kinds,
           NEW P \in SUBSET Passengers, Create(r, kind, P)
    PROVE  RowsRight'
  <1>1. /\ rows[r] = NotAsked /\ quotes' = quotes
        /\ rows'[r] =
             [kind |-> kind,
              selected |-> {e.id : e \in {d \in Initialized : d.id[1] \in P /\ d.state = "active"}},
              status |-> "requested", outcome |-> "none", version |-> 1,
              active |-> NoQuote, approved |-> NoQuote, hold |-> NoQuote,
              assignee |-> NoUser]
        /\ \A s \in Requests : s # r => rows'[s] = Expired(rows)[s]
        /\ DOMAIN rows' = Requests /\ rows' = [s \in Requests |-> rows'[s]]
    <2>1. /\ rows[r] = NotAsked
          /\ rows' = [Expired(rows) EXCEPT ![r] =
                [kind |-> kind,
                 selected |-> {e.id : e \in {d \in Initialized : d.id[1] \in P /\ d.state = "active"}},
                 status |-> "requested", outcome |-> "none", version |-> 1,
                 active |-> NoQuote, approved |-> NoQuote, hold |-> NoQuote,
                 assignee |-> NoUser]]
          /\ \A s \in Requests : s # r => rows'[s] = Expired(rows)[s]
      BY Creating, Zenon
    <2>2. quotes' = quotes
      BY DEF Create
    <2>3. DOMAIN Expired(rows) = Requests
      BY ExpiredRows
    <2>4. PICK new : new = [kind |-> kind,
                 selected |-> {e.id : e \in {d \in Initialized : d.id[1] \in P /\ d.state = "active"}},
                 status |-> "requested", outcome |-> "none", version |-> 1,
                 active |-> NoQuote, approved |-> NoQuote, hold |-> NoQuote,
                 assignee |-> NoUser]
      OBVIOUS
    <2>5. rows' = [Expired(rows) EXCEPT ![r] = new]
      BY <2>1, <2>4
    <2>6. rows'[r] = new /\ DOMAIN rows' = Requests /\ rows' = [s \in Requests |-> rows'[s]]
      BY <2>3, <2>5
    <2> QED BY <2>1, <2>2, <2>4, <2>6
  <1>2. {e.id : e \in {d \in Initialized : d.id[1] \in P /\ d.state = "active"}} \subseteq TicketId
    BY Allocated DEF Ticket
  <1>3. rows'[r] \in Row
    BY <1>1, <1>2 DEF Row, TicketId
  <1>4. ASSUME NEW s \in Requests, s # r
        PROVE  rows'[s] \in Row \cup {NotAsked}
    <2>1. rows[s] \in Row \cup {NotAsked} /\ rows'[s] = Expired(rows)[s]
      BY <1>1, <1>4 DEF RowsRight
    <2>2. CASE ~Overdue(rows, s)
      BY <2>1, <2>2, ExpiredRows
    <2>3. CASE Overdue(rows, s)
      <3>1. rows[s] \in Row
        BY <2>3, Expiring
      <3>2. /\ rows[s].kind \in Kinds
            /\ rows[s].selected \in SUBSET (Passengers \X (Requests \cup {NoRequest}))
            /\ rows[s].version + 1 \in Nat \ {0}
            /\ rows[s].active \in QuoteIds \cup {NoQuote}
            /\ rows[s].approved \in QuoteIds \cup {NoQuote}
            /\ rows[s].hold \in QuoteIds \cup {NoQuote}
            /\ rows[s].assignee \in Admins \cup Accountants \cup {NoUser}
        BY <3>1 DEF Row
      <3>3. rows'[s] = Columns(rows[s].kind, rows[s].selected, "expired",
                               "confirmation-expired", rows[s].version + 1,
                               rows[s].active, rows[s].approved, rows[s].hold,
                               rows[s].assignee)
        BY <2>1, <2>3, Expiring
      <3> QED BY <3>2, <3>3 DEF Row, Columns
    <2> QED BY <2>2, <2>3
  <1>5. rows' \in [Requests -> Row \cup {NotAsked}]
    BY <1>1, <1>3, <1>4
  <1>6. OutcomeMatches(rows[r])' /\ OwnQuotes(r)'
    BY <1>1 DEF OutcomeMatches, OwnQuotes
  <1>7. \A s \in Requests : s # r => OutcomeMatches(rows[s])' /\ OwnQuotes(s)'
    BY <1>1, <1>5, RowsExpire
  <1> QED BY <1>5, <1>6, <1>7 DEF RowsRight

LEMMA RowsQuoted ==
    ASSUME RowsRight, TicketsRight, NEW r \in Requests,
           Accept(r) \/ StaffReject(r) \/ PublishQuote(r) \/ Requote(r)
    PROVE  RowsRight'
  <1>1. OwnQuotes(r) /\ OutcomeMatches(rows[r]) /\ r \in DOMAIN rows
    BY DEF RowsRight
  <1>2. rows[r] \in Row =>
           /\ rows[r].active \in QuoteIds \cup {NoQuote}
           /\ rows[r].approved \in QuoteIds \cup {NoQuote}
           /\ rows[r].hold \in QuoteIds \cup {NoQuote}
           /\ rows[r].assignee \in Admins \cup Accountants \cup {NoUser}
    BY DEF Row
  <1>3. CASE Accept(r)
    <2>1. /\ rows[r] \in Row /\ quotes' = quotes
          /\ Becomes(r, "in-progress", "none", rows[r].active, rows[r].approved,
                     rows[r].hold, rows[r].assignee)
      BY <1>3, Quoting DEF Accept
    <2>2. /\ rows'[r].status = "in-progress" /\ rows'[r].outcome = "none"
          /\ rows'[r].approved = rows[r].approved /\ rows'[r].active = rows[r].active
      BY <1>1, <2>1 DEF Becomes, Columns
    <2>3. OwnQuotes(r)' /\ OutcomeMatches(rows[r])'
      BY <1>1, <2>2 DEF OwnQuotes, OutcomeMatches
    <2> QED BY <1>2, <2>1, <2>3, RowBecomes
  <1>4. CASE StaffReject(r)
    <2>1. /\ rows[r] \in Row /\ quotes' = quotes
          /\ Becomes(r, "rejected", "staff-rejected", rows[r].active, rows[r].approved,
                     rows[r].hold, rows[r].assignee)
      BY <1>4, Quoting DEF StaffReject
    <2>2. /\ rows'[r].status = "rejected" /\ rows'[r].outcome = "staff-rejected"
          /\ rows'[r].approved = rows[r].approved /\ rows'[r].active = rows[r].active
      BY <1>1, <2>1 DEF Becomes, Columns
    <2>3. OwnQuotes(r)' /\ OutcomeMatches(rows[r])'
      BY <1>1, <2>2 DEF OwnQuotes, OutcomeMatches
    <2> QED BY <1>2, <2>1, <2>3, RowBecomes
  <1>5. CASE PublishQuote(r)
    <2>1. PICK q \in QuoteIds :
             /\ q[1] = r
             /\ rows[r] \in Row
             /\ Becomes(r, "awaiting-confirmation", "none", q, rows[r].approved,
                        rows[r].hold, rows[r].assignee)
             /\ \E terms \in Terms(r) : quotes' = [quotes EXCEPT ![q] = terms]
      BY <1>5, Publishing
    <2>2. /\ rows'[r].status = "awaiting-confirmation" /\ rows'[r].outcome = "none"
          /\ rows'[r].approved = rows[r].approved /\ rows'[r].active = q
      BY <1>1, <2>1 DEF Becomes, Columns
    <2>3. OwnQuotes(r)' /\ OutcomeMatches(rows[r])'
      BY <1>1, <2>1, <2>2 DEF OwnQuotes, OutcomeMatches
    <2>4. \A p \in QuoteIds : p[1] # r => quotes'[p] = quotes[p]
      BY <2>1
    <2> QED BY <1>2, <2>1, <2>3, <2>4, RowBecomes
  <1>6. CASE Requote(r)
    <2>1. /\ rows[r] \in Row /\ quotes' = quotes
          /\ Becomes(r, "in-progress", "none", NoQuote, NoQuote, NoQuote, NoUser)
      BY <1>6, Quoting DEF Requote
    <2>2. /\ rows'[r].status = "in-progress" /\ rows'[r].outcome = "none"
          /\ rows'[r].approved = NoQuote /\ rows'[r].active = NoQuote
      BY <1>1, <2>1 DEF Becomes, Columns
    <2>3. OwnQuotes(r)' /\ OutcomeMatches(rows[r])'
      BY <2>2 DEF OwnQuotes, OutcomeMatches
    <2> QED BY <2>1, <2>3, RowBecomes
  <1> QED BY <1>3, <1>4, <1>5, <1>6

LEMMA RowsDecided ==
    ASSUME RowsRight, TicketsRight, NEW r \in Requests, NEW q \in QuoteIds,
           Confirm(r, q) \/ Decline(r, q)
    PROVE  RowsRight'
  <1>1. OwnQuotes(r) /\ OutcomeMatches(rows[r]) /\ r \in DOMAIN rows
    BY DEF RowsRight
  <1>2. rows[r] \in Row =>
           /\ rows[r].active \in QuoteIds \cup {NoQuote}
           /\ rows[r].approved \in QuoteIds \cup {NoQuote}
           /\ rows[r].hold \in QuoteIds \cup {NoQuote}
           /\ rows[r].assignee \in Admins \cup Accountants \cup {NoUser}
    BY DEF Row
  <1>3. CASE Confirm(r, q)
    <2>1. /\ rows[r] \in Row /\ quotes' = quotes /\ rows[r].active = q
          /\ Becomes(r, "approved", "none", q, q,
                     IF quotes[q].direction = "debit" THEN q ELSE NoQuote,
                     rows[r].assignee)
      BY <1>3, Deciding DEF Confirm
    <2>2. PICK h : h = IF quotes[q].direction = "debit" THEN q ELSE NoQuote
      OBVIOUS
    <2>3. /\ rows'[r].status = "approved" /\ rows'[r].outcome = "none"
          /\ rows'[r].approved = q /\ rows'[r].active = q /\ rows'[r].hold = h
          /\ rows'[r].selected = rows[r].selected
      BY <1>1, <2>1, <2>2 DEF Becomes, Columns
    <2>4. q[1] = r
      BY <1>1, <2>1, RequestAssumption DEF OwnQuotes, QuoteIds
    <2>5. quotes[q].extra \in [rows[r].selected -> Nat]
      BY <1>3, <2>1, TermsTyped DEF Confirm
    <2>6. OwnQuotes(r)' /\ OutcomeMatches(rows[r])'
      BY <2>1, <2>2, <2>3, <2>4, <2>5 DEF OwnQuotes, OutcomeMatches
    <2>7. h \in QuoteIds \cup {NoQuote} /\ Becomes(r, "approved", "none", q, q, h, rows[r].assignee)
      BY <2>1, <2>2
    <2> QED BY <1>2, <2>1, <2>6, <2>7, RowBecomes, SMTT(60)
  <1>4. CASE Decline(r, q)
    <2>1. /\ rows[r] \in Row /\ quotes' = quotes
          /\ Becomes(r, "rejected", "customer-rejected", rows[r].active,
                     rows[r].approved, rows[r].hold, rows[r].assignee)
      BY <1>4, Deciding DEF Decline
    <2>2. /\ rows'[r].status = "rejected" /\ rows'[r].outcome = "customer-rejected"
          /\ rows'[r].approved = rows[r].approved /\ rows'[r].active = rows[r].active
      BY <1>1, <2>1 DEF Becomes, Columns
    <2>3. OwnQuotes(r)' /\ OutcomeMatches(rows[r])'
      BY <1>1, <2>2 DEF OwnQuotes, OutcomeMatches
    <2> QED BY <1>2, <2>1, <2>3, RowBecomes, SMTT(60)
  <1> QED BY <1>3, <1>4

LEMMA RowsSettled ==
    ASSUME RowsRight, NEW r \in Requests, NEW u,
           Assign(r, u) \/ Release(r, u) \/ Complete(r, u)
    PROVE  RowsRight'
  <1>1. OwnQuotes(r) /\ OutcomeMatches(rows[r]) /\ r \in DOMAIN rows
    BY DEF RowsRight
  <1>2. rows[r] \in Row =>
           /\ rows[r].kind \in Kinds
           /\ rows[r].active \in QuoteIds \cup {NoQuote}
           /\ rows[r].approved \in QuoteIds \cup {NoQuote}
           /\ rows[r].hold \in QuoteIds \cup {NoQuote}
           /\ rows[r].assignee \in Admins \cup Accountants \cup {NoUser}
    BY DEF Row
  <1>3. CASE Assign(r, u)
    <2>1. /\ rows[r] \in Row /\ rows[r].outcome = "none" /\ rows[r].status = "approved"
          /\ u \in Accountants /\ quotes' = quotes
          /\ Becomes(r, "approved", "none", rows[r].active, rows[r].approved,
                     rows[r].hold, u)
      BY <1>3, Settling DEF Assign
    <2>2. /\ rows'[r].status = "approved" /\ rows'[r].outcome = "none"
          /\ rows'[r].approved = rows[r].approved /\ rows'[r].active = rows[r].active
          /\ rows'[r].hold = rows[r].hold
          /\ rows'[r].selected = rows[r].selected
      BY <1>1, <2>1 DEF Becomes, Columns
    <2>3. OwnQuotes(r)' /\ OutcomeMatches(rows[r])'
      BY <1>1, <2>1, <2>2 DEF OwnQuotes, OutcomeMatches
    <2> QED BY <1>2, <2>1, <2>3, RowBecomes
  <1>4. CASE Release(r, u)
    <2>1. /\ rows[r] \in Row /\ quotes' = quotes
          /\ Becomes(r, "in-progress", "none", NoQuote, NoQuote, NoQuote, NoUser)
      BY <1>4, Settling DEF Release
    <2>2. /\ rows'[r].status = "in-progress" /\ rows'[r].outcome = "none"
          /\ rows'[r].approved = NoQuote /\ rows'[r].active = NoQuote
      BY <1>1, <2>1 DEF Becomes, Columns
    <2>3. OwnQuotes(r)' /\ OutcomeMatches(rows[r])'
      BY <2>2 DEF OwnQuotes, OutcomeMatches
    <2> QED BY <2>1, <2>3, RowBecomes
  <1>5. CASE Complete(r, u)
    <2>1. PICK o : o = Outcome(rows[r].kind)
      OBVIOUS
    <2>2. /\ rows[r] \in Row /\ rows[r].status = "approved" /\ quotes' = quotes
          /\ Becomes(r, "approved", o, rows[r].active, rows[r].approved, rows[r].hold,
                     rows[r].assignee)
      BY <1>5, <2>1, Settling DEF Complete
    <2>3. o \in {Outcome(k) : k \in Kinds} /\ o # "none"
      BY <1>2, <2>1, <2>2 DEF Outcome, Kinds
    <2>4. /\ rows'[r].status = "approved" /\ rows'[r].outcome = o
          /\ rows'[r].approved = rows[r].approved /\ rows'[r].active = rows[r].active
          /\ rows'[r].kind = rows[r].kind
      BY <1>1, <2>2 DEF Becomes, Columns
    <2>5. OwnQuotes(r)'
      BY <1>1, <2>2, <2>3, <2>4 DEF OwnQuotes
    <2>6. OutcomeMatches(rows[r])'
      BY <2>1, <2>4 DEF OutcomeMatches
    <2> QED BY <1>2, <2>2, <2>3, <2>5, <2>6, RowBecomes
  <1> QED BY <1>3, <1>4, <1>5

LEMMA RowsKept ==
    ASSUME RowsRight, TicketsRight, [ManagementNext]_managementVars
    PROVE  RowsRight'
  <1>1. CASE UNCHANGED managementVars
    BY <1>1 DEF managementVars, deskVars, RowsRight, OutcomeMatches, OwnQuotes
  <1>2. ASSUME NEW q \in QuoteIds, DeadlinePasses(q)
        PROVE  RowsRight'
    BY <1>2 DEF DeadlinePasses, deskVars, RowsRight, OutcomeMatches, OwnQuotes
  <1>3. ASSUME Availability
        PROVE  RowsRight'
    BY <1>3, RowsExpired DEF Availability
  <1>4. ASSUME NEW r \in Requests, Desk(r)
        PROVE  RowsRight'
    <2>1. ASSUME Look(r)
          PROVE  RowsRight'
      BY <2>1, RowsExpired DEF Look
    <2> QED BY <1>4, <2>1, RowsCreated, RowsQuoted, RowsDecided, RowsSettled
            DEF Desk, Decision
  <1> QED BY <1>1, <1>2, <1>3, <1>4 DEF ManagementNext

-----------------------------------------------------------------------------
(* The tickets *)

\* The commands on a request that was made.
Command(r) ==
    \/ Accept(r) \/ StaffReject(r) \/ PublishQuote(r) \/ Requote(r)
    \/ \E q \in QuoteIds : Decision(r, q)
    \/ \E u \in Admins \cup Accountants : Assign(r, u) \/ Release(r, u) \/ Complete(r, u)

Follows(r) ==
    /\ rows[r] \in Row /\ rows[r].outcome = "none" /\ rows[r].status # "none"
    /\ \A s \in Requests : s # r => rows'[s] = rows[s]
    /\ rows'[r].selected = rows[r].selected /\ rows'[r].status # "none"
    /\ rows'[r].version = rows[r].version + 1

LEMMA BecomesFollows ==
    ASSUME RowsRight, NEW r \in Requests, NEW st, NEW o, NEW ac, NEW ap, NEW h, NEW u,
           Becomes(r, st, o, ac, ap, h, u), rows[r] \in Row, rows[r].outcome = "none",
           st # "none"
    PROVE  Follows(r)
  <1>1. rows[r].status # "none"
    BY DEF Row
  <1>2. DOMAIN rows = Requests
    BY DEF RowsRight
  <1> QED BY <1>1, <1>2 DEF Becomes, Columns, Follows

\* A command finds its request open, and changes no other row.
LEMMA Commanded ==
    ASSUME RowsRight, NEW r \in Requests, Command(r)
    PROVE  Follows(r)
  <1>1. ASSUME Accept(r) \/ StaffReject(r) \/ Requote(r)
        PROVE  Follows(r)
    BY <1>1, Quoting, BecomesFollows
  <1>2. ASSUME PublishQuote(r)
        PROVE  Follows(r)
    BY <1>2, Publishing, BecomesFollows
  <1>3. ASSUME NEW q \in QuoteIds, Confirm(r, q) \/ Decline(r, q)
        PROVE  Follows(r)
    BY <1>3, Deciding, BecomesFollows
  <1>4. ASSUME NEW u, Assign(r, u) \/ Release(r, u) \/ Complete(r, u)
        PROVE  Follows(r)
    BY <1>4, Settling, BecomesFollows
  <1> QED BY <1>1, <1>2, <1>3, <1>4 DEF Command, Decision

\* What an expiry leaves of a row.
LEMMA Lapsed ==
    ASSUME RowsRight, NEW s \in Requests,
           rows'[s] = Expired(rows)[s] \/ rows'[s] = rows[s]
    PROVE  \/ rows'[s] = rows[s]
           \/ /\ Overdue(rows, s)
              /\ rows[s] \in Row /\ rows[s].outcome = "none"
              /\ rows[s].status = "awaiting-confirmation"
              /\ rows'[s].status = "expired" /\ rows'[s].outcome = "confirmation-expired"
              /\ rows'[s].selected = rows[s].selected
              /\ rows'[s].version = rows[s].version + 1
  <1>1. CASE Overdue(rows, s) /\ rows'[s] = Expired(rows)[s]
    <2>1. /\ rows[s] \in Row /\ rows[s].outcome = "none"
          /\ rows[s].status = "awaiting-confirmation"
          /\ rows'[s] = Columns(rows[s].kind, rows[s].selected, "expired",
                                "confirmation-expired", rows[s].version + 1,
                                rows[s].active, rows[s].approved, rows[s].hold,
                                rows[s].assignee)
      BY <1>1, Expiring
    <2> QED BY <1>1, <2>1 DEF Columns
  <1> QED BY <1>1, ExpiredRows

LEMMA OutcomesStand ==
    ASSUME RowsRight, [ManagementNext]_managementVars, NEW s \in Requests,
           rows[s].outcome # "none"
    PROVE  rows'[s].outcome # "none"
  <1>1. CASE UNCHANGED rows
    BY <1>1
  <1>2. ASSUME rows'[s] = Expired(rows)[s] \/ rows'[s] = rows[s]
        PROVE  rows'[s].outcome # "none"
    BY <1>2, Lapsed
  <1>3. ASSUME NEW r \in Requests, Command(r)
        PROVE  rows'[s].outcome # "none"
    BY <1>3, Commanded DEF Follows
  <1>4. ASSUME NEW r \in Requests, NEW kind, NEW P, Create(r, kind, P)
        PROVE  rows'[s].outcome # "none"
    <2>1. rows[r] = NotAsked /\ \A t \in Requests : t # r => rows'[t] = Expired(rows)[t]
      BY <1>4, Creating, Zenon
    <2>2. s # r
      BY <2>1 DEF NotAsked
    <2> QED BY <1>2, <2>1, <2>2
  <1>5. ASSUME NEW r \in Requests, Look(r)
        PROVE  rows'[s].outcome # "none"
    <2>1. rows' = [rows EXCEPT ![r] = Expired(rows)[r]] /\ DOMAIN rows = Requests
      BY <1>5 DEF Look, Shown, RowsRight
    <2> QED BY <1>2, <2>1
  <1>6. ASSUME Availability
        PROVE  rows'[s].outcome # "none"
    BY <1>2, <1>6 DEF Availability
  <1>7. ASSUME NEW q \in QuoteIds, DeadlinePasses(q)
        PROVE  rows'[s].outcome # "none"
    BY <1>7, <1>1 DEF DeadlinePasses, deskVars
  <1>8. UNCHANGED managementVars => UNCHANGED rows
    BY DEF managementVars, deskVars
  <1> QED BY <1>1, <1>3, <1>4, <1>5, <1>6, <1>7, <1>8 DEF ManagementNext, Desk, Command

\* The settlement of a reissue: the old tickets end, and each has one successor.
LEMMA TicketsSettled ==
    ASSUME RowsRight, QuotesRight, TicketsRight, RowsRight',
           \A s \in Requests : rows[s].outcome # "none" => rows'[s].outcome # "none",
           NEW r \in Requests, NEW u, Complete(r, u)
    PROVE  TicketsRight' /\ Ids(entitlements) \subseteq Ids(entitlements)'
  <1> DEFINE done == Outcome(rows[r].kind)
             Mark(e) == IF e \in Selected(r) THEN [e EXCEPT !.state = done] ELSE e
             Next(e) == [id |-> <<e.id[1], r>>, state |-> "active",
                         amount |-> e.amount + quotes[rows[r].approved].extra[e.id],
                         funding |-> Funded(r, e)]
             Marked == {Mark(e) : e \in entitlements}
  <1>1. /\ rows[r] \in Row /\ rows[r].outcome = "none" /\ rows[r].status = "approved"
        /\ rows'[r].outcome # "none"
    <2>1. /\ rows[r] \in Row /\ rows[r].outcome = "none" /\ rows[r].status = "approved"
          /\ Becomes(r, "approved", Outcome(rows[r].kind), rows[r].active,
                     rows[r].approved, rows[r].hold, rows[r].assignee)
      BY Settling
    <2>2. DOMAIN rows = Requests /\ rows[r].kind \in Kinds
      BY <2>1 DEF RowsRight, Row
    <2> QED BY <2>1, <2>2 DEF Becomes, Columns, Outcome, Kinds
  <1>2. done \in {Outcome(k) : k \in Kinds} /\ done # "active"
    BY <1>1 DEF Row, Outcome, Kinds
  <1>3. PICK q : q = rows[r].approved /\ q \in QuoteIds
                 /\ quotes[q].extra \in [rows[r].selected -> Nat]
    BY <1>1 DEF RowsRight, OwnQuotes
  <1>4. Selected(r) \subseteq entitlements /\ IsFiniteSet(Selected(r))
        /\ \A e \in Selected(r) : e.state = "active" /\ e.id \in rows[r].selected
    <2>1. Selected(r) \in SUBSET entitlements
      BY DEF Selected
    <2> QED BY <2>1, FS_Subset DEF Selected, TicketsRight, Complete, SelectionsActive
  <1>5. entitlements' = Marked \cup Successors(r)
    BY DEF Complete
  <1>6. ASSUME NEW e \in entitlements
        PROVE  /\ Mark(e) \in Ticket /\ Mark(e).id = e.id
               /\ Mark(e).state = "active" => Mark(e) = e /\ e \notin Selected(r)
               /\ e.id[2] # r
    <2>1. e \in Ticket /\ (e.id[2] # NoRequest => rows[e.id[2]].outcome # "none")
      BY DEF TicketsRight
    <2>2. e.id[2] # r
      BY <1>1, <2>1, RequestAssumption
    <2>3. PICK o : o = done
      OBVIOUS
    <2>4. [e EXCEPT !.state = o] \in Ticket /\ [e EXCEPT !.state = o].id = e.id
          /\ [e EXCEPT !.state = o].state = o
      BY <1>2, <2>1, <2>3 DEF Ticket
    <2> HIDE DEF done
    <2> QED BY <1>2, <2>1, <2>2, <2>3, <2>4
  <1>7. ASSUME NEW e \in Selected(r)
        PROVE  /\ Next(e) \in Ticket /\ Next(e).id = <<e.id[1], r>>
               /\ Next(e).id[2] = r /\ Next(e).id[1] = e.id[1]
    <2>1. e \in Ticket /\ e.id \in rows[r].selected
      BY <1>4 DEF TicketsRight
    <2>2. quotes[q].extra[e.id] \in Nat
      BY <1>3, <2>1
    <2>3. Funded(r, e) \in Seq([payment: Payments, amount: Nat])
      <3>1. e.funding \in Seq([payment: Payments, amount: Nat])
        BY <2>1 DEF Ticket
      <3>2. [payment |-> q, amount |-> quotes[q].extra[e.id]] \in [payment: Payments, amount: Nat]
        BY <1>3, <2>2 DEF Payments
      <3>3. Append(e.funding, [payment |-> q, amount |-> quotes[q].extra[e.id]])
            \in Seq([payment: Payments, amount: Nat])
        BY <3>1, <3>2, AppendProperties
      <3> QED BY <1>3, <3>1, <3>3 DEF Funded
    <2>4. e.id[1] \in Passengers /\ e.amount \in Nat
      BY <2>1 DEF Ticket, TicketId
    <2> QED BY <1>3, <2>2, <2>3, <2>4, SMTT(60) DEF Ticket, TicketId
  <1>8. \A s \in Successors(r) : \E e \in Selected(r) : s = Next(e)
    BY DEF Successors
  <1> HIDE DEF Mark, Next, done
  <1>9. IsFiniteSet(entitlements')
    <2>1. IsFiniteSet(Marked)
      <3>1. PICK F : F = [e \in entitlements |-> Mark(e)]
        OBVIOUS
      <3>2. F \in Surjection(entitlements, Marked)
        BY <3>1 DEF Surjection
      <3> QED BY <3>2, FS_Surjection DEF TicketsRight
    <2>2. IsFiniteSet(Successors(r))
      <3>1. CASE rows[r].kind # "reissue"
        BY <3>1, FS_EmptySet DEF Successors
      <3>2. CASE rows[r].kind = "reissue"
        <4>1. Successors(r) = {Next(e) : e \in Selected(r)}
          BY <3>2 DEF Successors, Next
        <4>2. PICK F : F = [e \in Selected(r) |-> Next(e)]
          OBVIOUS
        <4>3. F \in Surjection(Selected(r), Successors(r))
          BY <4>1, <4>2 DEF Surjection
        <4> QED BY <1>4, <4>3, FS_Surjection
      <3> QED BY <3>1, <3>2
    <2> QED BY <1>5, <2>1, <2>2, FS_Union
  <1>10. ASSUME NEW d \in entitlements'
         PROVE  /\ d \in Ticket
                /\ d.id[2] # NoRequest => rows'[d.id[2]].outcome # "none"
    <2>1. ASSUME NEW e \in entitlements, d = Mark(e)
          PROVE  d.id[2] # NoRequest => rows'[d.id[2]].outcome # "none"
      <3>1. d.id = e.id /\ e.id \in TicketId
        BY <1>6, <2>1 DEF TicketsRight, Ticket
      <3>2. e.id[2] \in Requests \cup {NoRequest}
        BY <3>1 DEF TicketId
      <3> QED BY <3>1, <3>2 DEF TicketsRight
    <2> QED BY <1>1, <1>5, <1>6, <1>7, <1>8, <2>1
  <1>11. ASSUME NEW d \in entitlements', NEW e \in entitlements', d.id = e.id
         PROVE  d = e
    <2>1. ASSUME NEW a \in entitlements, d = Mark(a), NEW b \in entitlements, e = Mark(b)
          PROVE  d = e
      BY <1>6, <1>11, <2>1 DEF TicketsRight
    <2>2. ASSUME NEW a \in Selected(r), d = Next(a), NEW b \in Selected(r), e = Next(b)
          PROVE  d = e
      <3>1. a.id[1] = b.id[1] /\ a.state = "active" /\ b.state = "active"
        BY <1>4, <1>7, <1>11, <2>2
      <3>2. a = b
        BY <1>4, <3>1 DEF TicketsRight
      <3> QED BY <2>2, <3>2
    <2>3. ASSUME NEW a \in entitlements, NEW b \in Selected(r)
          PROVE  Mark(a).id # Next(b).id
      BY <1>6, <1>7, <2>3
    <2> QED BY <1>5, <1>8, <1>11, <2>1, <2>2, <2>3
  <1>12. ASSUME NEW d \in entitlements', NEW e \in entitlements',
                d.state = "active", e.state = "active", d.id[1] = e.id[1]
         PROVE  d = e
    <2>1. ASSUME NEW a \in entitlements, d = Mark(a), NEW b \in entitlements, e = Mark(b)
          PROVE  d = e
      BY <1>6, <1>12, <2>1 DEF TicketsRight
    <2>2. ASSUME NEW a \in Selected(r), d = Next(a), NEW b \in Selected(r), e = Next(b)
          PROVE  d = e
      <3>1. a.id[1] = b.id[1] /\ a.state = "active" /\ b.state = "active"
        BY <1>4, <1>7, <1>12, <2>2
      <3>2. a = b
        BY <1>4, <3>1 DEF TicketsRight
      <3> QED BY <2>2, <3>2
    <2>3. ASSUME NEW a \in entitlements, Mark(a).state = "active", NEW b \in Selected(r),
                 a.id[1] = b.id[1]
          PROVE  FALSE
      <3>1. a \notin Selected(r) /\ a.state = "active"
        BY <1>6, <2>3
      <3>2. a = b
        BY <1>4, <2>3, <3>1 DEF TicketsRight
      <3> QED BY <3>1, <3>2
    <2>4. ASSUME NEW a \in entitlements, d = Mark(a), NEW b \in Selected(r), e = Next(b)
          PROVE  FALSE
      BY <1>6, <1>7, <1>12, <2>3, <2>4
    <2>5. ASSUME NEW a \in entitlements, e = Mark(a), NEW b \in Selected(r), d = Next(b)
          PROVE  FALSE
      BY <1>6, <1>7, <1>12, <2>3, <2>5
    <2>6. (d \in Marked \/ d \in Successors(r)) /\ (e \in Marked \/ e \in Successors(r))
      BY <1>5, <1>12
    <2> QED BY <1>8, <2>1, <2>2, <2>4, <2>5, <2>6
  <1>13. Ids(entitlements) \subseteq Ids(entitlements)'
    <2>1. ASSUME NEW e \in entitlements
          PROVE  e.id \in Ids(entitlements)'
      <3>1. Mark(e) \in entitlements' /\ Mark(e).id = e.id
        BY <1>5, <1>6
      <3> QED BY <3>1 DEF Ids
    <2> QED BY <2>1 DEF Ids
  <1> QED BY <1>9, <1>10, <1>11, <1>12, <1>13 DEF TicketsRight

LEMMA TicketsKept ==
    ASSUME RowsRight, QuotesRight, TicketsRight, RowsRight', [ManagementNext]_managementVars
    PROVE  TicketsRight' /\ Ids(entitlements) \subseteq Ids(entitlements)'
  <1>1. \A s \in Requests : rows[s].outcome # "none" => rows'[s].outcome # "none"
    BY OutcomesStand
  <1>2. ASSUME \/ entitlements' = entitlements
               \/ entitlements' = Initialized
        PROVE  TicketsRight' /\ Ids(entitlements) \subseteq Ids(entitlements)'
    <2>1. /\ IsFiniteSet(entitlements')
          /\ \A e \in entitlements' :
                /\ e \in Ticket
                /\ e.id[2] # NoRequest => rows[e.id[2]].outcome # "none"
          /\ \A d, e \in entitlements' : d.id = e.id => d = e
          /\ \A d, e \in entitlements' :
                d.state = "active" /\ e.state = "active" /\ d.id[1] = e.id[1] => d = e
          /\ entitlements \subseteq entitlements'
      BY <1>2, Allocated DEF TicketsRight
    <2>2. ASSUME NEW e \in entitlements'
          PROVE  e.id[2] # NoRequest => rows'[e.id[2]].outcome # "none"
      <3>1. e.id[2] \in Requests \cup {NoRequest}
        BY <2>1 DEF Ticket, TicketId
      <3> QED BY <1>1, <2>1, <3>1
    <2>3. Ids(entitlements) \subseteq Ids(entitlements)'
      BY <2>1 DEF Ids
    <2> QED BY <2>1, <2>2, <2>3 DEF TicketsRight
  <1>3. ASSUME NEW r \in Requests, Desk(r), ~\E u \in Admins \cup Accountants : Complete(r, u)
        PROVE  entitlements' = entitlements \/ entitlements' = Initialized
    BY <1>3 DEF Desk, Decision, Create, Look, Accept, StaffReject, PublishQuote, Requote,
                Confirm, Decline, Assign, Release
  <1>4. Availability \/ (\E q \in QuoteIds : DeadlinePasses(q)) \/ UNCHANGED managementVars
        => entitlements' = entitlements \/ entitlements' = Initialized
    BY DEF Availability, DeadlinePasses, managementVars, deskVars
  <1> QED BY <1>1, <1>2, <1>3, <1>4, TicketsSettled DEF ManagementNext

-----------------------------------------------------------------------------
(* The claims *)

\* The claims of the requests that stay open stay, and no other.
LEMMA ClaimsFollow ==
    ASSUME RowsRight, ClaimsRight, Ids(entitlements) \subseteq Ids(entitlements)',
           \A s \in Requests : Open(rows', s) =>
               Open(rows, s) /\ rows'[s].selected = rows[s].selected,
           \A c \in claims : c \in claims' <=> Open(rows', c[2]),
           claims' \subseteq claims
    PROVE  ClaimsRight'
  <1>1. ASSUME NEW c \in claims'
        PROVE  /\ c \in Ids(entitlements)' \X Requests
               /\ Open(rows', c[2]) /\ c[1] \in rows'[c[2]].selected
    <2>1. /\ c \in Ids(entitlements) \X Requests
          /\ Open(rows, c[2]) /\ c[1] \in rows[c[2]].selected
      BY DEF ClaimsRight
    <2> QED BY <2>1
  <1>2. ASSUME NEW s \in Requests, Open(rows', s), NEW i \in rows'[s].selected
        PROVE  <<i, s>> \in claims'
    <2>1. <<i, s>> \in claims
      BY <1>2 DEF ClaimsRight
    <2> QED BY <1>2, <2>1
  <1>3. \A r, s \in Requests :
            Open(rows', r) /\ Open(rows', s) /\ r # s =>
                rows'[r].selected \cap rows'[s].selected = {}
    BY DEF ClaimsRight
  <1> QED BY <1>1, <1>2, <1>3 DEF ClaimsRight, Ids

LEMMA ClaimsCreated ==
    ASSUME RowsRight, TicketsRight, ClaimsRight, NEW r \in Requests, NEW kind \in Kinds,
           NEW P \in SUBSET Passengers, Create(r, kind, P)
    PROVE  ClaimsRight'
  <1> DEFINE es == {d \in Initialized : d.id[1] \in P /\ d.state = "active"}
             left == WithoutExpired(rows, claims)
             table == Expired(rows)
  <1>1. /\ rows[r] = NotAsked
        /\ rows'[r].status # "none" /\ rows'[r].outcome = "none"
        /\ rows'[r].selected = {e.id : e \in es}
        /\ \A s \in Requests : s # r => rows'[s] = table[s]
    <2>1. PICK new : new = {e.id : e \in es}
      OBVIOUS
    <2>2. /\ rows[r] = NotAsked
          /\ rows' = [table EXCEPT ![r] =
                [kind |-> kind, selected |-> new, status |-> "requested",
                 outcome |-> "none", version |-> 1,
                 active |-> NoQuote, approved |-> NoQuote, hold |-> NoQuote,
                 assignee |-> NoUser]]
          /\ \A s \in Requests : s # r => rows'[s] = table[s]
      <3>1. /\ rows[r] = NotAsked
            /\ rows' = [Expired(rows) EXCEPT ![r] =
                  [kind |-> kind,
                   selected |-> {e.id : e \in {d \in Initialized : d.id[1] \in P /\ d.state = "active"}},
                   status |-> "requested", outcome |-> "none", version |-> 1,
                   active |-> NoQuote, approved |-> NoQuote, hold |-> NoQuote,
                   assignee |-> NoUser]]
            /\ \A s \in Requests : s # r => rows'[s] = Expired(rows)[s]
        BY Creating, Zenon
      <3> QED BY <2>1, <3>1
    <2>3. DOMAIN table = Requests
      BY ExpiredRows
    <2> HIDE DEF table, es
    <2> QED BY <2>1, <2>2, <2>3
  <1>2. /\ claims' = left \cup {<<e.id, r>> : e \in es}
        /\ entitlements' = Initialized
        /\ \A c \in left : c[1] \notin {e.id : e \in es}
    BY DEF Create, Free
  <1>3. entitlements \subseteq Initialized
    BY Allocated
  <1>4. ASSUME NEW s \in Requests, s # r
        PROVE  /\ Open(rows', s) <=> Open(rows, s) /\ ~Overdue(rows, s)
               /\ Open(rows', s) => rows'[s].selected = rows[s].selected
    <2>1. rows'[s] = table[s] \/ rows'[s] = rows[s]
      BY <1>1, <1>4
    <2>2. CASE Overdue(rows, s)
      <3>1. rows'[s].outcome # "none"
        <4>1. rows'[s] = Columns(rows[s].kind, rows[s].selected, "expired",
                                 "confirmation-expired", rows[s].version + 1,
                                 rows[s].active, rows[s].approved, rows[s].hold,
                                 rows[s].assignee)
          BY <1>1, <1>4, <2>2, Expiring
        <4> QED BY <4>1 DEF Columns
      <3> QED BY <2>2, <3>1 DEF Open
    <2>3. CASE ~Overdue(rows, s)
      <3>1. rows'[s] = rows[s]
        BY <1>1, <1>4, <2>3, ExpiredRows
      <3> QED BY <2>3, <3>1 DEF Open
    <2> QED BY <2>2, <2>3
  <1>5. ASSUME NEW c \in left
        PROVE  /\ c \in Ids(entitlements) \X Requests /\ c[2] # r
               /\ Open(rows', c[2]) /\ c[1] \in rows'[c[2]].selected
    <2>1. c \in claims /\ ~Overdue(rows, c[2])
      BY <1>5 DEF WithoutExpired
    <2>2. /\ c \in Ids(entitlements) \X Requests
          /\ Open(rows, c[2]) /\ c[1] \in rows[c[2]].selected
      BY <2>1 DEF ClaimsRight
    <2>3. c[2] # r
      BY <1>1, <2>2 DEF Open, NotAsked
    <2> QED BY <1>4, <2>1, <2>2, <2>3
  <1>6. ASSUME NEW c \in claims'
        PROVE  /\ c \in Ids(entitlements)' \X Requests
               /\ Open(rows', c[2]) /\ c[1] \in rows'[c[2]].selected
    <2>1. Ids(entitlements) \subseteq Ids(entitlements)'
      BY <1>2, <1>3 DEF Ids
    <2>2. ASSUME NEW e \in es, c = <<e.id, r>>
          PROVE  /\ c \in Ids(entitlements)' \X Requests
                 /\ Open(rows', c[2]) /\ c[1] \in rows'[c[2]].selected
      <3>1. e.id \in Ids(entitlements)'
        BY <1>2, <2>2 DEF Ids
      <3>2. e.id \in {d.id : d \in es}
        OBVIOUS
      <3> HIDE DEF es
      <3> QED BY <1>1, <2>2, <3>1, <3>2 DEF Open
    <2>3. c \in left \/ \E e \in es : c = <<e.id, r>>
      BY <1>2
    <2> HIDE DEF left, es
    <2> QED BY <1>5, <2>1, <2>2, <2>3
  <1>7. ASSUME NEW s \in Requests, Open(rows', s), NEW i \in rows'[s].selected
        PROVE  <<i, s>> \in claims' /\ (s # r => <<i, s>> \in left)
    <2>1. CASE s = r
      BY <1>1, <1>2, <2>1
    <2>2. CASE s # r
      <3>1. Open(rows, s) /\ ~Overdue(rows, s) /\ i \in rows[s].selected
        BY <1>4, <1>7, <2>2
      <3>2. <<i, s>> \in claims
        BY <3>1 DEF ClaimsRight
      <3>3. <<i, s>> \in left
        BY <3>1, <3>2 DEF WithoutExpired
      <3> QED BY <1>2, <3>3
    <2> QED BY <2>1, <2>2
  <1>8. ASSUME NEW s \in Requests, NEW t \in Requests, Open(rows', s), Open(rows', t), s # t
        PROVE  rows'[s].selected \cap rows'[t].selected = {}
    <2>1. ASSUME NEW u \in Requests, u # r, Open(rows', u), NEW i \in rows'[u].selected
          PROVE  i \notin rows'[r].selected
      <3>1. <<i, u>> \in left
        BY <1>7, <2>1
      <3>2. i \notin {e.id : e \in es}
        BY <1>2, <3>1
      <3> HIDE DEF es
      <3> QED BY <1>1, <3>2
    <2>2. CASE s # r /\ t # r
      <3>1. /\ Open(rows, s) /\ Open(rows, t)
            /\ rows'[s].selected = rows[s].selected /\ rows'[t].selected = rows[t].selected
        BY <1>4, <1>8, <2>2
      <3> QED BY <1>8, <3>1 DEF ClaimsRight
    <2>3. CASE s = r
      BY <1>8, <2>1, <2>3
    <2>4. CASE t = r
      BY <1>8, <2>1, <2>4
    <2> QED BY <2>2, <2>3, <2>4
  <1> HIDE DEF es, left, table
  <1> QED BY <1>6, <1>7, <1>8 DEF ClaimsRight, Ids

LEMMA ClaimsLapse ==
    ASSUME RowsRight, ClaimsRight, Ids(entitlements) \subseteq Ids(entitlements)',
           Availability \/ \E r \in Requests : Look(r)
    PROVE  ClaimsRight'
  <1>1. ASSUME NEW s \in Requests, rows'[s] = Expired(rows)[s]
        PROVE  /\ Open(rows', s) <=> Open(rows, s) /\ ~Overdue(rows, s)
               /\ Open(rows', s) => rows'[s].selected = rows[s].selected
    <2>1. CASE Overdue(rows, s)
      <3>1. rows'[s].outcome # "none"
        <4>1. rows'[s] = Columns(rows[s].kind, rows[s].selected, "expired",
                                 "confirmation-expired", rows[s].version + 1,
                                 rows[s].active, rows[s].approved, rows[s].hold,
                                 rows[s].assignee)
          BY <1>1, <2>1, Expiring
        <4> QED BY <4>1 DEF Columns
      <3> QED BY <2>1, <3>1 DEF Open
    <2>2. CASE ~Overdue(rows, s)
      <3>1. rows'[s] = rows[s]
        BY <1>1, <2>2, ExpiredRows
      <3> QED BY <2>2, <3>1 DEF Open
    <2> QED BY <2>1, <2>2
  <1>2. \A c \in claims : c[2] \in Requests /\ Open(rows, c[2])
    BY DEF ClaimsRight
  <1>3. CASE Availability
    <2>1. rows' = Expired(rows) /\ claims' = WithoutExpired(rows, claims)
      BY <1>3 DEF Availability
    <2>2. \A s \in Requests : Open(rows', s) =>
               Open(rows, s) /\ rows'[s].selected = rows[s].selected
      BY <1>1, <2>1
    <2>3. \A c \in claims : c \in claims' <=> Open(rows', c[2])
      BY <1>1, <1>2, <2>1 DEF WithoutExpired
    <2>4. claims' \subseteq claims
      BY <2>1 DEF WithoutExpired
    <2> QED BY <2>2, <2>3, <2>4, ClaimsFollow
  <1>4. ASSUME NEW r \in Requests, Look(r)
        PROVE  ClaimsRight'
    <2>1. /\ rows' = [rows EXCEPT ![r] = Expired(rows)[r]] /\ DOMAIN rows = Requests
          /\ claims' = IF Overdue(rows, r) THEN claims \ ClaimsOf(r) ELSE claims
      BY <1>4 DEF Look, Shown, RowsRight
    <2>2. /\ rows'[r] = Expired(rows)[r]
          /\ \A s \in Requests : s # r => rows'[s] = rows[s]
      BY <2>1
    <2>3. \A s \in Requests : Open(rows', s) =>
               Open(rows, s) /\ rows'[s].selected = rows[s].selected
      BY <1>1, <2>2 DEF Open
    <2>4. ASSUME NEW c \in claims
          PROVE  c \in claims' <=> Open(rows', c[2])
      <3>1. CASE c[2] = r
        <4>1. c \in ClaimsOf(r) /\ Open(rows, r)
          BY <1>2, <3>1 DEF ClaimsOf
        <4> QED BY <1>1, <2>1, <2>2, <3>1, <4>1
      <3>2. CASE c[2] # r
        <4>1. c \notin ClaimsOf(r) /\ Open(rows, c[2]) /\ rows'[c[2]] = rows[c[2]]
          BY <1>2, <2>2, <3>2 DEF ClaimsOf
        <4> QED BY <2>1, <4>1 DEF Open
      <3> QED BY <3>1, <3>2
    <2>5. claims' \subseteq claims
      BY <2>1
    <2> QED BY <2>3, <2>4, <2>5, ClaimsFollow
  <1> QED BY <1>3, <1>4

\* A request that ends gives its tickets up in the same transaction.
LEMMA ClaimsCommanded ==
    ASSUME RowsRight, ClaimsRight, Ids(entitlements) \subseteq Ids(entitlements)',
           NEW r \in Requests, Command(r)
    PROVE  ClaimsRight'
  <1>1. Follows(r)
    BY Commanded
  <1>2. \A c \in claims : c[2] \in Requests /\ Open(rows, c[2])
    BY DEF ClaimsRight
  <1>3. \A s \in Requests : Open(rows', s) =>
            Open(rows, s) /\ rows'[s].selected = rows[s].selected
    BY <1>1 DEF Follows, Open
  <1>4. ASSUME claims' = claims, rows'[r].outcome = "none"
        PROVE  ClaimsRight'
    <2>1. \A c \in claims : Open(rows', c[2])
      BY <1>1, <1>2, <1>4 DEF Follows, Open
    <2> QED BY <1>3, <1>4, <2>1, ClaimsFollow
  <1>5. ASSUME ReleaseClaims(r), rows'[r].outcome # "none"
        PROVE  ClaimsRight'
    <2>1. claims' = claims \ ClaimsOf(r)
      BY <1>5 DEF ReleaseClaims
    <2>2. \A c \in claims : c \in claims' <=> Open(rows', c[2])
      BY <1>1, <1>2, <1>5, <2>1 DEF Follows, Open, ClaimsOf
    <2> QED BY <1>3, <2>1, <2>2, ClaimsFollow
  <1>6. DOMAIN rows = Requests
    BY DEF RowsRight
  <1>7. CASE Accept(r)
    <2>1. rows'[r].outcome = "none"
      BY <1>6, <1>7, Quoting DEF Becomes, Columns
    <2> QED BY <1>4, <1>7, <2>1 DEF Accept
  <1>8. CASE StaffReject(r)
    <2>1. rows'[r].outcome # "none"
      BY <1>6, <1>8, Quoting DEF Becomes, Columns
    <2> QED BY <1>5, <1>8, <2>1 DEF StaffReject
  <1>9. CASE PublishQuote(r)
    <2>1. rows'[r].outcome = "none"
      BY <1>6, <1>9, Publishing DEF Becomes, Columns
    <2> QED BY <1>4, <1>9, <2>1 DEF PublishQuote
  <1>10. CASE Requote(r)
    <2>1. rows'[r].outcome = "none"
      BY <1>6, <1>10, Quoting DEF Becomes, Columns
    <2> QED BY <1>4, <1>10, <2>1 DEF Requote
  <1>11. ASSUME NEW q \in QuoteIds, Confirm(r, q)
         PROVE  ClaimsRight'
    <2>1. rows'[r].outcome = "none"
      BY <1>6, <1>11, Deciding DEF Becomes, Columns
    <2> QED BY <1>4, <1>11, <2>1 DEF Confirm
  <1>12. ASSUME NEW q \in QuoteIds, Decline(r, q)
         PROVE  ClaimsRight'
    <2>1. rows'[r].outcome # "none"
      BY <1>6, <1>12, Deciding DEF Becomes, Columns
    <2> QED BY <1>5, <1>12, <2>1 DEF Decline
  <1>13. ASSUME NEW u, Assign(r, u)
         PROVE  ClaimsRight'
    <2>1. rows'[r].outcome = "none"
      BY <1>6, <1>13, Settling DEF Becomes, Columns
    <2> QED BY <1>4, <1>13, <2>1 DEF Assign
  <1>14. ASSUME NEW u, Release(r, u)
         PROVE  ClaimsRight'
    <2>1. rows'[r].outcome = "none"
      BY <1>6, <1>14, Settling DEF Becomes, Columns
    <2> QED BY <1>4, <1>14, <2>1 DEF Release
  <1>15. ASSUME NEW u, Complete(r, u)
         PROVE  ClaimsRight'
    <2>1. PICK o : o = Outcome(rows[r].kind)
      OBVIOUS
    <2>2. rows[r].kind \in Kinds /\ rows'[r].outcome = o
      BY <1>6, <1>15, <2>1, Settling DEF Becomes, Columns, Row
    <2>3. rows'[r].outcome # "none"
      BY <2>1, <2>2 DEF Outcome, Kinds
    <2> QED BY <1>5, <1>15, <2>3 DEF Complete
  <1> QED BY <1>7, <1>8, <1>9, <1>10, <1>11, <1>12, <1>13, <1>14, <1>15
          DEF Command, Decision

LEMMA ClaimsKept ==
    ASSUME RowsRight, TicketsRight, ClaimsRight, Ids(entitlements) \subseteq Ids(entitlements)',
           [ManagementNext]_managementVars
    PROVE  ClaimsRight'
  <1>1. CASE rows' = rows /\ claims' = claims
    BY <1>1, ClaimsFollow DEF ClaimsRight
  <1>2. (UNCHANGED managementVars) \/ (\E q \in QuoteIds : DeadlinePasses(q))
        => rows' = rows /\ claims' = claims
    BY DEF managementVars, deskVars, DeadlinePasses
  <1> QED BY <1>1, <1>2, ClaimsCreated, ClaimsLapse, ClaimsCommanded
          DEF ManagementNext, Desk, Command

-----------------------------------------------------------------------------
(* The quotations and the screens of finance *)

LEMMA QuotesKept ==
    ASSUME RowsRight, QuotesRight, TicketsRight, [ManagementNext]_managementVars
    PROVE  QuotesRight'
  <1>1. ASSUME quotes' = quotes, elapsed' = elapsed \/ \E q \in QuoteIds : elapsed' = elapsed \cup {q}
        PROVE  QuotesRight'
    BY <1>1 DEF QuotesRight
  <1>2. ASSUME NEW r \in Requests, PublishQuote(r)
        PROVE  QuotesRight'
    <2>1. PICK q \in QuoteIds, terms \in Terms(r) :
             rows[r] \in Row /\ quotes' = [quotes EXCEPT ![q] = terms]
      BY <1>2, Publishing
    <2>2. terms.amount \in Nat /\ terms.direction \in {"credit", "debit", "none"}
      BY <2>1, TermsTyped
    <2>3. elapsed' = elapsed
      BY <1>2 DEF PublishQuote, worldVars
    <2> QED BY <2>1, <2>2, <2>3 DEF QuotesRight
  <1>3. ASSUME NEW r \in Requests, Desk(r), ~PublishQuote(r)
        PROVE  quotes' = quotes /\ elapsed' = elapsed
    BY <1>3 DEF Desk, Decision, Create, Look, Accept, StaffReject, Requote, Confirm,
                Decline, Assign, Release, Complete, worldVars
  <1>4. ASSUME Availability \/ (\E q \in QuoteIds : DeadlinePasses(q)) \/ UNCHANGED managementVars
        PROVE  /\ quotes' = quotes
               /\ elapsed' = elapsed \/ \E q \in QuoteIds : elapsed' = elapsed \cup {q}
    BY <1>4 DEF Availability, DeadlinePasses, managementVars, deskVars, worldVars
  <1> QED BY <1>1, <1>2, <1>3, <1>4 DEF ManagementNext

\* A row only changes with its version.
LEMMA ViewFollows ==
    ASSUME RowsRight, ViewRight, view' = view,
           \A s \in Requests : rows'[s] = rows[s] \/ rows'[s].version = rows[s].version + 1
    PROVE  ViewRight'
  <1>1. \A s \in Requests : rows[s].version \in Nat
    BY DEF RowsRight, Row, NotAsked
  <1> QED BY <1>1 DEF ViewRight

LEMMA ViewKept ==
    ASSUME RowsRight, ViewRight, RowsRight', [ManagementNext]_managementVars
    PROVE  ViewRight'
  <1>1. ASSUME UNCHANGED <<rows, view>>
        PROVE  ViewRight'
    BY <1>1, ViewFollows
  <1>2. (UNCHANGED managementVars) \/ (\E q \in QuoteIds : DeadlinePasses(q))
        => UNCHANGED <<rows, view>>
    BY DEF managementVars, deskVars, worldVars, DeadlinePasses
  <1>3. ASSUME Availability
        PROVE  ViewRight'
    <2>1. rows' = Expired(rows) /\ view' = view
      BY <1>3 DEF Availability, worldVars
    <2>2. \A s \in Requests : rows'[s] = rows[s] \/ rows'[s].version = rows[s].version + 1
      BY <2>1, Lapsed
    <2> QED BY <2>1, <2>2, ViewFollows
  <1>4. ASSUME NEW r \in Requests, Command(r)
        PROVE  ViewRight'
    <2>1. view' = view
      BY <1>4 DEF Command, Decision, Accept, StaffReject, PublishQuote, Requote, Confirm,
                  Decline, Assign, Release, Complete, worldVars
    <2> QED BY <1>4, <2>1, Commanded, ViewFollows DEF Follows
  <1>5. ASSUME NEW r \in Requests, NEW kind, NEW P, Create(r, kind, P)
        PROVE  ViewRight'
    <2>1. /\ rows[r] = NotAsked
          /\ rows' = [Expired(rows) EXCEPT ![r] =
                [kind |-> kind,
                 selected |-> {e.id : e \in {d \in Initialized : d.id[1] \in P /\ d.state = "active"}},
                 status |-> "requested", outcome |-> "none", version |-> 1,
                 active |-> NoQuote, approved |-> NoQuote, hold |-> NoQuote,
                 assignee |-> NoUser]]
          /\ \A s \in Requests : s # r => rows'[s] = Expired(rows)[s]
      BY <1>5, Creating, Zenon
    <2>2. DOMAIN Expired(rows) = Requests
      BY ExpiredRows
    <2>3. rows'[r].version = rows[r].version + 1
      BY <2>1, <2>2 DEF NotAsked
    <2>4. \A s \in Requests : rows'[s] = rows[s] \/ rows'[s].version = rows[s].version + 1
      BY <2>1, <2>3, Lapsed
    <2>5. view' = view
      BY <1>5 DEF Create, worldVars
    <2> QED BY <2>4, <2>5, ViewFollows
  <1>6. ASSUME NEW r \in Requests, Look(r)
        PROVE  ViewRight'
    <2>1. /\ rows' = [rows EXCEPT ![r] = Expired(rows)[r]] /\ DOMAIN rows = Requests
          /\ view' = [view EXCEPT ![r] =
                IF rows'[r].status = "approved" THEN Screen(rows'[r]) ELSE @]
      BY <1>6 DEF Look, Shown, RowsRight
    <2>2. \A s \in Requests : rows'[s] = rows[s] \/ rows'[s].version = rows[s].version + 1
      BY <2>1, Lapsed
    <2>3. \A s \in Requests : rows[s].version \in Nat /\ rows'[s].version \in Nat
      BY DEF RowsRight, Row, NotAsked
    <2>4. ASSUME NEW s \in Requests
          PROVE  /\ view'[s].version \in Nat /\ view'[s].version <= rows'[s].version
                 /\ view'[s].version = rows'[s].version => view'[s].approved = rows'[s].approved
      <3>1. CASE view'[s] = view[s]
        BY <2>2, <2>3, <3>1 DEF ViewRight
      <3>2. CASE view'[s] = Screen(rows'[s])
        BY <2>3, <3>2 DEF Screen
      <3>3. view'[s] = view[s] \/ view'[s] = Screen(rows'[s])
        BY <2>1 DEF ViewRight
      <3> QED BY <3>1, <3>2, <3>3
    <2>5. DOMAIN view' = Requests
      BY <2>1 DEF ViewRight
    <2> QED BY <2>4, <2>5 DEF ViewRight
  <1> QED BY <1>1, <1>2, <1>3, <1>4, <1>5, <1>6 DEF ManagementNext, Desk, Command

-----------------------------------------------------------------------------
(* The money *)

LEMMA CostTyped ==
    ASSUME NEW s \in Requests
    PROVE  /\ RowsRight /\ QuotesRight => CostOf(s) \in Int
           /\ (RowsRight /\ QuotesRight)' => CostOf(s)' \in Int
  <1>1. ASSUME RowsRight, QuotesRight
        PROVE  CostOf(s) \in Int
    <2>1. rows[s].status = "approved" => rows[s].approved \in QuoteIds
      BY <1>1 DEF RowsRight, OwnQuotes
    <2> QED BY <1>1, <2>1 DEF QuotesRight, CostOf
  <1>2. ASSUME RowsRight', QuotesRight'
        PROVE  CostOf(s)' \in Int
    <2>1. rows'[s].status = "approved" => rows'[s].approved \in QuoteIds
      BY <1>2 DEF RowsRight, OwnQuotes
    <2> QED BY <1>2, <2>1 DEF QuotesRight, CostOf
  <1> QED BY <1>1, <1>2

LEMMA TotalPrimed == Total(Costs)' = Total(Costs')
  BY DEF Total, MapThenSumSet, MapThenFoldSet

\* The payer pays or gets back what the cost of one request changes by.
LEMMA MoneyMoves ==
    ASSUME RowsRight, QuotesRight, MoneyRight, RowsRight', QuotesRight',
           NEW r \in Requests, NEW n \in Int,
           \A s \in Requests : s # r => CostOf(s)' = CostOf(s),
           CostOf(r)' = CostOf(r) - n,
           spendable' = [spendable EXCEPT ![Payer] = @ + n], spendable[Payer] + n \in Nat
    PROVE  MoneyRight'
  <1>1. PICK f, g : f = Costs /\ g = Costs'
    OBVIOUS
  <1>2. f = [s \in Requests |-> CostOf(s)] /\ g = [s \in Requests |-> CostOf(s)']
    BY <1>1 DEF Costs
  <1>3. f \in [Requests -> Int] /\ g \in [Requests -> Int]
    BY <1>2, CostTyped
  <1>4. \A s \in Requests \ {r} : g[s] = f[s]
    BY <1>2
  <1>5. f[r] \in Int /\ g[r] = f[r] - n
    BY <1>2, CostTyped
  <1>6. IsFiniteSet(Requests)
    BY RequestAssumption
  <1>7. Total(g) = Total(f) - f[r] + g[r] /\ Total(f) \in Int
    BY <1>3, <1>4, <1>6, SumChanges, TotalIsSum
  <1>8. Total(g) = Total(f) - n
    BY <1>5, <1>7
  <1>9. spendable[Payer] = Funds - Total(f) /\ DOMAIN spendable = {Payer}
    BY <1>1 DEF MoneyRight
  <1>10. spendable'[Payer] = Funds - Total(g) /\ DOMAIN spendable' = {Payer}
         /\ spendable'[Payer] \in Nat
    BY <1>7, <1>8, <1>9, FundsAssumption DEF MoneyRight
  <1>11. Total(g) = Total(Costs)'
    BY <1>1, TotalPrimed
  <1> QED BY <1>10, <1>11 DEF MoneyRight

LEMMA MoneyStays ==
    ASSUME MoneyRight, spendable' = spendable, \A s \in Requests : CostOf(s)' = CostOf(s)
    PROVE  MoneyRight'
  <1>1. Costs' = Costs
    BY DEF Costs
  <1>2. Total(Costs)' = Total(Costs)
    BY <1>1, TotalPrimed
  <1> QED BY <1>2 DEF MoneyRight

LEMMA CostStays ==
    ASSUME RowsRight, NEW s \in Requests, rows'[s] = rows[s],
           \A q \in QuoteIds : q[1] = s => quotes'[q] = quotes[q]
    PROVE  CostOf(s)' = CostOf(s)
  <1>1. rows[s].status = "approved" => rows[s].approved \in QuoteIds /\ rows[s].approved[1] = s
    BY RequestAssumption DEF RowsRight, OwnQuotes, QuoteIds
  <1>2. CASE rows[s].status # "approved"
    BY <1>2 DEF CostOf
  <1>3. CASE rows[s].status = "approved"
    <2>1. PICK a, t : a = rows[s] /\ t = quotes[a.approved]
      OBVIOUS
    <2>2. rows'[s] = a /\ quotes'[a.approved] = t
      BY <1>1, <1>3, <2>1
    <2> QED BY <2>1, <2>2 DEF CostOf
  <1> QED BY <1>2, <1>3

\* A quotation that expires was never paid.
LEMMA CostLapses ==
    ASSUME RowsRight, quotes' = quotes, NEW s \in Requests,
           rows'[s] = Expired(rows)[s] \/ rows'[s] = rows[s]
    PROVE  CostOf(s)' = CostOf(s)
  <1>1. CASE rows'[s] = rows[s]
    BY <1>1, CostStays
  <1>2. CASE rows'[s].status = "expired" /\ rows[s].status = "awaiting-confirmation"
    BY <1>2 DEF CostOf
  <1> QED BY <1>1, <1>2, Lapsed

LEMMA MoneyQuoted ==
    ASSUME RowsRight, QuotesRight, MoneyRight, NEW r \in Requests,
           Accept(r) \/ StaffReject(r) \/ PublishQuote(r) \/ Requote(r)
    PROVE  MoneyRight'
  <1>1. DOMAIN rows = Requests /\ OwnQuotes(r)
    BY DEF RowsRight
  <1>2. /\ spendable' = spendable
        /\ \A q \in QuoteIds : q[1] # r => quotes'[q] = quotes[q]
    <2>1. PublishQuote(r) => \A q \in QuoteIds : q[1] # r => quotes'[q] = quotes[q]
      <3> SUFFICES ASSUME PublishQuote(r)
                   PROVE  \A q \in QuoteIds : q[1] # r => quotes'[q] = quotes[q]
        OBVIOUS
      <3>1. PICK q \in QuoteIds :
               q[1] = r /\ \E terms \in Terms(r) : quotes' = [quotes EXCEPT ![q] = terms]
        BY Publishing
      <3> QED BY <3>1
    <2> QED BY <2>1 DEF Accept, StaffReject, PublishQuote, Requote, walletVars
  <1>3. \A s \in Requests : s # r => CostOf(s)' = CostOf(s)
    <2>1. Follows(r)
      BY Commanded DEF Command
    <2> QED BY <1>2, <2>1, CostStays DEF Follows
  <1>4. CostOf(r)' = CostOf(r)
    <2>1. CASE Accept(r)
      <3>1. rows[r].status # "approved" /\ rows'[r].status # "approved"
        BY <1>1, <2>1, Quoting DEF Becomes, Columns
      <3> QED BY <3>1 DEF CostOf
    <2>2. CASE StaffReject(r)
      <3>1. rows[r].status # "approved" /\ rows'[r].status # "approved"
        BY <1>1, <2>2, Quoting DEF Becomes, Columns
      <3> QED BY <3>1 DEF CostOf
    <2>3. CASE PublishQuote(r)
      <3>1. rows[r].status # "approved" /\ rows'[r].status # "approved"
        BY <1>1, <2>3, Publishing DEF Becomes, Columns
      <3> QED BY <3>1 DEF CostOf
    <2>4. CASE Requote(r)
      <3>1. /\ rows[r].status = "approved" /\ rows[r].hold = NoQuote
            /\ rows[r].outcome = "none" /\ rows'[r].status # "approved"
        BY <1>1, <2>4, Quoting DEF Becomes, Columns
      <3>2. quotes[rows[r].approved].direction \in {"credit", "none"}
        BY <1>1, <3>1, RequestAssumption DEF OwnQuotes, QuotesRight, QuoteIds
      <3> QED BY <3>1, <3>2 DEF CostOf
    <2> QED BY <2>1, <2>2, <2>3, <2>4
  <1> QED BY <1>2, <1>3, <1>4, MoneyStays

LEMMA MoneyDecided ==
    ASSUME RowsRight, QuotesRight, MoneyRight, RowsRight', QuotesRight',
           NEW r \in Requests, NEW q \in QuoteIds, Confirm(r, q) \/ Decline(r, q)
    PROVE  MoneyRight'
  <1>1. DOMAIN rows = Requests /\ OwnQuotes(r)
    BY DEF RowsRight
  <1>2. quotes' = quotes
    BY DEF Confirm, Decline
  <1>3. \A s \in Requests : s # r => CostOf(s)' = CostOf(s)
    <2>1. Follows(r)
      BY Commanded DEF Command, Decision
    <2> QED BY <1>2, <2>1, CostStays DEF Follows
  <1>4. CASE Decline(r, q)
    <2>1. rows[r].status # "approved" /\ rows'[r].status # "approved"
      BY <1>1, <1>4, Deciding DEF Becomes, Columns
    <2>2. CostOf(r)' = CostOf(r)
      BY <2>1 DEF CostOf
    <2>3. spendable' = spendable
      BY <1>4 DEF Decline, walletVars
    <2> QED BY <1>3, <2>2, <2>3, MoneyStays
  <1>5. CASE Confirm(r, q)
    <2>1. /\ rows[r].status = "awaiting-confirmation"
          /\ rows'[r].status = "approved" /\ rows'[r].outcome = "none"
          /\ rows'[r].approved = q
      BY <1>1, <1>5, Deciding DEF Becomes, Columns
    <2>2. CostOf(r) = 0
      BY <2>1 DEF CostOf
    <2>3. CASE quotes[q].direction = "debit"
      <3>1. CostOf(r)' = quotes[q].amount
        BY <1>2, <2>1, <2>3 DEF CostOf
      <3>2. /\ quotes[q].amount <= spendable[Payer]
            /\ spendable' = [spendable EXCEPT ![Payer] = @ - quotes[q].amount]
        BY <1>5, <2>3 DEF Confirm, Wallet!Hold
      <3>3. PICK n : n = -quotes[q].amount
        OBVIOUS
      <3>4. quotes[q].amount \in Nat /\ spendable[Payer] \in Nat /\ DOMAIN spendable = {Payer}
        BY DEF QuotesRight, MoneyRight
      <3>5. /\ n \in Int /\ CostOf(r)' = CostOf(r) - n /\ spendable[Payer] + n \in Nat
            /\ spendable[Payer] - quotes[q].amount = spendable[Payer] + n
        BY <2>2, <3>1, <3>2, <3>3, <3>4
      <3>6. spendable' = [spendable EXCEPT ![Payer] = @ + n]
        BY <3>2, <3>5
      <3> QED BY <1>3, <3>5, <3>6, MoneyMoves
    <2>4. CASE quotes[q].direction # "debit"
      <3>1. quotes[q].direction \in {"credit", "none"} /\ spendable' = spendable
        BY <1>5, <2>4 DEF QuotesRight, Confirm, walletVars
      <3>2. CostOf(r)' = 0
        BY <1>2, <2>1, <3>1 DEF CostOf
      <3> QED BY <1>3, <2>2, <3>1, <3>2, MoneyStays
    <2> QED BY <2>3, <2>4
  <1> QED BY <1>4, <1>5

LEMMA MoneySettled ==
    ASSUME RowsRight, QuotesRight, MoneyRight, RowsRight', QuotesRight',
           NEW r \in Requests, NEW u \in Admins \cup Accountants,
           Assign(r, u) \/ Release(r, u) \/ Complete(r, u)
    PROVE  MoneyRight'
  <1>1. /\ rows[r].status = "approved" /\ rows[r].outcome = "none"
        /\ rows[r].kind \in Kinds
    <2>1. rows[r].status = "approved" /\ rows[r].outcome = "none" /\ rows[r] \in Row
      BY Settling
    <2> QED BY <2>1 DEF Row
  <1>2. /\ DOMAIN rows = Requests /\ rows[r].approved \in QuoteIds
        /\ rows[r].approved # NoQuote
        /\ rows[r].hold = IF quotes[rows[r].approved].direction = "debit"
                          THEN rows[r].approved ELSE NoQuote
    BY <1>1, RequestAssumption DEF RowsRight, OwnQuotes, QuoteIds
  <1>3. PICK q \in QuoteIds : q = rows[r].approved
    BY <1>2
  <1>4. quotes' = quotes
    BY DEF Assign, Release, Complete
  <1>5. /\ quotes[q].direction \in {"credit", "debit", "none"} /\ quotes[q].amount \in Nat
        /\ spendable[Payer] \in Nat /\ DOMAIN spendable = {Payer}
    BY DEF QuotesRight, MoneyRight
  <1>6. CostOf(r) = IF quotes[q].direction = "debit" THEN quotes[q].amount ELSE 0
    BY <1>1, <1>3, <1>5 DEF CostOf
  <1>7. \A s \in Requests : s # r => CostOf(s)' = CostOf(s)
    <2>1. Follows(r)
      BY Commanded DEF Command
    <2> QED BY <1>4, <2>1, CostStays DEF Follows
  <1>8. CASE Assign(r, u)
    <2>1. /\ rows'[r].status = "approved" /\ rows'[r].outcome = "none"
          /\ rows'[r].approved = q
      BY <1>2, <1>3, <1>8, Settling DEF Becomes, Columns
    <2>2. CostOf(r)' = CostOf(r)
      BY <1>4, <1>5, <1>6, <2>1 DEF CostOf
    <2>3. spendable' = spendable
      BY <1>8 DEF Assign, walletVars
    <2> QED BY <1>7, <2>2, <2>3, MoneyStays
  <1>9. CASE Release(r, u)
    <2>1. rows'[r].status = "in-progress"
      BY <1>2, <1>9, Settling DEF Becomes, Columns
    <2>2. CostOf(r)' = 0
      BY <2>1 DEF CostOf
    <2>3. CASE rows[r].hold = NoQuote
      <3>1. spendable' = spendable
        BY <1>9, <2>3 DEF Release, walletVars
      <3>2. CostOf(r) = 0
        BY <1>2, <1>3, <1>6, <2>3
      <3> QED BY <1>7, <2>2, <3>1, <3>2, MoneyStays
    <2>4. CASE rows[r].hold # NoQuote
      <3>1. rows[r].hold = q /\ quotes[q].direction = "debit"
        BY <1>2, <1>3, <2>4
      <3>2. /\ purchase[q] = [phase |-> "held", account |-> Payer, cost |-> quotes[q].amount]
            /\ Wallet!GiveBack(q)
        BY <1>3, <1>9, <2>4, <3>1 DEF Release, HoldValid
      <3>3. purchase[q].account = Payer /\ purchase[q].cost = quotes[q].amount
        BY <3>2
      <3>4. spendable' = [spendable EXCEPT ![Payer] = @ + quotes[q].amount]
        BY <3>2, <3>3 DEF Wallet!GiveBack
      <3>5. PICK n : n = quotes[q].amount
        OBVIOUS
      <3>6. n \in Int /\ CostOf(r)' = CostOf(r) - n /\ spendable[Payer] + n \in Nat
        BY <1>5, <1>6, <2>2, <3>1, <3>5
      <3>7. spendable' = [spendable EXCEPT ![Payer] = @ + n]
        BY <3>4, <3>5
      <3> QED BY <1>7, <3>6, <3>7, MoneyMoves
    <2> QED BY <2>3, <2>4
  <1>10. CASE Complete(r, u)
    <2>1. PICK o : o = Outcome(rows[r].kind)
      OBVIOUS
    <2>2. o # "none"
      BY <1>1, <2>1 DEF Outcome, Kinds
    <2>3. /\ rows'[r].status = "approved" /\ rows'[r].outcome = o
          /\ rows'[r].approved = q
      BY <1>2, <1>3, <1>10, <2>1, Settling DEF Becomes, Columns
    <2>4. Settled(quotes[q].direction, r)
      BY <1>3, <1>10 DEF Complete
    <2>5. CASE quotes[q].direction = "credit"
      <3>1. Refunds(r)
        BY <2>4, <2>5 DEF Settled
      <3>2. PICK n : n = Total([p \in Payments |-> CreditOf(r, p)])
        OBVIOUS
      <3>3. n = quotes[q].amount /\ spendable' = [spendable EXCEPT ![Payer] = @ + n]
        BY <1>3, <3>1, <3>2 DEF Refunds
      <3>4. CostOf(r)' = -quotes[q].amount
        BY <1>4, <2>2, <2>3, <2>5 DEF CostOf
      <3>5. n \in Int /\ CostOf(r)' = CostOf(r) - n /\ spendable[Payer] + n \in Nat
        BY <1>5, <1>6, <2>5, <3>3, <3>4
      <3> QED BY <1>7, <3>3, <3>5, MoneyMoves
    <2>6. CASE quotes[q].direction # "credit"
      <3>1. spendable' = spendable
        BY <1>5, <2>4, <2>6 DEF Settled, Wallet!Charge, walletVars
      <3>2. CostOf(r)' = CostOf(r)
        BY <1>4, <1>5, <1>6, <2>3, <2>6 DEF CostOf
      <3> QED BY <1>7, <3>1, <3>2, MoneyStays
    <2> QED BY <2>5, <2>6
  <1> QED BY <1>8, <1>9, <1>10

LEMMA MoneyCreated ==
    ASSUME RowsRight, MoneyRight, NEW r \in Requests, NEW kind, NEW P, Create(r, kind, P)
    PROVE  MoneyRight'
  <1>1. quotes' = quotes /\ spendable' = spendable
    BY DEF Create, walletVars
  <1>2. /\ rows[r] = NotAsked
        /\ rows' = [Expired(rows) EXCEPT ![r] =
              [kind |-> kind,
               selected |-> {e.id : e \in {d \in Initialized : d.id[1] \in P /\ d.state = "active"}},
               status |-> "requested", outcome |-> "none", version |-> 1,
               active |-> NoQuote, approved |-> NoQuote, hold |-> NoQuote,
               assignee |-> NoUser]]
        /\ \A s \in Requests : s # r => rows'[s] = Expired(rows)[s]
    BY Creating, Zenon
  <1>3. DOMAIN Expired(rows) = Requests
    BY ExpiredRows
  <1>4. rows'[r].status # "approved" /\ rows[r].status # "approved"
    BY <1>2, <1>3 DEF NotAsked
  <1>5. CostOf(r)' = CostOf(r)
    BY <1>4 DEF CostOf
  <1>6. \A s \in Requests : s # r => CostOf(s)' = CostOf(s)
    BY <1>1, <1>2, CostLapses
  <1> QED BY <1>1, <1>5, <1>6, MoneyStays

LEMMA MoneyKept ==
    ASSUME RowsRight, QuotesRight, MoneyRight, RowsRight', QuotesRight',
           [ManagementNext]_managementVars
    PROVE  MoneyRight'
  <1>1. ASSUME spendable' = spendable, quotes' = quotes,
               \A s \in Requests : rows'[s] = Expired(rows)[s] \/ rows'[s] = rows[s]
        PROVE  MoneyRight'
    BY <1>1, CostLapses, MoneyStays
  <1>2. (UNCHANGED managementVars) \/ (\E q \in QuoteIds : DeadlinePasses(q))
        => UNCHANGED <<rows, quotes, spendable>>
    BY DEF managementVars, deskVars, walletVars, DeadlinePasses
  <1>3. ASSUME Availability
        PROVE  MoneyRight'
    BY <1>1, <1>3 DEF Availability, walletVars
  <1>4. ASSUME NEW r \in Requests, Look(r)
        PROVE  MoneyRight'
    <2>1. /\ rows' = [rows EXCEPT ![r] = Expired(rows)[r]] /\ DOMAIN rows = Requests
          /\ spendable' = spendable /\ quotes' = quotes
      BY <1>4 DEF Look, Shown, RowsRight, walletVars
    <2>2. \A s \in Requests : rows'[s] = Expired(rows)[s] \/ rows'[s] = rows[s]
      BY <2>1
    <2> QED BY <1>1, <2>1, <2>2
  <1> QED BY <1>1, <1>2, <1>3, <1>4, MoneyQuoted, MoneyDecided, MoneySettled, MoneyCreated
          DEF ManagementNext, Desk, Decision

-----------------------------------------------------------------------------
(* The theorems *)

LEMMA DeskStarts == ManagementInit => DeskInvariant
  <1> SUFFICES ASSUME ManagementInit
               PROVE  DeskInvariant
    OBVIOUS
  <1>1. \A r \in Requests : rows[r] = NotAsked
    BY DEF ManagementInit
  <1>2. RowsRight
    <2>1. rows \in [Requests -> Row \cup {NotAsked}]
      BY DEF ManagementInit
    <2>2. \A r \in Requests : OutcomeMatches(rows[r]) /\ OwnQuotes(r)
      BY <1>1 DEF NotAsked, OutcomeMatches, OwnQuotes
    <2> QED BY <2>1, <2>2 DEF RowsRight
  <1>3. QuotesRight
    BY DEF ManagementInit, QuotesRight, NoTerms
  <1>4. TicketsRight
    BY FS_EmptySet DEF ManagementInit, TicketsRight
  <1>5. ClaimsRight
    BY <1>1 DEF ManagementInit, ClaimsRight, Open, NotAsked
  <1>6. MoneyRight
    <2>1. \A r \in Requests : CostOf(r) = 0
      BY <1>1 DEF CostOf, NotAsked
    <2>2. PICK f : f = Costs
      OBVIOUS
    <2>3. /\ f \in [Requests -> Nat] /\ f \in [Requests -> Int]
          /\ \A r \in Requests : f[r] = f[r] + f[r]
      BY <2>1, <2>2 DEF Costs
    <2>4. IsFiniteSet(Requests)
      BY RequestAssumption
    <2>5. Total(f) = Total(f) + Total(f) /\ Total(f) \in Int
      BY <2>3, <2>4, SumAdds, TotalIsSum
    <2>6. Total(Costs) = 0
      <3>1. \A n \in Int : n = n + n => n = 0
        OBVIOUS
      <3>2. Total(f) = 0
        BY <2>5, <3>1, Zenon
      <3> QED BY <2>2, <3>2
    <2>7. DOMAIN spendable = {Payer} /\ spendable[Payer] = Funds
      BY DEF ManagementInit
    <2> QED BY <2>6, <2>7, FundsAssumption DEF MoneyRight
  <1>7. ViewRight
    BY <1>1 DEF ManagementInit, ViewRight, Screen, NotAsked
  <1> QED BY <1>2, <1>3, <1>4, <1>5, <1>6, <1>7 DEF DeskInvariant

LEMMA DeskSteps == DeskInvariant /\ [ManagementNext]_managementVars => DeskInvariant'
  <1> SUFFICES ASSUME DeskInvariant, [ManagementNext]_managementVars
               PROVE  DeskInvariant'
    OBVIOUS
  <1> USE DEF DeskInvariant
  <1>1. RowsRight'
    BY RowsKept
  <1>2. QuotesRight'
    BY QuotesKept
  <1>3. TicketsRight' /\ Ids(entitlements) \subseteq Ids(entitlements)'
    BY <1>1, TicketsKept
  <1>4. ClaimsRight'
    BY <1>3, ClaimsKept
  <1>5. MoneyRight'
    BY <1>1, <1>2, MoneyKept
  <1>6. ViewRight'
    BY <1>1, ViewKept
  <1> QED BY <1>1, <1>2, <1>3, <1>4, <1>5, <1>6

LEMMA DeskHolds == ManagementSpec => []DeskInvariant
  BY DeskStarts, DeskSteps, PTL DEF ManagementSpec

\* Whatever customers, clients and staff do to the requests of a booking, a
\* ticket is in the hands of one open request, which holds its claims as long
\* as it is open and not longer, and no passenger ever has two good tickets
\* (create_with_preferences, save and settle).
THEOREM TicketsHaveOneRequest == ManagementSpec => []OneRequestPerTicket
  <1>1. DeskInvariant => OneRequestPerTicket
    <2> SUFFICES ASSUME DeskInvariant
                 PROVE  OneRequestPerTicket
      OBVIOUS
    <2> USE DEF DeskInvariant
    <2>1. claims \subseteq {e.id : e \in entitlements} \X Requests
      BY DEF ClaimsRight, Ids
    <2>2. ManagementTypeOK
      BY <2>1 DEF ManagementTypeOK, RowsRight, QuotesRight, TicketsRight, Ticket, TicketId
    <2>3. ASSUME NEW r \in Requests
          PROVE  {c[1] : c \in ClaimsOf(r)} =
                     IF Open(rows, r) THEN rows[r].selected ELSE {}
      <3>1. \A c \in ClaimsOf(r) : Open(rows, r) /\ c[1] \in rows[r].selected
        BY DEF ClaimsOf, ClaimsRight
      <3>2. Open(rows, r) => \A i \in rows[r].selected : <<i, r>> \in ClaimsOf(r)
        BY DEF ClaimsOf, ClaimsRight
      <3>3. ASSUME Open(rows, r), NEW i \in rows[r].selected
            PROVE  i \in {c[1] : c \in ClaimsOf(r)}
        <4>1. <<i, r>> \in ClaimsOf(r) /\ <<i, r>>[1] = i
          BY <3>2, <3>3
        <4> QED BY <4>1
      <3> QED BY <3>1, <3>3
    <2>4. /\ \A d, e \in entitlements :
                d.state = "active" /\ e.state = "active" /\ d.id[1] = e.id[1] => d = e
          /\ \A r, s \in Requests :
                Open(rows, r) /\ Open(rows, s) /\ r # s =>
                    rows[r].selected \cap rows[s].selected = {}
      BY DEF TicketsRight, ClaimsRight
    <2> QED BY <2>2, <2>3, <2>4 DEF OneRequestPerTicket
  <1> QED BY <1>1, DeskHolds, PTL

\* The balance is always the money there was less what the approved quotations
\* cost, to the last minor unit, and never negative, for any number of requests
\* and quotations (confirm, release and settle).
THEOREM AgreedIsPaid == ManagementSpec => []BalanceIsAgreed
  <1>1. DeskInvariant => BalanceIsAgreed
    <2>1. MapThenSumSet(CostOf, Requests) = Total([r \in Requests |-> CostOf(r)])
      BY RequestAssumption, CostsSum
    <2> QED BY <2>1 DEF DeskInvariant, MoneyRight, BalanceIsAgreed, Costs
  <1> QED BY <1>1, DeskHolds, PTL

\* Finance settles and releases the quotation it saw: every command that ends an
\* approved request, or gives its hold back, carries the version of the screen,
\* and a version has one approved quotation (settle and release).
THEOREM SettledWasSeen == ManagementSpec => SettledAsSeenAlways
  <1>1. DeskInvariant /\ [ManagementNext]_managementVars => [SettledAsSeen]_managementVars
    <2> SUFFICES ASSUME DeskInvariant, ManagementNext,
                        NEW s \in Requests, rows[s].status = "approved", Open(rows, s),
                        ~Open(rows', s) \/ (rows[s].hold # NoQuote /\ rows'[s].hold = NoQuote)
                 PROVE  view[s].approved = rows[s].approved
      BY DEF SettledAsSeen
    <2>1. RowsRight /\ ViewRight /\ DOMAIN rows = Requests
      BY DEF DeskInvariant, RowsRight
    <2>2. rows'[s] # rows[s]
      BY DEF Open
    <2>3. rows'[s] # Expired(rows)[s]
      BY <2>1, <2>2, Lapsed
    <2>4. ASSUME AsSeen(s)
          PROVE  view[s].approved = rows[s].approved
      BY <2>1, <2>4 DEF AsSeen, ViewRight
    <2>5. ASSUME NEW r \in Requests, Command(r)
          PROVE  view[s].approved = rows[s].approved
      <3>1. r = s
        BY <2>1, <2>2, <2>5, Commanded DEF Follows
      <3>2. CASE Accept(s) \/ StaffReject(s)
        BY <3>2 DEF Accept, StaffReject, May
      <3>3. CASE PublishQuote(s)
        BY <3>3 DEF PublishQuote, May
      <3>4. CASE Requote(s)
        <4>1. rows[s].hold = NoQuote
          BY <2>1, <3>4, Quoting
        <4>2. rows'[s].outcome = "none" /\ rows'[s].status # "none"
          BY <2>1, <3>4, Quoting DEF Becomes, Columns
        <4> QED BY <4>1, <4>2 DEF Open
      <3>5. ASSUME NEW q \in QuoteIds, Decision(s, q)
            PROVE  FALSE
        BY <3>5 DEF Decision, Confirm, Decline, MayConfirm, May
      <3>6. ASSUME NEW u, Assign(s, u)
            PROVE  FALSE
        <4>1. /\ rows'[s].outcome = "none" /\ rows'[s].status # "none"
              /\ rows'[s].hold = rows[s].hold
          BY <2>1, <3>6, Settling DEF Becomes, Columns
        <4> QED BY <4>1 DEF Open
      <3>7. ASSUME NEW u, Release(s, u) \/ Complete(s, u)
            PROVE  AsSeen(s)
        BY <3>7 DEF Release, Complete
      <3> QED BY <2>4, <2>5, <3>1, <3>2, <3>3, <3>4, <3>5, <3>6, <3>7 DEF Command
    <2>6. ASSUME NEW r \in Requests, NEW kind, NEW P, Create(r, kind, P)
          PROVE  FALSE
      <3>1. rows[r] = NotAsked /\ \A t \in Requests : t # r => rows'[t] = Expired(rows)[t]
        BY <2>1, <2>6, Creating, Zenon
      <3> QED BY <2>3, <3>1 DEF NotAsked
    <2>7. ASSUME NEW r \in Requests, Look(r)
          PROVE  FALSE
      <3>1. rows' = [rows EXCEPT ![r] = Expired(rows)[r]]
        BY <2>7 DEF Look, Shown
      <3> QED BY <2>1, <2>2, <2>3, <3>1
    <2>8. ~Availability
      BY <2>3 DEF Availability
    <2>9. ASSUME NEW q \in QuoteIds, DeadlinePasses(q)
          PROVE  FALSE
      BY <2>2, <2>9 DEF DeadlinePasses, deskVars
    <2> QED BY <2>5, <2>6, <2>7, <2>8, <2>9 DEF ManagementNext, Desk, Command
  <1> QED BY <1>1, DeskHolds, PTL DEF ManagementSpec, SettledAsSeenAlways

-----------------------------------------------------------------------------
(* What was approved can be settled: the inductive invariant *)

\* A slice of a ticket is money that was paid for it, and they are all of it.
FundedRight ==
    \A e \in entitlements :
        Total([i \in DOMAIN e.funding |-> e.funding[i].amount]) = e.amount

\* The tickets of an open request are there and good.
SelectedRight ==
    \A r \in Requests : Open(rows, r) =>
        /\ rows[r].selected # {}
        /\ \A i \in rows[r].selected :
              \E e \in entitlements : e.id = i /\ e.state = "active"

WorthOf(r) == Total([e \in Selected(r) |-> e.amount])

\* What was approved and is not settled: a credit is no more than its tickets cost, a
\* reissue asks for the differences of all its tickets at least, and a debit is held.
ApprovedTerms(r) ==
    LET q == rows[r].approved
        terms == quotes[q]
    IN  /\ terms.direction = "credit" => rows[r].kind # "reissue" /\ terms.amount <= WorthOf(r)
        /\ terms.direction = "none" => terms.amount = 0
        /\ terms.direction = "debit" =>
              purchase[q] = [phase |-> "held", account |-> Payer, cost |-> terms.amount]
        /\ rows[r].kind = "reissue" => Total(terms.extra) <= terms.amount

ApprovedRight ==
    \A r \in Requests :
        rows[r].status = "approved" /\ rows[r].outcome = "none" => ApprovedTerms(r)

Purchase ==
    [phase: {"none", "held", "charged", "returned"}, account: {Payer, Nobody}, cost: Nat]

\* What the account has and what its purchases cost is all there ever was.
PurchasesRight ==
    /\ purchase \in [Payments -> Purchase]
    /\ spendable[Payer] + Total([p \in Payments |-> purchase[p].cost])
       = Funds + Total(Price)

\* What a payment can still give back.
Kept(p) == IF purchase[p].phase = "charged" THEN purchase[p].cost ELSE 0

\* The slices of the good tickets never exceed what their payments kept; nor
\* will those of the first tickets, before they are written.
OwedRight ==
    \A p \in Payments :
        /\ Owed(entitlements, p) <= Kept(p)
        /\ entitlements = {} => Owed(InitialEntitlements, p) <= Kept(p)

AgreedInvariant ==
    FundedRight /\ SelectedRight /\ ApprovedRight /\ PurchasesRight /\ OwedRight

-----------------------------------------------------------------------------
(* What the tickets were paid with *)

Good(es) == {d \in es : d.state = "active"}

\* What a payment gave for some tickets.
PaidFor(es, p) == Total([e \in es |-> Paid(e, p)])

LEMMA OwedIsPaid ==
    ASSUME NEW es, NEW p
    PROVE  Owed(es, p) = PaidFor(Good(es), p)
  BY DEF Owed, PaidFor, Good

LEMMA FundingTyped ==
    ASSUME NEW e \in Ticket
    PROVE  /\ IsFiniteSet(DOMAIN e.funding)
           /\ \A i \in DOMAIN e.funding :
                 e.funding[i].payment \in Payments /\ e.funding[i].amount \in Nat
  <1>1. e.funding \in Seq([payment: Payments, amount: Nat])
    BY DEF Ticket
  <1>2. DOMAIN e.funding = 1..Len(e.funding) /\ Len(e.funding) \in Nat
    BY <1>1, LenProperties
  <1>3. \A i \in DOMAIN e.funding : e.funding[i] \in [payment: Payments, amount: Nat]
    BY <1>1, <1>2, ElementOfSeq
  <1>4. IsFiniteSet(1..Len(e.funding))
    BY <1>2, FS_Interval
  <1> QED BY <1>2, <1>3, <1>4

LEMMA PaidTyped ==
    ASSUME NEW e \in Ticket, NEW p
    PROVE  Paid(e, p) \in Nat
  <1>1. PICK f : f = [i \in DOMAIN e.funding |->
                        IF e.funding[i].payment = p THEN e.funding[i].amount ELSE 0]
    OBVIOUS
  <1>2. f \in [DOMAIN e.funding -> Nat] /\ IsFiniteSet(DOMAIN e.funding)
    BY <1>1, FundingTyped
  <1>3. SumOf(f) \in Nat
    BY <1>2, SumCovers
  <1> QED BY <1>1, <1>3, TotalIsSum DEF Paid

\* Of some tickets, those apart and the others.
LEMMA PaidSplits ==
    ASSUME NEW es, IsFiniteSet(es), es \subseteq Ticket, NEW ds, ds \subseteq es, NEW p
    PROVE  /\ PaidFor(es, p) = PaidFor(ds, p) + PaidFor(es \ ds, p)
           /\ PaidFor(es, p) \in Nat /\ PaidFor(ds, p) \in Nat /\ PaidFor(es \ ds, p) \in Nat
  <1>1. ASSUME NEW cs, cs \subseteq es
        PROVE  PaidFor(cs, p) \in Nat
    <2>1. PICK f : f = [e \in cs |-> Paid(e, p)]
      OBVIOUS
    <2>2. f \in [cs -> Nat] /\ IsFiniteSet(cs)
      BY <1>1, <2>1, PaidTyped, FS_Subset
    <2>3. SumOf(f) \in Nat
      BY <2>2, SumCovers
    <2> QED BY <2>1, <2>3, TotalIsSum DEF PaidFor
  <1>2. PICK f : f = [e \in es |-> Paid(e, p)]
    OBVIOUS
  <1>3. f \in [es -> Int] /\ ds \in SUBSET es
    BY <1>2, PaidTyped
  <1>4. SumOf(f) = SumOf([e \in ds |-> f[e]]) + SumOf([e \in es \ ds |-> f[e]])
    BY <1>3, SumSplits, ZenonT(90)
  <1>5. [e \in ds |-> f[e]] = [e \in ds |-> Paid(e, p)]
        /\ [e \in es \ ds |-> f[e]] = [e \in es \ ds |-> Paid(e, p)]
    BY <1>2
  <1>6. PaidFor(es, p) = PaidFor(ds, p) + PaidFor(es \ ds, p)
    BY <1>2, <1>4, <1>5, TotalIsSum DEF PaidFor
  <1>7. es \subseteq es /\ es \ ds \subseteq es
    OBVIOUS
  <1> QED BY <1>1, <1>6, <1>7

\* The slices of some tickets are in the order of the passengers.
SlicesOf(es) == UNION {{e} \X DOMAIN e.funding : e \in es}

LEMMA SlicesAre ==
    ASSUME NEW es
    PROVE  \A s : s \in SlicesOf(es) <=>
                /\ s = <<s[1], s[2]>>
                /\ s[1] \in es /\ s[2] \in DOMAIN s[1].funding
  BY DEF SlicesOf

LEMMA SlicesFinite ==
    ASSUME NEW es, IsFiniteSet(es), es \subseteq Ticket
    PROVE  IsFiniteSet(SlicesOf(es))
  <1>1. PICK C : C = {{e} \X DOMAIN e.funding : e \in es}
    OBVIOUS
  <1>2. PICK F : F = [e \in es |-> {e} \X DOMAIN e.funding]
    OBVIOUS
  <1>3. F \in Surjection(es, C)
    BY <1>1, <1>2 DEF Surjection
  <1>4. IsFiniteSet(C)
    BY <1>3, FS_Surjection
  <1>5. ASSUME NEW e \in es
        PROVE  IsFiniteSet({e} \X DOMAIN e.funding)
    <2>1. IsFiniteSet(DOMAIN e.funding) /\ IsFiniteSet({e})
      BY FundingTyped, FS_Singleton
    <2> QED BY <2>1, FS_Product
  <1>6. \A c \in C : IsFiniteSet(c)
    BY <1>1, <1>5
  <1> QED BY <1>1, <1>4, <1>6, FS_UNION DEF SlicesOf

\* R orders the members of S strictly, any two of them.
Ordered(S, R) ==
    /\ \A s \in S : <<s, s>> \notin R
    /\ \A s, t, u \in S : <<s, t>> \in R /\ <<t, u>> \in R => <<s, u>> \in R
    /\ \A s, t \in S : s = t \/ <<s, t>> \in R \/ <<t, s>> \in R

\* R is the order of the slices of some tickets, one for each passenger.
SliceOrder(es, S, R) ==
    /\ es \subseteq Ticket /\ S = SlicesOf(es)
    /\ \A d, e \in es : d.id[1] = e.id[1] => d = e
    /\ \A s, t \in S : <<s, t>> \in R <=> Earlier(s, t)

LEMMA SlicesOrdered ==
    ASSUME NEW es, NEW S, NEW R, SliceOrder(es, S, R)
    PROVE  Ordered(S, R)
  <1>0. /\ es \subseteq Ticket /\ S = SlicesOf(es)
        /\ \A d, e \in es : d.id[1] = e.id[1] => d = e
    BY DEF SliceOrder
  <1>1. \A s \in S : /\ s = <<s[1], s[2]>> /\ s[1] \in es
                                /\ s[1].id[1] \in Nat /\ s[2] \in Nat
    <2> SUFFICES ASSUME NEW s \in S
                 PROVE  /\ s = <<s[1], s[2]>> /\ s[1] \in es
                        /\ s[1].id[1] \in Nat /\ s[2] \in Nat
      OBVIOUS
    <2>1. s = <<s[1], s[2]>> /\ s[1] \in es /\ s[2] \in DOMAIN s[1].funding
      BY <1>0, SlicesAre
    <2>2. s[1].id \in TicketId /\ s[1].funding \in Seq([payment: Payments, amount: Nat])
      BY <1>0, <2>1 DEF Ticket
    <2>3. s[1].id[1] \in Nat
      BY <2>2, PriceAssumption DEF TicketId
    <2>4. s[2] \in Nat
      BY <2>1, <2>2, LenProperties
    <2> QED BY <2>1, <2>3, <2>4
  <1>2. \A s, t \in S : <<s, t>> \in R <=> Earlier(s, t)
    BY DEF SliceOrder
  <1>3. \A s \in S : ~Earlier(s, s)
    BY <1>1 DEF Earlier
  <1>4. \A s, t, u \in S : Earlier(s, t) /\ Earlier(t, u) => Earlier(s, u)
    BY <1>1 DEF Earlier
  <1>5. ASSUME NEW s \in S, NEW t \in S, ~Earlier(s, t), ~Earlier(t, s)
        PROVE  s = t
    <2>1. s[1].id[1] = t[1].id[1] /\ s[2] = t[2]
      BY <1>1, <1>5 DEF Earlier
    <2>2. s[1] = t[1]
      BY <1>0, <1>1, <2>1
    <2> QED BY <1>1, <2>1, <2>2
  <1> QED BY <1>2, <1>3, <1>4, <1>5 DEF Ordered

LEMMA PaymentsFinite == IsFiniteSet(Payments)
  <1>1. IsFiniteSet(1..MaxQuotes)
    BY QuoteAssumption, FS_Interval
  <1>2. IsFiniteSet(QuoteIds)
    BY <1>1, RequestAssumption, FS_Product DEF QuoteIds
  <1>3. IsFiniteSet({Issue})
    BY FS_Singleton
  <1> QED BY <1>2, <1>3, FS_Union DEF Payments

\* What is in the slices of some tickets is what is in their fundings.
LEMMA SlicesSum ==
    ASSUME NEW es, IsFiniteSet(es), es \subseteq Ticket,
           NEW v \in [SlicesOf(es) -> Int]
    PROVE  SumOf(v) = SumOf([e \in es |-> SumOf([i \in DOMAIN e.funding |-> v[<<e, i>>]])])
  <1>1. PICK S : S = SlicesOf(es)
    OBVIOUS
  <1>2. IsFiniteSet(S)
    BY <1>1, SlicesFinite
  <1>3. PICK D : D = [e \in es |-> DOMAIN e.funding]
    OBVIOUS
  <1>4. \A e \in es : D[e] = DOMAIN e.funding /\ IsFiniteSet(D[e])
    BY <1>3, FundingTyped
  <1>5. S = UNION {{e} \X D[e] : e \in es}
    <2>1. {{e} \X D[e] : e \in es} = {{e} \X DOMAIN e.funding : e \in es}
      BY <1>4
    <2> QED BY <1>1, <2>1 DEF SlicesOf
  <1>6. v \in [S -> Int] /\ IsFiniteSet(es) /\ \A e \in es : IsFiniteSet(D[e])
    BY <1>1, <1>4
  <1>7. PICK f : f = [e \in es |-> [i \in D[e] |-> v[<<e, i>>]]]
    OBVIOUS
  <1>8. \A e \in es : \A i \in D[e] : <<e, i>> \in S
    BY <1>5
  <1>9. \A e \in es : f[e] \in [D[e] -> Int] /\ \A i \in D[e] : f[e][i] = v[<<e, i>>]
    BY ONLY <1>6, <1>7, <1>8
  <1>10. PICK w : w = [e \in es |-> SumOf(f[e])]
    OBVIOUS
  <1>11. w \in [es -> Int] /\ \A e \in es : w[e] = SumOf(f[e])
    <2>1. \A e \in es : SumOf(f[e]) \in Int
      BY ONLY <1>6, <1>9, SumTyped
    <2> QED BY <1>10, <2>1
  <1>12. SumOf(w) = SumOf(v)
    <2>1. \A s \in S : s[1] \in es /\ s[2] \in D[s[1]] /\ s = <<s[1], s[2]>>
      BY <1>1, <1>4, SlicesAre
    <2>2. Pairs(es, D, S, v, f, w)
      BY ONLY <1>2, <1>6, <1>8, <1>9, <1>11, <2>1 DEF Pairs
    <2> QED BY ONLY <2>2, SumOfPairs
  <1>13. w = [e \in es |-> SumOf([i \in DOMAIN e.funding |-> v[<<e, i>>]])]
    <2>1. \A e \in es : f[e] = [i \in DOMAIN e.funding |-> v[<<e, i>>]]
      BY <1>4, <1>7
    <2> QED BY <1>10, <2>1
  <1> QED BY <1>12, <1>13

\* From one slice after the other is taken what was agreed, and never more than
\* there is.
LEMMA TakenInOrder ==
    ASSUME NEW es, IsFiniteSet(es), es \subseteq Ticket,
           \A d, e \in es : d.id[1] = e.id[1] => d = e,
           \A e \in es : Total([i \in DOMAIN e.funding |-> e.funding[i].amount]) = e.amount,
           NEW asked \in Nat, NEW taken, taken = Taken(SlicesOf(es), asked),
           NEW worth, worth = Total([e \in es |-> e.amount])
    PROVE  /\ \A s \in SlicesOf(es) : /\ Slice(s).amount \in Nat /\ Slice(s).payment \in Payments
                                      /\ taken[s] \in Nat /\ taken[s] <= Slice(s).amount
           /\ taken \in [SlicesOf(es) -> Int]
           /\ SumOf(taken) = IF worth < asked THEN worth ELSE asked
           /\ worth \in Nat
  <1>1. PICK S : S = SlicesOf(es)
    OBVIOUS
  <1>2. IsFiniteSet(S)
    BY <1>1, SlicesFinite
  <1>3. PICK R : R = {z \in S \X S : Earlier(z[1], z[2])}
    OBVIOUS
  <1>4. /\ \A s \in S : <<s, s>> \notin R
        /\ \A s, t, u \in S : <<s, t>> \in R /\ <<t, u>> \in R => <<s, u>> \in R
        /\ \A s, t \in S : s = t \/ <<s, t>> \in R \/ <<t, s>> \in R
    <2>1. \A s, t \in S : <<s, t>> \in R <=> Earlier(s, t)
      BY <1>3
    <2>2. es \subseteq Ticket /\ \A d, e \in es : d.id[1] = e.id[1] => d = e
      OBVIOUS
    <2>3. SliceOrder(es, S, R)
      BY ONLY <1>1, <2>1, <2>2 DEF SliceOrder
    <2>4. Ordered(S, R)
      BY ONLY <2>3, SlicesOrdered
    <2> QED BY ONLY <2>4 DEF Ordered
  <1>5. \A s \in S : Slice(s).amount \in Nat /\ Slice(s).payment \in Payments
    <2> SUFFICES ASSUME NEW s \in S
                 PROVE  Slice(s).amount \in Nat /\ Slice(s).payment \in Payments
      OBVIOUS
    <2>1. s[1] \in Ticket /\ s[2] \in DOMAIN s[1].funding
      BY <1>1, SlicesAre
    <2> QED BY <2>1, FundingTyped DEF Slice
  <1>6. PICK a : a = [s \in S |-> Slice(s).amount]
    OBVIOUS
  <1>7. a \in [S -> Nat] /\ a \in [S -> Int] /\ \A s \in S : a[s] = Slice(s).amount
    BY <1>5, <1>6
  <1>8. PICK P : P = [s \in S |-> {t \in S : Earlier(t, s)}]
    OBVIOUS
  <1>9. PICK f : f = [s \in S |-> [t \in P[s] |-> a[t]]]
    OBVIOUS
  <1>10. PICK b : b = [s \in S |-> SumOf(f[s])]
    OBVIOUS
  <1>11. ASSUME NEW s \in S
         PROVE  /\ P[s] \subseteq S /\ \A t \in S : t \in P[s] <=> <<t, s>> \in R
                /\ f[s] \in [P[s] -> Int] /\ \A t \in P[s] : f[s][t] = a[t]
                /\ b[s] = SumOf(f[s]) /\ b[s] \in Int
                /\ b[s] = Total([t \in {t \in S : Earlier(t, s)} |-> Slice(t).amount])
    <2>1. P[s] = {t \in S : Earlier(t, s)}
      BY <1>8
    <2>2. P[s] \subseteq S /\ \A t \in S : t \in P[s] <=> <<t, s>> \in R
      BY <1>3, <2>1
    <2>3. IsFiniteSet(P[s])
      BY <1>2, <2>2, FS_Subset
    <2>4. f[s] = [t \in P[s] |-> a[t]]
      BY <1>9
    <2>5. f[s] \in [P[s] -> Int] /\ \A t \in P[s] : f[s][t] = a[t]
      BY ONLY <1>7, <2>2, <2>4
    <2>6. SumOf(f[s]) \in Int
      BY ONLY <2>3, <2>5, SumTyped
    <2>7. f[s] = [t \in {t \in S : Earlier(t, s)} |-> Slice(t).amount]
      BY ONLY <1>7, <2>1, <2>2, <2>4
    <2>8. b[s] = SumOf(f[s])
      BY <1>10
    <2>9. b[s] = Total([t \in {t \in S : Earlier(t, s)} |-> Slice(t).amount])
      BY <2>7, <2>8, TotalIsSum
    <2> QED BY ONLY <2>2, <2>5, <2>6, <2>8, <2>9
  <1>12. taken = [s \in S |->
                    IF b[s] < asked
                    THEN IF a[s] < asked - b[s] THEN a[s] ELSE asked - b[s]
                    ELSE 0]
    <2>1. taken = [s \in S |->
                     IF Slice(s).amount < (IF b[s] < asked THEN asked - b[s] ELSE 0)
                     THEN Slice(s).amount
                     ELSE IF b[s] < asked THEN asked - b[s] ELSE 0]
      BY <1>1, <1>11, ZenonT(90) DEF Taken
    <2>2. ASSUME NEW s \in S
          PROVE  (IF Slice(s).amount < (IF b[s] < asked THEN asked - b[s] ELSE 0)
                  THEN Slice(s).amount
                  ELSE IF b[s] < asked THEN asked - b[s] ELSE 0)
                 = (IF b[s] < asked
                    THEN IF a[s] < asked - b[s] THEN a[s] ELSE asked - b[s]
                    ELSE 0)
      <3>1. a[s] = Slice(s).amount /\ a[s] \in Nat /\ b[s] \in Int
        BY <1>7, <1>11
      <3> QED BY <3>1
    <2> QED BY <2>1, <2>2
  <1>13. ASSUME NEW s \in S
         PROVE  /\ taken[s] = IF b[s] < asked
                              THEN IF a[s] < asked - b[s] THEN a[s] ELSE asked - b[s]
                              ELSE 0
                /\ taken[s] \in Nat /\ taken[s] <= a[s]
    <2>1. taken[s] = IF b[s] < asked
                     THEN IF a[s] < asked - b[s] THEN a[s] ELSE asked - b[s]
                     ELSE 0
      BY <1>12
    <2>2. a[s] \in Nat /\ b[s] \in Int
      BY <1>7, <1>11
    <2> QED BY <2>1, <2>2
  <1>14. b \in [S -> Int] /\ taken \in [S -> Int]
    <2>1. b \in [S -> Int]
      <3>1. \A s \in S : b[s] \in Int
        BY <1>11
      <3> QED BY ONLY <1>10, <3>1
    <2>2. taken \in [S -> Int]
      <3>1. \A s \in S : taken[s] \in Int
        BY <1>13
      <3>2. taken = [s \in S |-> taken[s]]
        BY <1>12
      <3> QED BY ONLY <3>1, <3>2
    <2> QED BY <2>1, <2>2
  <1>15. SumOf(taken) = (IF SumOf(a) < asked THEN SumOf(a) ELSE asked) /\ SumOf(a) \in Nat
    <2>1. /\ asked \in Nat
          /\ \A s \in S : /\ P[s] \subseteq S /\ \A t \in S : t \in P[s] <=> <<t, s>> \in R
                          /\ f[s] \in [P[s] -> Int] /\ \A t \in P[s] : f[s][t] = a[t]
                          /\ b[s] = SumOf(f[s])
          /\ \A s \in S : taken[s] = IF b[s] < asked
                                     THEN IF a[s] < asked - b[s] THEN a[s] ELSE asked - b[s]
                                     ELSE 0
      BY <1>11, <1>13
    <2>2. TakenOf(S, R, a, asked, f, P, b, taken)
      BY ONLY <1>2, <1>4, <1>7, <1>14, <2>1 DEF TakenOf
    <2> QED BY ONLY <2>2, SumOfTaken
  <1>16. SumOf(a) = worth
    <2>1. SumOf(a) = SumOf([e \in es |-> SumOf([i \in DOMAIN e.funding |-> a[<<e, i>>]])])
      BY <1>1, <1>7, SlicesSum
    <2>2. ASSUME NEW e \in es
          PROVE  SumOf([i \in DOMAIN e.funding |-> a[<<e, i>>]]) = e.amount
      <3>1. \A i \in DOMAIN e.funding : <<e, i>> \in S
        BY <1>1, SlicesAre
      <3>2. [i \in DOMAIN e.funding |-> a[<<e, i>>]]
            = [i \in DOMAIN e.funding |-> e.funding[i].amount]
        BY <1>7, <3>1 DEF Slice
      <3> QED BY <3>2, TotalIsSum
    <2>3. [e \in es |-> SumOf([i \in DOMAIN e.funding |-> a[<<e, i>>]])]
          = [e \in es |-> e.amount]
      BY <2>2
    <2> QED BY <2>1, <2>3, TotalIsSum
  <1> QED BY <1>1, <1>5, <1>7, <1>13, <1>14, <1>15, <1>16

\* What is taken, as asked, of some paid tickets, one for each passenger, which are
\* worth so much.
Takes(es, asked, taken, worth) ==
    /\ IsFiniteSet(es) /\ es \subseteq Ticket
    /\ \A d, e \in es : d.id[1] = e.id[1] => d = e
    /\ \A e \in es : Total([i \in DOMAIN e.funding |-> e.funding[i].amount]) = e.amount
    /\ asked \in Nat /\ taken = Taken(SlicesOf(es), asked)
    /\ worth = Total([e \in es |-> e.amount])

TakenRight(S, asked, taken, worth) ==
    /\ \A s \in S : /\ Slice(s).amount \in Nat /\ Slice(s).payment \in Payments
                    /\ taken[s] \in Nat /\ taken[s] <= Slice(s).amount
    /\ taken \in [S -> Int]
    /\ SumOf(taken) = IF worth < asked THEN worth ELSE asked
    /\ worth \in Nat

LEMMA TakesAreRight ==
    ASSUME NEW es, NEW asked, NEW taken, NEW worth, Takes(es, asked, taken, worth)
    PROVE  TakenRight(SlicesOf(es), asked, taken, worth)
  BY TakenInOrder DEF Takes, TakenRight

\* What a settlement gives back: of no payment more than the tickets have of it, and
\* all that was agreed if they cost as much.
LEMMA CreditsSplit ==
    ASSUME TicketsRight, FundedRight, NEW r, \A e \in Selected(r) : e.state = "active",
           NEW asked \in Nat, asked = quotes[rows[r].approved].amount,
           NEW worth, worth = Total([e \in Selected(r) |-> e.amount])
    PROVE  /\ \A p \in Payments : /\ CreditOf(r, p) \in Nat
                                  /\ CreditOf(r, p) <= PaidFor(Selected(r), p)
           /\ Total([p \in Payments |-> CreditOf(r, p)])
              = IF worth < asked THEN worth ELSE asked
           /\ worth \in Nat
  <1>1. PICK es : es = Selected(r)
    OBVIOUS
  <1>2. IsFiniteSet(es) /\ es \subseteq Ticket /\ es \subseteq entitlements
    <2>1. es \subseteq entitlements
      BY <1>1 DEF Selected
    <2> QED BY <2>1, FS_Subset DEF TicketsRight
  <1>3. \A d, e \in es : d.id[1] = e.id[1] => d = e
    BY <1>1, <1>2 DEF TicketsRight
  <1>4. \A e \in es : Total([i \in DOMAIN e.funding |-> e.funding[i].amount]) = e.amount
    BY <1>2 DEF FundedRight
  <1>5. PICK S : S = SlicesOf(es)
    OBVIOUS
  <1>6. S = Slices(r) /\ IsFiniteSet(S)
    BY <1>1, <1>2, <1>5, SlicesFinite DEF Slices, SlicesOf
  <1>7. PICK taken : taken = Taken(S, asked)
    OBVIOUS
  <1>8. /\ \A s \in S : /\ Slice(s).amount \in Nat /\ Slice(s).payment \in Payments
                        /\ taken[s] \in Nat /\ taken[s] <= Slice(s).amount
        /\ taken \in [S -> Int]
        /\ SumOf(taken) = IF worth < asked THEN worth ELSE asked
        /\ worth \in Nat
    <2>1. asked \in Nat /\ worth = Total([e \in es |-> e.amount])
      BY <1>1
    <2>2. taken = Taken(SlicesOf(es), asked)
      BY ONLY <1>5, <1>7
    <2>3. Takes(es, asked, taken, worth)
      BY ONLY <1>2, <1>3, <1>4, <2>1, <2>2 DEF Takes
    <2>4. TakenRight(S, asked, taken, worth)
      BY ONLY <1>5, <2>3, TakesAreRight
    <2> QED BY ONLY <2>4 DEF TakenRight
  <1>9. ASSUME NEW p \in Payments
        PROVE  /\ CreditOf(r, p) = SumOf([s \in S |-> IF Slice(s).payment = p THEN taken[s] ELSE 0])
               /\ CreditOf(r, p) \in Nat
               /\ CreditOf(r, p) <= PaidFor(es, p)
    <2>1. PICK f : f = [s \in S |-> IF Slice(s).payment = p THEN taken[s] ELSE 0]
      OBVIOUS
    <2>2. PICK v : v = [s \in S |-> IF Slice(s).payment = p THEN Slice(s).amount ELSE 0]
      OBVIOUS
    <2>3. /\ f \in [S -> Nat] /\ f \in [S -> Int] /\ v \in [S -> Int]
          /\ \A s \in S : f[s] <= v[s]
      BY <1>8, <2>1, <2>2
    <2>4. SumOf(f) \in Nat
      BY <1>6, <2>3, SumCovers
    <2>5. SumOf(f) <= SumOf(v)
      BY <1>6, <2>3, SumOrders
    <2>6. CreditOf(r, p) = SumOf(f)
      BY <1>6, <1>7, <2>1, TotalIsSum DEF CreditOf
    <2>7. SumOf(v) = SumOf([e \in es |-> SumOf([i \in DOMAIN e.funding |-> v[<<e, i>>]])])
      BY <1>2, <1>5, <2>3, SlicesSum
    <2>8. ASSUME NEW e \in es
          PROVE  SumOf([i \in DOMAIN e.funding |-> v[<<e, i>>]]) = Paid(e, p)
      <3>1. \A i \in DOMAIN e.funding : <<e, i>> \in S
        BY <1>5, SlicesAre
      <3>2. [i \in DOMAIN e.funding |-> v[<<e, i>>]]
            = [i \in DOMAIN e.funding |->
                 IF e.funding[i].payment = p THEN e.funding[i].amount ELSE 0]
        BY <2>2, <3>1 DEF Slice
      <3> QED BY <3>2, TotalIsSum DEF Paid
    <2>9. [e \in es |-> SumOf([i \in DOMAIN e.funding |-> v[<<e, i>>]])]
          = [e \in es |-> Paid(e, p)]
      BY <2>8
    <2>10. SumOf(v) = PaidFor(es, p)
      BY <2>7, <2>9, TotalIsSum DEF PaidFor
    <2> QED BY <2>1, <2>4, <2>5, <2>6, <2>10
  <1>10. Total([p \in Payments |-> CreditOf(r, p)]) = SumOf(taken)
    <2>1. PICK c : c = [s \in S |-> Slice(s).payment]
      OBVIOUS
    <2>2. c \in [S -> Payments] /\ \A s \in S : c[s] = Slice(s).payment
      BY <1>8, <2>1
    <2>3. IsFiniteSet(Payments)
      BY PaymentsFinite
    <2>4. SumOf([p \in Payments |-> SumOf([s \in S |-> IF c[s] = p THEN taken[s] ELSE 0])])
          = SumOf(taken)
      <3>1. taken \in [S -> Int]
        BY <1>8
      <3> QED BY ONLY <1>6, <2>2, <2>3, <3>1, SumByClass, SMTT(30)
    <2>5. ASSUME NEW p \in Payments
          PROVE  SumOf([s \in S |-> IF c[s] = p THEN taken[s] ELSE 0]) = CreditOf(r, p)
      <3>1. [s \in S |-> IF c[s] = p THEN taken[s] ELSE 0]
            = [s \in S |-> IF Slice(s).payment = p THEN taken[s] ELSE 0]
        BY <2>2
      <3> QED BY <1>9, <3>1
    <2>6. [p \in Payments |-> SumOf([s \in S |-> IF c[s] = p THEN taken[s] ELSE 0])]
          = [p \in Payments |-> CreditOf(r, p)]
      BY <2>5
    <2> QED BY <2>4, <2>6, TotalIsSum
  <1> QED BY <1>1, <1>8, <1>9, <1>10

\* A slice more, if there is something to add.
Grown(n, e, q, x) ==
    n.funding = IF x = 0 THEN e.funding
                ELSE Append(e.funding, [payment |-> q, amount |-> x])

\* What it adds.
Adds(n, e, q, x) ==
    /\ \A p \in Payments : Paid(n, p) = Paid(e, p) + (IF p = q THEN x ELSE 0)
    /\ Total([i \in DOMAIN n.funding |-> n.funding[i].amount])
       = Total([i \in DOMAIN e.funding |-> e.funding[i].amount]) + x

LEMMA FundingGrows ==
    ASSUME NEW e, e \in Ticket, NEW q, q \in Payments, NEW x, x \in Nat, NEW n,
           Grown(n, e, q, x)
    PROVE  Adds(n, e, q, x)
  <1>1. /\ e.funding \in Seq([payment: Payments, amount: Nat])
        /\ IsFiniteSet(DOMAIN e.funding)
        /\ \A i \in DOMAIN e.funding :
              e.funding[i].payment \in Payments /\ e.funding[i].amount \in Nat
    BY FundingTyped DEF Ticket
  <1>2. PICK m \in Nat : m = Len(e.funding) /\ DOMAIN e.funding = 1..m
    BY <1>1, LenProperties
  <1>3. PICK f : f = [i \in DOMAIN e.funding |-> e.funding[i].amount]
    OBVIOUS
  <1>4. f \in [1..m -> Int] /\ SumOf(f) \in Int
    <2>1. f \in [1..m -> Int]
      BY <1>1, <1>2, <1>3
    <2> QED BY <1>1, <1>2, <2>1, SumTyped
  <1>5. CASE x = 0
    <2>1. n.funding = e.funding
      BY <1>5 DEF Grown
    <2>2. \A p \in Payments : Paid(n, p) = Paid(e, p) /\ Paid(e, p) \in Nat
      BY <2>1, PaidTyped DEF Paid
    <2>3. Total([i \in DOMAIN n.funding |-> n.funding[i].amount]) = Total(f)
      BY <1>3, <2>1
    <2> QED BY <1>3, <1>4, <1>5, <2>2, <2>3, TotalIsSum DEF Adds
  <1>6. CASE x # 0
    <2>1. PICK z : z = [payment |-> q, amount |-> x]
      OBVIOUS
    <2>2. n.funding = Append(e.funding, z) /\ z \in [payment: Payments, amount: Nat]
          /\ z.payment = q /\ z.amount = x
      BY <1>6, <2>1 DEF Grown
    <2>3. PICK R : R = 1..(m + 1)
      OBVIOUS
    <2>4. /\ DOMAIN n.funding = R /\ n.funding[m + 1] = z
          /\ \A i \in 1..m : n.funding[i] = e.funding[i]
      BY ONLY <1>1, <1>2, <2>2, <2>3, AppendProperties
    <2>5. /\ R = (1..m) \cup {m + 1} /\ m + 1 \notin 1..m /\ m + 1 \in R
          /\ IsFiniteSet(1..m)
      <3>1. R = (1..m) \cup {m + 1} /\ m + 1 \notin 1..m /\ m + 1 \in R
        BY ONLY <2>3, m \in Nat
      <3>2. IsFiniteSet(1..m)
        BY ONLY FS_Interval, m \in Nat
      <3> QED BY <3>1, <3>2
    <2>6. ASSUME NEW p \in Payments
          PROVE  Paid(n, p) = Paid(e, p) + IF p = q THEN x ELSE 0
      <3>1. PICK g : g = [i \in DOMAIN e.funding |->
                            IF e.funding[i].payment = p THEN e.funding[i].amount ELSE 0]
        OBVIOUS
      <3>2. PICK h : h = [i \in DOMAIN n.funding |->
                            IF n.funding[i].payment = p THEN n.funding[i].amount ELSE 0]
        OBVIOUS
      <3>3. /\ h[m + 1] = IF p = q THEN x ELSE 0
            /\ \A i \in 1..m : g[i] = IF e.funding[i].payment = p
                                      THEN e.funding[i].amount ELSE 0
            /\ \A i \in 1..m : h[i] = g[i]
        BY <1>2, <2>2, <2>4, <2>5, <3>1, <3>2
      <3>4. g \in [1..m -> Int]
        BY <1>1, <1>2, <3>1
      <3>5. h \in [R -> Int]
        <4>1. \A i \in R : h[i] \in Int
          BY <2>5, <3>3, <3>4
        <4>2. h = [i \in R |-> h[i]]
          BY <2>4, <3>2
        <4> QED BY ONLY <4>1, <4>2
      <3>6. SumOf(h) = SumOf(g) + h[m + 1]
        <4>1. PICK S, k : S = 1..m /\ k = m + 1
          OBVIOUS
        <4>2. /\ IsFiniteSet(S) /\ R = S \cup {k} /\ k \notin S /\ k \in R
              /\ g \in [S -> Int] /\ h \in [R -> Int] /\ \A i \in S : h[i] = g[i]
          BY <2>5, <3>3, <3>4, <3>5, <4>1
        <4>3. SumOf(h) = SumOf(g) + h[k]
          <5>1. Extended(S, R, k, g, h)
            BY ONLY <4>2 DEF Extended
          <5> QED BY ONLY <5>1, SumExtended
        <4> QED BY <4>1, <4>3
      <3> QED BY <3>1, <3>2, <3>3, <3>6, TotalIsSum DEF Paid
    <2>7. PICK h : h = [i \in DOMAIN n.funding |-> n.funding[i].amount]
      OBVIOUS
    <2>8. h[m + 1] = x /\ \A i \in 1..m : h[i] = f[i]
      BY <1>2, <1>3, <2>2, <2>4, <2>5, <2>7
    <2>9. h \in [R -> Int]
      <3>1. \A i \in R : h[i] \in Int
        BY <1>4, <2>5, <2>8
      <3>2. h = [i \in R |-> h[i]]
        BY <2>4, <2>7
      <3> QED BY ONLY <3>1, <3>2
    <2>10. SumOf(h) = SumOf(f) + h[m + 1]
      <3>1. PICK S, k : S = 1..m /\ k = m + 1
        OBVIOUS
      <3>2. /\ IsFiniteSet(S) /\ R = S \cup {k} /\ k \notin S /\ k \in R
            /\ f \in [S -> Int] /\ h \in [R -> Int] /\ \A i \in S : h[i] = f[i]
        BY <1>4, <2>5, <2>8, <2>9, <3>1
      <3>3. SumOf(h) = SumOf(f) + h[k]
        <4>1. Extended(S, R, k, f, h)
          BY ONLY <3>2 DEF Extended
        <4> QED BY ONLY <4>1, SumExtended
      <3> QED BY <3>1, <3>3
    <2> QED BY <1>3, <2>6, <2>7, <2>8, <2>10, TotalIsSum DEF Adds
  <1> QED BY <1>5, <1>6

Successor(r, e) ==
    [id |-> <<e.id[1], r>>, state |-> "active",
     amount |-> e.amount + quotes[rows[r].approved].extra[e.id],
     funding |-> Funded(r, e)]

\* The new tickets of a reissue keep what the old ones were paid with, and have its
\* quotation pay the differences.
LEMMA SuccessorsPaid ==
    ASSUME TicketsRight, NEW r, rows[r].kind = "reissue",
           \A e \in Selected(r) : e.state = "active",
           \A i \in rows[r].selected : \E e \in entitlements : e.id = i,
           NEW q \in QuoteIds, q = rows[r].approved,
           NEW x \in [rows[r].selected -> Nat], x = quotes[q].extra,
           Successors(r) \subseteq Ticket, NEW p \in Payments
    PROVE  PaidFor(Successors(r), p)
           = PaidFor(Selected(r), p) + IF p = q THEN Total(x) ELSE 0
  <1>1. PICK es : es = Selected(r)
    OBVIOUS
  <1>2. PICK ns : ns = Successors(r)
    OBVIOUS
  <1>3. IsFiniteSet(es) /\ es \subseteq Ticket /\ es \subseteq entitlements
        /\ \A e \in es : e.id \in rows[r].selected
    <2>1. es \subseteq entitlements /\ \A e \in es : e.id \in rows[r].selected
      BY <1>1 DEF Selected
    <2> QED BY <2>1, FS_Subset DEF TicketsRight
  <1>4. /\ \A d, e \in es : d.id[1] = e.id[1] => d = e
        /\ \A d, e \in es : d.id = e.id => d = e
    BY <1>1, <1>3 DEF TicketsRight
  <1>5. PICK b : b = [e \in es |-> Successor(r, e)]
    OBVIOUS
  <1>6. ns = {b[e] : e \in es}
    BY <1>1, <1>2, <1>5 DEF Successors, Successor
  <1>7. \A e \in es : b[e].id[1] = e.id[1]
    BY <1>5 DEF Successor
  <1>8. /\ b \in [es -> ns] /\ \A d, e \in es : b[d] = b[e] => d = e
        /\ \A n \in ns : \E e \in es : b[e] = n
    <2>1. b \in [es -> ns]
      BY <1>5, <1>6
    <2>2. \A d, e \in es : b[d] = b[e] => d = e
      BY <1>4, <1>7
    <2> QED BY <1>6, <2>1, <2>2
  <1>9. IsFiniteSet(ns)
    <2>1. b \in Surjection(es, ns)
      BY <1>8 DEF Surjection
    <2> QED BY <1>3, <2>1, FS_Surjection
  <1>10. PICK f : f = [n \in ns |-> Paid(n, p)]
    OBVIOUS
  <1>11. f \in [ns -> Int] /\ \A n \in ns : f[n] = Paid(n, p)
    BY <1>2, <1>10, PaidTyped
  <1>12. SumOf([e \in es |-> f[b[e]]]) = SumOf(f)
    <2>1. Renamed(es, ns, b, f)
      BY ONLY <1>3, <1>8, <1>9, <1>11 DEF Renamed
    <2> QED BY ONLY <2>1, SumRenamed
  <1>13. PICK h : h = [e \in es |-> f[b[e]]]
    OBVIOUS
  <1>14. PICK g : g = [e \in es |-> Paid(e, p)]
    OBVIOUS
  <1>15. PICK k : k = [e \in es |-> IF p = q THEN x[e.id] ELSE 0]
    OBVIOUS
  <1>16. ASSUME NEW e \in es
         PROVE  Paid(b[e], p) = Paid(e, p) + IF p = q THEN x[e.id] ELSE 0
    <2>1. e \in Ticket /\ x[e.id] \in Nat /\ q \in Payments
      BY <1>3 DEF Payments
    <2>2. PICK y \in Nat : y = x[e.id]
      BY <2>1
    <2>3. PICK n : n = b[e]
      BY SMTT(60)
    <2>4. Grown(n, e, q, y)
      BY <1>5, <2>2, <2>3 DEF Successor, Funded, Grown
    <2>5. Adds(n, e, q, y)
      BY ONLY <2>1, <2>4, y \in Nat, FundingGrows, Zenon
    <2>6. Paid(n, p) = Paid(e, p) + (IF p = q THEN y ELSE 0)
      BY <2>5 DEF Adds
    <2> QED BY <2>2, <2>3, <2>6
  <1>17. /\ h \in [es -> Int] /\ g \in [es -> Int] /\ k \in [es -> Int]
         /\ \A e \in es : h[e] = g[e] + k[e]
    <2>1. g \in [es -> Int]
      BY <1>3, <1>14, PaidTyped
    <2>2. k \in [es -> Int]
      BY <1>3, <1>15
    <2>3. h \in [es -> Int]
      BY <1>8, <1>11, <1>13
    <2>4. \A e \in es : h[e] = g[e] + k[e]
      BY <1>8, <1>11, <1>13, <1>14, <1>15, <1>16
    <2> QED BY <2>1, <2>2, <2>3, <2>4
  <1>18. SumOf(h) = SumOf(g) + SumOf(k) /\ SumOf(g) \in Int
    <2>1. AddedUp(es, g, k, h)
      BY ONLY <1>3, <1>17 DEF AddedUp
    <2> QED BY ONLY <2>1, SumAddedUp
  <1>19. SumOf(k) = IF p = q THEN Total(x) ELSE 0
    <2>1. CASE p # q
      <3>1. \A e \in es : k[e] = 0
        BY <1>15, <2>1
      <3>2. SumOf(k) = 0
        BY ONLY <1>3, <1>17, <3>1, SumOfZeros, SMTT(30)
      <3> QED BY <2>1, <3>2
    <2>2. CASE p = q
      <3>1. PICK S : S = rows[r].selected
        OBVIOUS
      <3>2. PICK c : c = [e \in es |-> e.id]
        OBVIOUS
      <3>3. /\ c \in [es -> S] /\ \A d, e \in es : c[d] = c[e] => d = e
            /\ \A i \in S : \E e \in es : c[e] = i
        <4>1. c \in [es -> S] /\ \A d, e \in es : c[d] = c[e] => d = e
          BY <1>3, <1>4, <3>1, <3>2
        <4>2. ASSUME NEW i \in S
              PROVE  \E e \in es : c[e] = i
          <5>1. PICK e \in entitlements : e.id = i
            BY <3>1
          <5>2. e \in es
            BY <1>1, <3>1, <5>1 DEF Selected
          <5> QED BY <3>2, <5>1, <5>2
        <4> QED BY <4>1, <4>2
      <3>4. IsFiniteSet(S)
        <4>1. c \in Surjection(es, S)
          BY <3>3 DEF Surjection
        <4> QED BY <1>3, <4>1, FS_Surjection
      <3>5. x \in [S -> Int]
        BY <3>1
      <3>6. SumOf([e \in es |-> x[c[e]]]) = SumOf(x)
        <4>1. Renamed(es, S, c, x)
          BY ONLY <1>3, <3>3, <3>4, <3>5 DEF Renamed
        <4> QED BY ONLY <4>1, SumRenamed
      <3>7. k = [e \in es |-> x[c[e]]]
        BY <1>15, <2>2, <3>2
      <3> QED BY <2>2, <3>6, <3>7, TotalIsSum
    <2> QED BY <2>1, <2>2
  <1>20. SumOf(f) = PaidFor(ns, p) /\ SumOf(g) = PaidFor(es, p)
    BY <1>10, <1>14, TotalIsSum DEF PaidFor
  <1>21. SumOf(f) = SumOf(g) + SumOf(k)
    BY <1>12, <1>13, <1>18
  <1> QED BY <1>1, <1>2, <1>19, <1>20, <1>21

-----------------------------------------------------------------------------
(* Primed sums *)

LEMMA FundedPrimed ==
    FundedRight' <=>
        \A e \in entitlements' :
            Total([i \in DOMAIN e.funding |-> e.funding[i].amount]) = e.amount
  BY DEF FundedRight, Total, MapThenSumSet, MapThenFoldSet

LEMMA OwedPrimed ==
    ASSUME NEW p
    PROVE  Owed(entitlements, p)' = Owed(entitlements', p)
  BY DEF Owed, Paid, Total, MapThenSumSet, MapThenFoldSet

LEMMA FirstOwedPrimed ==
    ASSUME NEW p
    PROVE  Owed(InitialEntitlements, p)' = Owed(InitialEntitlements, p)
  BY DEF InitialEntitlements, Owed, Paid, Total, MapThenSumSet, MapThenFoldSet

LEMMA WorthPrimed ==
    ASSUME NEW r
    PROVE  WorthOf(r)' = Total([e \in Selected(r)' |-> e.amount])
  BY DEF WorthOf, Selected, Total, MapThenSumSet, MapThenFoldSet

LEMMA ExtraPrimed ==
    ASSUME NEW r
    PROVE  Total(quotes[rows[r].approved].extra)' = Total(quotes'[rows'[r].approved].extra)
  BY DEF Total, MapThenSumSet, MapThenFoldSet

LEMMA PricesPrimed == Total(Price)' = Total(Price)
  BY DEF Total, MapThenSumSet, MapThenFoldSet

LEMMA CostsPrimed ==
    Total([p \in Payments |-> purchase[p].cost])' = Total([p \in Payments |-> purchase'[p].cost])
  BY DEF Total, MapThenSumSet, MapThenFoldSet, Payments, QuoteIds

-----------------------------------------------------------------------------
(* The tickets of a request and what they were paid with *)

\* What a settlement leaves: the tickets that were not selected, those that were and
\* are no longer good, and the new ones.
LEMMA TicketsAfter ==
    ASSUME RowsRight, TicketsRight, NEW r \in Requests, NEW u, Complete(r, u)
    PROVE  /\ \A e \in Selected(r) : e \in entitlements /\ e.state = "active"
                                     /\ e.id \in rows[r].selected
           /\ \A e \in entitlements : e.id[2] # r
           /\ \A e \in entitlements : e \notin Selected(r) => e \in entitlements'
           /\ entitlements # {} => entitlements' # {}
           /\ Successors(r) \subseteq entitlements'
           /\ \A e \in Successors(r) : e.state = "active" /\ e.id[2] = r
           /\ \A e \in entitlements' :
                 \/ e \in entitlements /\ e \notin Selected(r)
                 \/ /\ e.state # "active"
                    /\ \E d \in Selected(r) : /\ e.id = d.id /\ e.amount = d.amount
                                              /\ e.funding = d.funding
                 \/ e \in Successors(r)
  <1>1. rows[r] \in Row /\ rows[r].outcome = "none"
    BY Settling
  <1>2. PICK o : o = Outcome(rows[r].kind)
    OBVIOUS
  <1>3. o # "active"
    BY <1>1, <1>2 DEF Row, Outcome, Kinds
  <1>4. PICK S : S = Selected(r)
    OBVIOUS
  <1>5. entitlements' = {IF e \in S THEN [e EXCEPT !.state = o] ELSE e : e \in entitlements}
                        \cup Successors(r)
    BY <1>2, <1>4 DEF Complete
  <1>6. \A e \in S : e \in entitlements /\ e.state = "active" /\ e.id \in rows[r].selected
    BY <1>4 DEF Selected, Complete, SelectionsActive
  <1>7. ASSUME NEW e \in entitlements
        PROVE  /\ e.id[2] # r
               /\ [e EXCEPT !.state = o].state = o /\ [e EXCEPT !.state = o].id = e.id
               /\ [e EXCEPT !.state = o].amount = e.amount
               /\ [e EXCEPT !.state = o].funding = e.funding
    <2>1. e \in Ticket /\ (e.id[2] # NoRequest => rows[e.id[2]].outcome # "none")
      BY DEF TicketsRight
    <2>2. e.id[2] # r
      BY <1>1, <2>1, RequestAssumption
    <2> QED BY <2>1, <2>2 DEF Ticket
  <1>8. \A e \in Successors(r) : e.state = "active" /\ e.id[2] = r
    BY DEF Successors
  <1>9. \A e \in entitlements : e \notin S => e \in entitlements'
    BY <1>5
  <1>10. entitlements # {} => entitlements' # {}
    BY <1>5
  <1>11. ASSUME NEW e \in entitlements', e \notin Successors(r)
         PROVE  \/ e \in entitlements /\ e \notin S
                \/ e.state # "active" /\ \E d \in S : /\ e.id = d.id /\ e.amount = d.amount
                                                      /\ e.funding = d.funding
    <2>1. PICK d \in entitlements : e = IF d \in S THEN [d EXCEPT !.state = o] ELSE d
      BY <1>5, <1>11
    <2> QED BY <1>3, <1>7, <2>1
  <1> QED BY <1>4, <1>5, <1>6, <1>7, <1>8, <1>9, <1>10, <1>11

LEMMA GoodAfter ==
    ASSUME RowsRight, TicketsRight, NEW r \in Requests, NEW u, Complete(r, u)
    PROVE  /\ Good(entitlements') = (Good(entitlements) \ Selected(r)) \cup Successors(r)
           /\ Selected(r) \subseteq Good(entitlements)
           /\ (Good(entitlements) \ Selected(r)) \cap Successors(r) = {}
           /\ Good(entitlements) \ Selected(r) \subseteq Good(entitlements')
  BY TicketsAfter DEF Good

\* The tickets of an open request, as it was saved.
Backed(s) ==
    /\ rows[s].selected # {}
    /\ \A i \in rows[s].selected : \E e \in entitlements : e.id = i /\ e.state = "active"

LEMMA SelectedStays ==
    ASSUME RowsRight, TicketsRight, ClaimsRight, SelectedRight,
           NEW s \in Requests, Open(rows, s), rows'[s].selected = rows[s].selected,
           \/ entitlements' = entitlements
           \/ entitlements' = Initialized
           \/ \E r \in Requests : \E u : r # s /\ Complete(r, u)
    PROVE  Selected(s)' = Selected(s) /\ Backed(s)' /\ entitlements # {}
  <1>1. Backed(s)
    BY DEF SelectedRight, Backed
  <1>2. entitlements # {}
    BY <1>1 DEF Backed
  <1>3. CASE entitlements' = entitlements
    BY <1>1, <1>2, <1>3 DEF Backed, Selected
  <1>4. ASSUME NEW r \in Requests, NEW u, r # s, Complete(r, u)
        PROVE  Selected(s)' = Selected(s) /\ Backed(s)'
    <2>1. PICK S : S = rows[s].selected
      OBVIOUS
    <2>2. Open(rows, r)
      <3>1. rows[r] \in Row /\ rows[r].outcome = "none" /\ rows[r].status = "approved"
        BY <1>4, Settling
      <3> QED BY <3>1 DEF Open
    <2>3. \A e \in Selected(r) : e.id \notin S
      <3>1. rows[r].selected \cap S = {}
        BY <1>4, <2>1, <2>2 DEF ClaimsRight
      <3> QED BY <3>1 DEF Selected
    <2>4. \A e \in Successors(r) : e.id \notin S
      <3>1. \A i \in S : \E e \in entitlements : e.id = i
        BY <1>1, <2>1 DEF Backed
      <3>2. \A i \in S : i[2] # r
        BY <1>4, <3>1, TicketsAfter
      <3> QED BY <1>4, <3>2, TicketsAfter
    <2>5. ASSUME NEW e
          PROVE  e \in entitlements' /\ e.id \in S <=> e \in entitlements /\ e.id \in S
      <3>1. ASSUME e \in entitlements', e.id \in S
            PROVE  e \in entitlements
        BY <1>4, <2>3, <2>4, <3>1, TicketsAfter
      <3>2. ASSUME e \in entitlements, e.id \in S
            PROVE  e \in entitlements'
        BY <1>4, <2>3, <3>2, TicketsAfter
      <3> QED BY <3>1, <3>2
    <2>6. rows'[s].selected = S
      BY <2>1
    <2>7. Selected(s)' = Selected(s)
      BY <2>1, <2>5, <2>6 DEF Selected
    <2>8. Backed(s)'
      BY <1>1, <2>1, <2>5, <2>6 DEF Backed
    <2> QED BY <2>7, <2>8
  <1>5. entitlements' = Initialized => entitlements' = entitlements
    BY <1>2 DEF Initialized
  <1> QED BY <1>2, <1>3, <1>4, <1>5

\* The first tickets are paid by the issue, with one slice each.
LEMMA FirstTickets ==
    ASSUME NEW e \in InitialEntitlements
    PROVE  /\ Total([i \in DOMAIN e.funding |-> e.funding[i].amount]) = e.amount
           /\ \A p : Paid(e, p) = IF p = Issue THEN e.amount ELSE 0
           /\ e.state = "active"
           /\ e.amount \in Nat /\ e.id[1] \in Passengers /\ e.amount = Price[e.id[1]]
  <1>1. PICK n \in Passengers :
           e = [id |-> <<n, NoRequest>>, amount |-> Price[n], state |-> "active",
                funding |-> <<[payment |-> Issue, amount |-> Price[n]]>>]
    BY DEF InitialEntitlements
  <1>2. Price[n] \in Nat
    BY PriceAssumption
  <1>3. PICK D : D = DOMAIN e.funding
    OBVIOUS
  <1>4. /\ D = {1} /\ e.funding[1].payment = Issue /\ e.funding[1].amount = e.amount
        /\ e.amount \in Nat /\ IsFiniteSet(D) /\ 1 \in D
    <2>1. D = 1..1
      BY <1>1, <1>3
    <2>2. D = {1}
      BY <2>1
    <2>3. IsFiniteSet({1})
      BY FS_Singleton
    <2>4. e.funding[1] = [payment |-> Issue, amount |-> Price[n]]
      BY <1>1
    <2> QED BY <1>1, <1>2, <2>2, <2>3, <2>4
  <1>5. ASSUME NEW f \in [D -> Int]
        PROVE  SumOf(f) = f[1]
    <2>1. \A y \in D \ {1} : f[y] = 0
      BY <1>4
    <2> QED BY <1>4, <2>1, SumOfOne
  <1>6. Total([i \in DOMAIN e.funding |-> e.funding[i].amount]) = e.amount
    <2>1. PICK f : f = [i \in D |-> e.funding[i].amount]
      OBVIOUS
    <2>2. f \in [D -> Int] /\ f[1] = e.amount
      BY <1>4, <2>1
    <2> QED BY <1>3, <1>5, <2>1, <2>2, TotalIsSum
  <1>7. ASSUME NEW p
        PROVE  Paid(e, p) = IF p = Issue THEN e.amount ELSE 0
    <2>1. PICK f : f = [i \in D |-> IF e.funding[i].payment = p THEN e.funding[i].amount ELSE 0]
      OBVIOUS
    <2>2. f \in [D -> Int] /\ f[1] = IF p = Issue THEN e.amount ELSE 0
      BY <1>4, <2>1
    <2> QED BY <1>3, <1>5, <2>1, <2>2, TotalIsSum DEF Paid
  <1> QED BY <1>1, <1>4, <1>6, <1>7

\* The steps that settle nothing add tickets only when there was none.
LEMMA TicketsStay ==
    ASSUME [ManagementNext]_managementVars,
           ~\E r \in Requests, u \in Admins \cup Accountants : Complete(r, u)
    PROVE  entitlements' = entitlements \/ entitlements' = Initialized
  <1>1. ASSUME NEW r \in Requests, Desk(r)
        PROVE  entitlements' = entitlements \/ entitlements' = Initialized
    BY <1>1 DEF Desk, Decision, Create, Look, Accept, StaffReject, PublishQuote, Requote,
                Confirm, Decline, Assign, Release
  <1>2. Availability \/ (\E q \in QuoteIds : DeadlinePasses(q)) \/ UNCHANGED managementVars
        => entitlements' = entitlements \/ entitlements' = Initialized
    BY DEF Availability, DeadlinePasses, managementVars, deskVars
  <1> QED BY <1>1, <1>2 DEF ManagementNext

LEMMA FundedKept ==
    ASSUME RowsRight, TicketsRight, FundedRight, [ManagementNext]_managementVars
    PROVE  FundedRight'
  <1>1. ASSUME NEW e \in entitlements \cup InitialEntitlements
        PROVE  Total([i \in DOMAIN e.funding |-> e.funding[i].amount]) = e.amount
    BY FirstTickets DEF FundedRight
  <1>2. ASSUME entitlements' = entitlements \/ entitlements' = Initialized
        PROVE  FundedRight'
    <2>1. \A e \in entitlements' : e \in entitlements \cup InitialEntitlements
      BY <1>2 DEF Initialized
    <2> QED BY <1>1, <2>1, FundedPrimed
  <1>3. ASSUME NEW r \in Requests, NEW u \in Admins \cup Accountants, Complete(r, u)
        PROVE  FundedRight'
    <2>1. ASSUME NEW n \in Successors(r)
          PROVE  Total([i \in DOMAIN n.funding |-> n.funding[i].amount]) = n.amount
      <3>1. PICK e \in Selected(r) : n = Successor(r, e)
        BY <2>1 DEF Successors, Successor
      <3>2. rows[r] \in Row /\ rows[r].outcome = "none" /\ rows[r].status = "approved"
        BY <1>3, Settling
      <3>3. PICK q : q = rows[r].approved /\ q \in QuoteIds
                     /\ quotes[q].extra \in [rows[r].selected -> Nat]
        BY <3>2 DEF RowsRight, OwnQuotes
      <3>4. e \in entitlements /\ e \in Ticket /\ e.id \in rows[r].selected
        BY DEF Selected, TicketsRight
      <3>5. PICK x : x = quotes[q].extra[e.id]
        OBVIOUS
      <3>6. x \in Nat /\ q \in Payments
        BY <3>3, <3>4, <3>5 DEF Payments
      <3>7. Grown(n, e, q, x) /\ n.amount = e.amount + x
        BY <3>1, <3>3, <3>5 DEF Successor, Funded, Grown
      <3>8. Adds(n, e, q, x)
        BY ONLY <3>4, <3>6, <3>7, FundingGrows, Zenon
      <3> QED BY <1>1, <3>4, <3>7, <3>8 DEF Adds
    <2>2. ASSUME NEW n \in entitlements'
          PROVE  Total([i \in DOMAIN n.funding |-> n.funding[i].amount]) = n.amount
      <3>1. CASE n \in entitlements
        BY <1>1, <3>1
      <3>2. ASSUME NEW d \in Selected(r), n.amount = d.amount, n.funding = d.funding
            PROVE  Total([i \in DOMAIN n.funding |-> n.funding[i].amount]) = n.amount
        <4>1. d \in entitlements
          BY DEF Selected
        <4> QED BY <1>1, <3>2, <4>1
      <3> QED BY <1>3, <2>1, <3>1, <3>2, TicketsAfter
    <2> QED BY <2>2, FundedPrimed
  <1> QED BY <1>2, <1>3, TicketsStay

\* The selection of an open request is the one it was created with.
LEMMA StaysOpen ==
    ASSUME RowsRight, [ManagementNext]_managementVars, NEW s \in Requests, Open(rows', s)
    PROVE  \/ /\ Open(rows, s) /\ rows'[s].selected = rows[s].selected
              /\ ~\E u \in Admins \cup Accountants : Complete(s, u)
           \/ \E kind \in Kinds, P \in SUBSET Passengers : Create(s, kind, P)
  <1>1. ASSUME NEW u, Complete(s, u)
        PROVE  FALSE
    <2>1. PICK o : o = Outcome(rows[s].kind)
      OBVIOUS
    <2>2. /\ rows[s] \in Row
          /\ Becomes(s, "approved", o, rows[s].active, rows[s].approved, rows[s].hold,
                     rows[s].assignee)
      BY <1>1, <2>1, Settling
    <2>3. o # "none"
      BY <2>1, <2>2 DEF Row, Outcome, Kinds
    <2>4. rows'[s].outcome = o
      BY <2>2 DEF Becomes, Columns, RowsRight
    <2> QED BY <2>3, <2>4 DEF Open
  <1>2. ASSUME rows'[s] = Expired(rows)[s] \/ rows'[s] = rows[s]
        PROVE  Open(rows, s) /\ rows'[s].selected = rows[s].selected
    BY <1>2, Lapsed DEF Open
  <1>3. (UNCHANGED managementVars) \/ (\E q \in QuoteIds : DeadlinePasses(q))
        => rows' = rows
    BY DEF managementVars, deskVars, DeadlinePasses
  <1>4. Availability => rows' = Expired(rows)
    BY DEF Availability
  <1>5. ASSUME NEW r \in Requests, Look(r)
        PROVE  Open(rows, s) /\ rows'[s].selected = rows[s].selected
    <2>1. rows' = [rows EXCEPT ![r] = Expired(rows)[r]] /\ DOMAIN rows = Requests
      BY <1>5 DEF Look, Shown, RowsRight
    <2> QED BY <1>2, <2>1
  <1>6. ASSUME NEW r \in Requests, Command(r)
        PROVE  Open(rows, s) /\ rows'[s].selected = rows[s].selected
    BY <1>6, Commanded DEF Follows, Open
  <1>7. ASSUME NEW r \in Requests, NEW kind, NEW P, Create(r, kind, P), r # s
        PROVE  Open(rows, s) /\ rows'[s].selected = rows[s].selected
    <2>1. \A t \in Requests : t # r => rows'[t] = Expired(rows)[t]
      BY <1>7, Creating, Zenon
    <2> QED BY <1>2, <1>7, <2>1
  <1> QED BY <1>1, <1>2, <1>3, <1>4, <1>5, <1>6, <1>7 DEF ManagementNext, Desk, Command

\* A request is created with good tickets.
LEMMA SelectedCreated ==
    ASSUME RowsRight, TicketsRight, NEW s \in Requests, NEW kind, NEW P, Create(s, kind, P)
    PROVE  Backed(s)'
  <1>1. PICK es : es = {d \in Initialized : d.id[1] \in P /\ d.state = "active"}
    OBVIOUS
  <1>2. rows'[s].selected = {e.id : e \in es}
    <2>1. PICK new : new = {e.id : e \in es}
      OBVIOUS
    <2>2. rows' = [Expired(rows) EXCEPT ![s] =
              [kind |-> kind,
               selected |-> {e.id : e \in {d \in Initialized : d.id[1] \in P /\ d.state = "active"}},
               status |-> "requested", outcome |-> "none", version |-> 1,
               active |-> NoQuote, approved |-> NoQuote, hold |-> NoQuote,
               assignee |-> NoUser]]
      BY Creating, Zenon
    <2>3. DOMAIN Expired(rows) = Requests
      BY ExpiredRows
    <2>4. rows' = [Expired(rows) EXCEPT ![s] =
              [kind |-> kind, selected |-> new,
               status |-> "requested", outcome |-> "none", version |-> 1,
               active |-> NoQuote, approved |-> NoQuote, hold |-> NoQuote,
               assignee |-> NoUser]]
      BY <1>1, <2>1, <2>2
    <2> QED BY <2>1, <2>3, <2>4
  <1>3. P # {} /\ P = {e.id[1] : e \in es} /\ entitlements' = Initialized
    BY <1>1 DEF Create
  <1>4. PICK e \in es : TRUE
    BY <1>3
  <1>5. rows'[s].selected # {}
    BY <1>2, <1>4
  <1>6. \A i \in rows'[s].selected : \E d \in entitlements' : d.id = i /\ d.state = "active"
    BY <1>1, <1>2, <1>3
  <1> QED BY <1>5, <1>6 DEF Backed

LEMMA SelectedKept ==
    ASSUME RowsRight, TicketsRight, ClaimsRight, SelectedRight,
           [ManagementNext]_managementVars
    PROVE  /\ SelectedRight'
           /\ \A s \in Requests : Open(rows, s) /\ Open(rows', s) => Selected(s)' = Selected(s)
  <1>1. ASSUME NEW s \in Requests, Open(rows, s), Open(rows', s)
        PROVE  Selected(s)' = Selected(s) /\ Backed(s)'
    <2>1. \A kind, P : ~Create(s, kind, P)
      BY <1>1 DEF Create, NewRequest, Open, NotAsked
    <2>2. /\ rows'[s].selected = rows[s].selected
          /\ ~\E u \in Admins \cup Accountants : Complete(s, u)
      BY <1>1, <2>1, StaysOpen
    <2>3. \/ entitlements' = entitlements
          \/ entitlements' = Initialized
          \/ \E r \in Requests : \E u : r # s /\ Complete(r, u)
      BY <2>2, TicketsStay
    <2> QED BY <1>1, <2>2, <2>3, SelectedStays
  <1>2. ASSUME NEW s \in Requests, Open(rows', s)
        PROVE  Backed(s)'
    BY <1>1, <1>2, StaysOpen, SelectedCreated
  <1> QED BY <1>1, <1>2 DEF SelectedRight, Backed

-----------------------------------------------------------------------------
(* What a command does to the wallet *)

Bought(q, phase, cost) ==
    purchase' = [purchase EXCEPT ![q] = [phase |-> phase, account |-> Payer, cost |-> cost]]

\* A debit is held for a quotation that was not paid yet.
HoldTaken(r, q) ==
    /\ q \in QuoteIds /\ q[1] = r
    /\ purchase[q].phase = "none" /\ purchase[q].cost = 0
    /\ Bought(q, "held", quotes[q].amount)
    /\ spendable'[Payer] = spendable[Payer] - quotes[q].amount

\* A hold becomes a charge, or is given back.
HoldEnds(r, phase, cost) ==
    LET q == rows[r].approved
    IN  /\ q \in QuoteIds /\ q[1] = r
        /\ purchase[q] = [phase |-> "held", account |-> Payer, cost |-> quotes[q].amount]
        /\ Bought(q, phase, cost)
        /\ spendable'[Payer] = spendable[Payer] + quotes[q].amount - cost

LEMMA HoldTakes ==
    ASSUME RowsRight, QuotesRight, MoneyRight, NEW r \in Requests, NEW q \in QuoteIds,
           Confirm(r, q)
    PROVE  IF quotes[q].direction = "debit" THEN HoldTaken(r, q)
           ELSE purchase' = purchase /\ spendable' = spendable
  <1>1. CASE quotes[q].direction = "debit"
    <2>1. rows[r] \in Row /\ rows[r].active = q
      BY Deciding
    <2>2. q[1] = r
      BY <2>1, RequestAssumption DEF RowsRight, OwnQuotes, QuoteIds
    <2>3. Wallet!Hold(q, Payer, quotes[q].amount)
      BY <1>1 DEF Confirm
    <2>4. /\ purchase[q].phase = "none" /\ purchase[q].cost = 0
          /\ spendable' = [spendable EXCEPT ![Payer] = @ - quotes[q].amount]
          /\ Bought(q, "held", quotes[q].amount)
      BY <2>3 DEF Wallet!Hold, Wallet!NotStarted, Bought
    <2>5. spendable'[Payer] = spendable[Payer] - quotes[q].amount
      BY <2>4 DEF MoneyRight
    <2> QED BY <1>1, <2>2, <2>4, <2>5 DEF HoldTaken
  <1>2. CASE quotes[q].direction # "debit"
    BY <1>2 DEF Confirm, walletVars
  <1> QED BY <1>1, <1>2

LEMMA HoldReleases ==
    ASSUME RowsRight, QuotesRight, MoneyRight, PurchasesRight, NEW r \in Requests, NEW u,
           Release(r, u)
    PROVE  \/ HoldEnds(r, "returned", 0)
           \/ purchase' = purchase /\ spendable' = spendable
  <1>1. CASE rows[r].hold = NoQuote
    BY <1>1 DEF Release, walletVars
  <1>2. CASE rows[r].hold # NoQuote
    <2>1. rows[r].status = "approved" /\ rows[r].outcome = "none"
      BY Settling
    <2>2. PICK q \in QuoteIds : q = rows[r].approved /\ q[1] = r
      BY <2>1, RequestAssumption DEF RowsRight, OwnQuotes, QuoteIds
    <2>3. HoldValid(r) /\ Wallet!GiveBack(rows[r].hold)
      BY <1>2 DEF Release
    <2>4. /\ rows[r].hold = q
          /\ purchase[q] = [phase |-> "held", account |-> Payer, cost |-> quotes[q].amount]
      BY <2>2, <2>3 DEF HoldValid
    <2>5. PICK c : c = [purchase EXCEPT ![q].phase = "returned"]
      OBVIOUS
    <2>6. /\ spendable' = [spendable EXCEPT ![Payer] = @ + quotes[q].amount]
          /\ purchase' = [c EXCEPT ![q].cost = 0]
      BY <2>3, <2>4, <2>5 DEF Wallet!GiveBack
    <2>7. DOMAIN purchase = Payments /\ q \in Payments /\ purchase = [p \in Payments |-> purchase[p]]
      BY <2>2 DEF PurchasesRight, Payments
    <2>8. Bought(q, "returned", 0)
      <3>1. PICK d : d = [phase |-> "returned", account |-> Payer, cost |-> quotes[q].amount]
        OBVIOUS
      <3>2. c = [purchase EXCEPT ![q] = d]
        <4>1. PICK e : e = purchase[q]
          OBVIOUS
        <4>2. [e EXCEPT !.phase = "returned"] = d
          BY <2>4, <3>1, <4>1
        <4>3. c = [purchase EXCEPT ![q] = [e EXCEPT !.phase = "returned"]]
          BY <2>5, <4>1
        <4> QED BY <4>2, <4>3
      <3>3. c[q] = d /\ DOMAIN c = Payments /\ \A p \in Payments : p # q => c[p] = purchase[p]
        BY <2>7, <3>2
      <3>4. PICK b : b = [phase |-> "returned", account |-> Payer, cost |-> 0]
        OBVIOUS
      <3>5. [d EXCEPT !.cost = 0] = b
        BY <3>1, <3>4
      <3>6. purchase' = [c EXCEPT ![q] = b]
        BY <2>6, <3>3, <3>5
      <3>7. purchase' = [purchase EXCEPT ![q] = b]
        BY <2>7, <3>3, <3>6
      <3> QED BY <3>4, <3>7 DEF Bought
    <2>9. quotes[q].amount \in Nat /\ spendable[Payer] \in Nat /\ DOMAIN spendable = {Payer}
      BY DEF QuotesRight, MoneyRight
    <2>10. spendable'[Payer] = spendable[Payer] + quotes[q].amount - 0
      BY <2>6, <2>9
    <2> QED BY <2>2, <2>4, <2>8, <2>10 DEF HoldEnds
  <1> QED BY <1>1, <1>2

LEMMA HoldCharges ==
    ASSUME RowsRight, QuotesRight, MoneyRight, NEW r \in Requests, NEW u, Complete(r, u),
           NEW q, q = rows[r].approved
    PROVE  /\ quotes[q].direction = "debit" => HoldEnds(r, "charged", quotes[q].amount)
           /\ quotes[q].direction = "credit" => Refunds(r)
           /\ quotes[q].direction = "none" => purchase' = purchase /\ spendable' = spendable
           /\ rows[r].status = "approved" /\ rows[r].outcome = "none" /\ rows[r] \in Row
           /\ q \in QuoteIds /\ q[1] = r
           /\ quotes[q].extra \in [rows[r].selected -> Nat]
           /\ quotes[q].amount \in Nat /\ quotes[q].direction \in {"debit", "credit", "none"}
  <1>1. rows[r].status = "approved" /\ rows[r].outcome = "none" /\ rows[r] \in Row
    BY Settling
  <1>2. q \in QuoteIds /\ q[1] = r /\ quotes[q].extra \in [rows[r].selected -> Nat]
    BY <1>1, RequestAssumption DEF RowsRight, OwnQuotes, QuoteIds
  <1>3. /\ quotes[q].amount \in Nat /\ quotes[q].direction \in {"debit", "credit", "none"}
        /\ spendable[Payer] \in Nat
    BY <1>2 DEF QuotesRight, MoneyRight
  <1>4. Settled(quotes[q].direction, r)
    BY DEF Complete
  <1>5. ASSUME quotes[q].direction = "debit"
        PROVE  HoldEnds(r, "charged", quotes[q].amount)
    <2>1. HoldValid(r) /\ Wallet!Charge(rows[r].hold)
      BY <1>4, <1>5 DEF Settled
    <2>2. /\ rows[r].hold = q
          /\ purchase[q] = [phase |-> "held", account |-> Payer, cost |-> quotes[q].amount]
      BY <2>1 DEF HoldValid
    <2>3. PICK b : b = purchase[q]
      OBVIOUS
    <2>4. [b EXCEPT !.phase = "charged"]
          = [phase |-> "charged", account |-> Payer, cost |-> quotes[q].amount]
      BY <2>2, <2>3
    <2>5. spendable' = spendable /\ purchase' = [purchase EXCEPT ![q] = [b EXCEPT !.phase = "charged"]]
      BY <2>1, <2>2, <2>3 DEF Wallet!Charge
    <2>6. Bought(q, "charged", quotes[q].amount)
      BY <2>4, <2>5 DEF Bought
    <2>7. spendable'[Payer] = spendable[Payer] + quotes[q].amount - quotes[q].amount
      BY <1>3, <2>5
    <2> QED BY <1>2, <2>2, <2>6, <2>7 DEF HoldEnds
  <1>6. quotes[q].direction = "credit" => Refunds(r)
    BY <1>4 DEF Settled
  <1>7. quotes[q].direction = "none" => purchase' = purchase /\ spendable' = spendable
    BY <1>4 DEF Settled, walletVars
  <1> QED BY <1>1, <1>2, <1>3, <1>5, <1>6, <1>7

\* The wallet moves when a debit is approved, released or settled, and a credit settled.
LEMMA WalletMoves ==
    ASSUME RowsRight, QuotesRight, MoneyRight, PurchasesRight, [ManagementNext]_managementVars
    PROVE  \/ purchase' = purchase /\ spendable' = spendable
           \/ \E r \in Requests, q \in QuoteIds : Confirm(r, q) /\ HoldTaken(r, q)
           \/ \E r \in Requests, u \in Admins \cup Accountants :
                 Release(r, u) /\ HoldEnds(r, "returned", 0)
           \/ \E r \in Requests, u \in Admins \cup Accountants : Complete(r, u)
  <1>1. ASSUME NEW r \in Requests, Desk(r),
               ~\E q \in QuoteIds : Confirm(r, q),
               ~\E u \in Admins \cup Accountants : Release(r, u) \/ Complete(r, u)
        PROVE  purchase' = purchase /\ spendable' = spendable
    BY <1>1 DEF Desk, Decision, Create, Look, Accept, StaffReject, PublishQuote, Requote,
                Decline, Assign, walletVars
  <1>2. Availability \/ (\E q \in QuoteIds : DeadlinePasses(q)) \/ UNCHANGED managementVars
        => purchase' = purchase /\ spendable' = spendable
    BY DEF Availability, DeadlinePasses, managementVars, walletVars
  <1> QED BY <1>1, <1>2, HoldTakes, HoldReleases DEF ManagementNext

LEMMA CostMoves ==
    ASSUME PurchasesRight, spendable[Payer] \in Nat, NEW q \in QuoteIds,
           NEW phase \in {"held", "charged", "returned"}, NEW cost \in Nat,
           Bought(q, phase, cost),
           spendable'[Payer] = spendable[Payer] + purchase[q].cost - cost
    PROVE  PurchasesRight'
  <1>1. q \in Payments /\ purchase \in [Payments -> Purchase]
    BY DEF Payments, PurchasesRight
  <1>2. PICK b : b = [phase |-> phase, account |-> Payer, cost |-> cost]
    OBVIOUS
  <1>3. b \in Purchase /\ b.cost = cost
    BY <1>2 DEF Purchase
  <1>4. purchase' = [purchase EXCEPT ![q] = b]
    BY <1>2 DEF Bought
  <1>5. /\ purchase' \in [Payments -> Purchase] /\ purchase'[q] = b
        /\ \A p \in Payments : p # q => purchase'[p] = purchase[p]
    BY <1>1, <1>3, <1>4
  <1>6. PICK f : f = [p \in Payments |-> purchase[p].cost]
    OBVIOUS
  <1>7. PICK g : g = [p \in Payments |-> purchase'[p].cost]
    OBVIOUS
  <1>8. \A p \in Payments : purchase[p].cost \in Nat /\ purchase'[p].cost \in Nat
    BY <1>1, <1>5 DEF Purchase
  <1>9. /\ f \in [Payments -> Int] /\ g \in [Payments -> Int]
        /\ \A p \in Payments \ {q} : g[p] = f[p]
        /\ f[q] = purchase[q].cost /\ g[q] = cost /\ f[q] \in Nat
    BY <1>1, <1>3, <1>5, <1>6, <1>7, <1>8
  <1>10. SumOf(g) = SumOf(f) - f[q] + g[q] /\ SumOf(f) \in Int
    <2>1. q \in Payments /\ IsFiniteSet(Payments)
      BY <1>1, PaymentsFinite
    <2> QED BY ONLY <1>9, <2>1, SumChanges, SMTT(30)
  <1>11. spendable[Payer] + SumOf(f) = Funds + Total(Price)
    BY <1>6, TotalIsSum DEF PurchasesRight
  <1>12. spendable'[Payer] + SumOf(g) = spendable[Payer] + SumOf(f)
    BY <1>9, <1>10
  <1>13. Total([p \in Payments |-> purchase[p].cost])' = SumOf(g)
    BY <1>7, CostsPrimed, TotalIsSum
  <1> QED BY <1>5, <1>11, <1>12, <1>13, PricesPrimed, Zenon DEF PurchasesRight

\* A settled credit goes back to the payments of the tickets, and to no payment that
\* did not give it.
Returned(r, p) ==
    /\ CreditOf(r, p) \in Nat /\ CreditOf(r, p) <= PaidFor(Selected(r), p)
    /\ purchase'[p] = [purchase[p] EXCEPT !.cost = @ - CreditOf(r, p)]
    /\ \/ CreditOf(r, p) = 0 /\ purchase'[p] = purchase[p]
       \/ /\ purchase[p].phase = "charged" /\ purchase'[p].phase = "charged"
          /\ CreditOf(r, p) <= purchase[p].cost
          /\ purchase'[p].cost = purchase[p].cost - CreditOf(r, p)
    /\ purchase'[p] \in Purchase
    /\ purchase'[p].cost + CreditOf(r, p) = purchase[p].cost

LEMMA CreditsReturn ==
    ASSUME RowsRight, QuotesRight, TicketsRight, MoneyRight, FundedRight, PurchasesRight,
           NEW r \in Requests, NEW u, Complete(r, u), Refunds(r)
    PROVE  /\ \A p \in Payments : Returned(r, p)
           /\ purchase' \in [Payments -> Purchase]
           /\ Total([p \in Payments |-> CreditOf(r, p)]) \in Nat
           /\ spendable'[Payer] = spendable[Payer] + Total([p \in Payments |-> CreditOf(r, p)])
  <1>1. PICK c : c = [p \in Payments |-> CreditOf(r, p)]
    OBVIOUS
  <1>2. /\ Refundable(r)
        /\ spendable' = [spendable EXCEPT ![Payer] = @ + Total(c)]
        /\ purchase' = [p \in Payments |-> [purchase[p] EXCEPT !.cost = @ - c[p]]]
    BY <1>1 DEF Refunds
  <1>3. PICK asked \in Nat : asked = quotes[rows[r].approved].amount
    <2>1. quotes[rows[r].approved].amount \in Nat
      BY HoldCharges
    <2> QED BY <2>1
  <1>4. PICK worth : worth = Total([e \in Selected(r) |-> e.amount])
    OBVIOUS
  <1>5. /\ \A p \in Payments : /\ CreditOf(r, p) \in Nat
                               /\ CreditOf(r, p) <= PaidFor(Selected(r), p)
        /\ Total([p \in Payments |-> CreditOf(r, p)]) = IF worth < asked THEN worth ELSE asked
        /\ worth \in Nat
    <2>1. \A e \in Selected(r) : e.state = "active"
      BY TicketsAfter
    <2> QED BY <1>3, <1>4, <2>1, CreditsSplit
  <1>6. ASSUME NEW p \in Payments
        PROVE  Returned(r, p)
    <2>1. PICK b : b = purchase[p]
      OBVIOUS
    <2>2. b \in Purchase
      BY <2>1 DEF PurchasesRight
    <2>3. PICK n : n = CreditOf(r, p)
      OBVIOUS
    <2>4. n \in Nat /\ n <= PaidFor(Selected(r), p) /\ c[p] = n
      BY <1>1, <1>5, <2>3
    <2>5. n > 0 => b.phase = "charged" /\ n <= b.cost
      BY <1>2, <2>1, <2>3 DEF Refundable
    <2>6. PICK d : d = [b EXCEPT !.cost = @ - n]
      OBVIOUS
    <2>7. purchase'[p] = d
      BY <1>2, <2>1, <2>4, <2>6
    <2>8. /\ d = [phase |-> b.phase, account |-> b.account, cost |-> b.cost - n]
          /\ b = [phase |-> b.phase, account |-> b.account, cost |-> b.cost]
          /\ b.cost \in Nat
      BY <2>2, <2>6 DEF Purchase
    <2>9. CASE n = 0
      <3>1. d = b
        BY <2>8, <2>9
      <3> QED BY <2>1, <2>2, <2>3, <2>4, <2>6, <2>7, <2>8, <2>9, <3>1 DEF Returned
    <2>10. CASE n # 0
      <3>1. b.phase = "charged" /\ n <= b.cost /\ b.cost - n \in Nat
        BY <2>4, <2>5, <2>8, <2>10
      <3>2. /\ d.phase = b.phase /\ d.cost = b.cost - n /\ d.cost + n = b.cost
            /\ d \in Purchase
        BY <2>2, <2>4, <2>8, <3>1 DEF Purchase
      <3> QED BY <2>1, <2>3, <2>4, <2>6, <2>7, <3>1, <3>2 DEF Returned
    <2> QED BY <2>9, <2>10
  <1>7. purchase' \in [Payments -> Purchase]
    <2>1. \A p \in Payments : [purchase[p] EXCEPT !.cost = @ - c[p]] \in Purchase
      <3>1. \A p \in Payments : purchase'[p] \in Purchase
        BY <1>6 DEF Returned
      <3> QED BY <1>2, <3>1
    <2> QED BY <1>2, <2>1
  <1>8. Total(c) \in Nat
    BY <1>1, <1>3, <1>5
  <1>9. spendable'[Payer] = spendable[Payer] + Total(c)
    BY <1>2 DEF MoneyRight
  <1> QED BY <1>1, <1>6, <1>7, <1>8, <1>9

LEMMA PurchasesKept ==
    ASSUME RowsRight, QuotesRight, TicketsRight, MoneyRight, FundedRight, PurchasesRight,
           [ManagementNext]_managementVars
    PROVE  PurchasesRight'
  <1>1. spendable[Payer] \in Nat
    BY DEF MoneyRight
  <1>2. CASE purchase' = purchase /\ spendable' = spendable
    <2>1. Total([p \in Payments |-> purchase[p].cost])'
          = Total([p \in Payments |-> purchase[p].cost])
      BY <1>2, CostsPrimed
    <2> QED BY <1>2, <2>1, PricesPrimed DEF PurchasesRight
  <1>3. ASSUME NEW r \in Requests, NEW q \in QuoteIds, HoldTaken(r, q)
        PROVE  PurchasesRight'
    <2>1. /\ quotes[q].amount \in Nat /\ Bought(q, "held", quotes[q].amount)
          /\ spendable'[Payer] = spendable[Payer] + purchase[q].cost - quotes[q].amount
      BY <1>1, <1>3 DEF HoldTaken, QuotesRight
    <2> QED BY <1>1, <2>1, CostMoves
  <1>4. ASSUME NEW r \in Requests, NEW phase \in {"charged", "returned"}, NEW cost \in Nat,
               HoldEnds(r, phase, cost)
        PROVE  PurchasesRight'
    <2>1. PICK q \in QuoteIds : q = rows[r].approved
      BY <1>4 DEF HoldEnds
    <2>2. /\ purchase[q].cost = quotes[q].amount /\ Bought(q, phase, cost)
          /\ spendable'[Payer] = spendable[Payer] + quotes[q].amount - cost
      BY <1>4, <2>1 DEF HoldEnds
    <2>3. spendable'[Payer] = spendable[Payer] + purchase[q].cost - cost
      BY <2>2
    <2> QED BY <1>1, <2>2, <2>3, CostMoves
  <1>5. ASSUME NEW r \in Requests, NEW u, Complete(r, u), Refunds(r)
        PROVE  PurchasesRight'
    <2>1. /\ \A p \in Payments : Returned(r, p)
          /\ purchase' \in [Payments -> Purchase]
          /\ Total([p \in Payments |-> CreditOf(r, p)]) \in Nat
          /\ spendable'[Payer] = spendable[Payer] + Total([p \in Payments |-> CreditOf(r, p)])
      BY <1>5, CreditsReturn
    <2>2. PICK f : f = [p \in Payments |-> purchase[p].cost]
      OBVIOUS
    <2>3. PICK g : g = [p \in Payments |-> purchase'[p].cost]
      OBVIOUS
    <2>4. PICK c : c = [p \in Payments |-> CreditOf(r, p)]
      OBVIOUS
    <2>5. /\ f \in [Payments -> Int] /\ g \in [Payments -> Int] /\ c \in [Payments -> Int]
          /\ \A p \in Payments : f[p] = g[p] + c[p]
      <3>1. \A p \in Payments : /\ purchase[p].cost \in Int /\ purchase'[p].cost \in Int
                                /\ CreditOf(r, p) \in Int
                                /\ purchase[p].cost = purchase'[p].cost + CreditOf(r, p)
        BY <2>1 DEF Returned, PurchasesRight, Purchase
      <3> QED BY <2>2, <2>3, <2>4, <3>1
    <2>6. SumOf(f) = SumOf(g) + SumOf(c) /\ SumOf(g) \in Int /\ SumOf(c) \in Int
      <3>1. AddedUp(Payments, g, c, f)
        BY ONLY <2>5, PaymentsFinite DEF AddedUp
      <3> QED BY ONLY <3>1, SumAddedUp
    <2>7. spendable[Payer] + SumOf(f) = Funds + Total(Price)
      BY <2>2, TotalIsSum DEF PurchasesRight
    <2>8. spendable'[Payer] = spendable[Payer] + SumOf(c)
      BY <2>1, <2>4, TotalIsSum
    <2>9. spendable'[Payer] + SumOf(g) = spendable[Payer] + SumOf(f)
      BY <1>1, <2>6, <2>8
    <2>10. Total([p \in Payments |-> purchase[p].cost])' = SumOf(g)
      BY <2>3, CostsPrimed, TotalIsSum
    <2> QED BY <2>1, <2>7, <2>9, <2>10, PricesPrimed, Zenon DEF PurchasesRight
  <1>6. ASSUME NEW r \in Requests, NEW u, Complete(r, u)
        PROVE  PurchasesRight'
    <2>1. PICK q : q = rows[r].approved
      OBVIOUS
    <2> QED BY <1>2, <1>4, <1>5, <1>6, <2>1, HoldCharges
  <1> QED BY <1>2, <1>3, <1>4, <1>6, WalletMoves

-----------------------------------------------------------------------------
(* What was approved *)

\* What the terms of a quotation say of its direction.
LEMMA TermsCover ==
    ASSUME RowsRight, TicketsRight, NEW r \in Requests, rows[r] \in Row,
           NEW terms \in Terms(r)
    PROVE  /\ terms.direction = "credit" =>
                 rows[r].kind # "reissue" /\ terms.amount <= WorthOf(r)
           /\ terms.direction = "none" => terms.amount = 0
           /\ rows[r].kind = "reissue" => Total(terms.extra) <= terms.amount
  <1>1. IsFiniteSet(rows[r].selected)
    <2>1. IsFiniteSet(Requests \cup {NoRequest})
      BY RequestAssumption, FS_AddElement
    <2>2. IsFiniteSet(Passengers \X (Requests \cup {NoRequest}))
      BY <2>1, PriceAssumption, FS_Product
    <2>3. rows[r].selected \subseteq Passengers \X (Requests \cup {NoRequest})
      BY DEF Row
    <2> QED BY <2>2, <2>3, FS_Subset
  <1>2. IsFiniteSet(Selected(r)) /\ \A e \in Selected(r) : e.amount \in Nat
    <2>1. Selected(r) \in SUBSET entitlements
      BY DEF Selected
    <2> QED BY <2>1, FS_Subset DEF TicketsRight, Ticket
  <1>3. PICK worth : worth = WorthOf(r)
    OBVIOUS
  <1>4. worth \in Nat /\ MapThenSumSet(LAMBDA e : e.amount, Selected(r)) = worth
    <2>1. PICK f : f = [e \in Selected(r) |-> e.amount]
      OBVIOUS
    <2>2. f \in [Selected(r) -> Nat]
      BY <1>2, <2>1
    <2>3. SumOf(f) \in Nat
      BY <1>2, <2>2, SumCovers
    <2> QED BY <1>2, <1>3, <2>1, <2>3, TotalIsSum, AmountsSum DEF WorthOf
  <1>5. CASE rows[r].kind = "reissue"
    <2>1. PICK x \in [rows[r].selected -> Differences], fee \in Fees :
             terms = [direction |-> Direction(-(Total(x) + fee)),
                      amount |-> Total(x) + fee, extra |-> x]
      BY <1>5 DEF Terms
    <2>2. x \in [rows[r].selected -> Nat] /\ fee \in Nat
      BY <2>1, QuoteAssumption
    <2>3. PICK n \in Nat : n = Total(x)
      BY <1>1, <2>2, SumCovers, TotalIsSum
    <2>4. terms.direction = Direction(-(n + fee)) /\ terms.amount = n + fee
          /\ Total(terms.extra) = n
      BY <2>1, <2>3
    <2>5. /\ Direction(-(n + fee)) # "credit"
          /\ Direction(-(n + fee)) = "none" => n + fee = 0
          /\ n <= n + fee
      BY <2>2 DEF Direction
    <2> QED BY <2>4, <2>5
  <1>6. CASE rows[r].kind # "reissue"
    <2>1. PICK fee \in Fees :
             terms = [direction |-> Direction(worth - fee),
                      amount |-> Distance(worth - fee),
                      extra |-> [i \in rows[r].selected |-> 0]]
      <3> DEFINE m == MapThenSumSet(LAMBDA e : e.amount, Selected(r))
      <3>1. Terms(r) = {[direction |-> Direction(m - fee),
                         amount |-> Distance(m - fee),
                         extra |-> [i \in rows[r].selected |-> 0]] :
                           fee \in {f \in Fees : rows[r].kind = "refund" => f <= m}}
        BY <1>6 DEF Terms
      <3>2. m = worth
        BY <1>4
      <3> HIDE DEF m
      <3> QED BY <3>1, <3>2
    <2>2. fee \in Nat
      BY <2>1, QuoteAssumption
    <2>3. /\ Direction(worth - fee) = "credit" => Distance(worth - fee) <= worth
          /\ Direction(worth - fee) = "none" => Distance(worth - fee) = 0
      BY <1>4, <2>2 DEF Direction, Distance
    <2>4. terms.direction = Direction(worth - fee) /\ terms.amount = Distance(worth - fee)
      BY <2>1
    <2> QED BY <1>3, <1>6, <2>3, <2>4
  <1> QED BY <1>5, <1>6

\* A quotation is written once, and by its own request.
LEMMA QuotesStay ==
    ASSUME RowsRight, [ManagementNext]_managementVars, NEW s \in Requests, ~PublishQuote(s),
           NEW q \in QuoteIds, q[1] = s
    PROVE  quotes'[q] = quotes[q]
  <1>1. ASSUME NEW r \in Requests, PublishQuote(r), r # s
        PROVE  quotes'[q] = quotes[q]
    <2>1. PICK o \in QuoteIds :
             o[1] = r /\ \E terms \in Terms(r) : quotes' = [quotes EXCEPT ![o] = terms]
      BY <1>1, Publishing
    <2> QED BY <1>1, <2>1
  <1>2. ASSUME NEW r \in Requests, Desk(r), ~PublishQuote(r)
        PROVE  quotes' = quotes
    BY <1>2 DEF Desk, Decision, Create, Look, Accept, StaffReject, Requote, Confirm,
                Decline, Assign, Release, Complete
  <1>3. Availability \/ (\E o \in QuoteIds : DeadlinePasses(o)) \/ UNCHANGED managementVars
        => quotes' = quotes
    BY DEF Availability, DeadlinePasses, managementVars, deskVars
  <1> QED BY <1>1, <1>2, <1>3 DEF ManagementNext

\* What is approved and open was just confirmed, or is what it was.
SameApproval(s) ==
    /\ rows[s].status = "approved" /\ rows[s].outcome = "none"
    /\ rows'[s].kind = rows[s].kind /\ rows'[s].selected = rows[s].selected
    /\ rows'[s].approved = rows[s].approved
    /\ rows[s].approved \in QuoteIds /\ rows[s].approved[1] = s
    /\ quotes'[rows[s].approved] = quotes[rows[s].approved]
    /\ \A u \in Admins \cup Accountants : ~Complete(s, u) /\ ~Release(s, u)

LEMMA StaysApproved ==
    ASSUME RowsRight, [ManagementNext]_managementVars, NEW s \in Requests,
           rows'[s].status = "approved", rows'[s].outcome = "none"
    PROVE  SameApproval(s) \/ \E q \in QuoteIds : Confirm(s, q)
  <1>1. Open(rows', s) /\ DOMAIN rows = Requests
    BY DEF Open, RowsRight
  <1>2. \A kind, P : ~Create(s, kind, P)
    <2> SUFFICES ASSUME NEW kind, NEW P, Create(s, kind, P)
                 PROVE  FALSE
      OBVIOUS
    <2>1. PICK new : new = {e.id : e \in {d \in Initialized : d.id[1] \in P /\ d.state = "active"}}
      OBVIOUS
    <2>2. rows' = [Expired(rows) EXCEPT ![s] =
              [kind |-> kind,
               selected |-> {e.id : e \in {d \in Initialized : d.id[1] \in P /\ d.state = "active"}},
               status |-> "requested", outcome |-> "none", version |-> 1,
               active |-> NoQuote, approved |-> NoQuote, hold |-> NoQuote,
               assignee |-> NoUser]]
      BY Creating, Zenon
    <2>3. rows' = [Expired(rows) EXCEPT ![s] =
              [kind |-> kind, selected |-> new,
               status |-> "requested", outcome |-> "none", version |-> 1,
               active |-> NoQuote, approved |-> NoQuote, hold |-> NoQuote,
               assignee |-> NoUser]]
      BY <2>1, <2>2
    <2> QED BY <2>3, ExpiredRows
  <1>3. /\ \A u \in Admins \cup Accountants : ~Complete(s, u)
        /\ Open(rows, s)
    BY <1>1, <1>2, StaysOpen
  <1>4. /\ ~Accept(s) /\ ~StaffReject(s) /\ ~PublishQuote(s) /\ ~Requote(s)
        /\ \A q \in QuoteIds : ~Decline(s, q)
        /\ \A u \in Admins \cup Accountants : ~Release(s, u)
    BY <1>1, Quoting, Publishing, Deciding, Settling DEF Becomes, Columns
  <1>5. ASSUME rows[s].status = "approved", rows'[s].kind = rows[s].kind,
               rows'[s].selected = rows[s].selected, rows'[s].approved = rows[s].approved
        PROVE  SameApproval(s)
    <2>1. rows[s].outcome = "none"
      BY <1>3 DEF Open
    <2>2. rows[s].approved \in QuoteIds /\ rows[s].approved[1] = s
      BY <1>5, RequestAssumption DEF RowsRight, OwnQuotes, QuoteIds
    <2>3. quotes'[rows[s].approved] = quotes[rows[s].approved]
      BY <1>4, <2>2, QuotesStay
    <2> QED BY <1>3, <1>4, <1>5, <2>1, <2>2, <2>3 DEF SameApproval
  <1>6. ASSUME rows'[s] = rows[s] \/ rows'[s] = Expired(rows)[s]
        PROVE  SameApproval(s)
    <2>1. rows'[s] = rows[s]
      BY <1>6, Lapsed
    <2> QED BY <1>5, <2>1
  <1>7. ASSUME NEW u, Assign(s, u)
        PROVE  SameApproval(s)
    <2>1. /\ rows[s].status = "approved"
          /\ rows'[s].kind = rows[s].kind /\ rows'[s].selected = rows[s].selected
          /\ rows'[s].approved = rows[s].approved
      BY <1>1, <1>7, Settling DEF Becomes, Columns
    <2> QED BY <1>5, <2>1
  <1>8. ASSUME NEW r \in Requests, Command(r), r # s
        PROVE  SameApproval(s)
    BY <1>6, <1>8, Commanded DEF Follows
  <1>9. ASSUME NEW r \in Requests, NEW kind, NEW P, Create(r, kind, P)
        PROVE  SameApproval(s)
    <2>1. \A t \in Requests : t # r => rows'[t] = Expired(rows)[t]
      BY <1>9, Creating, Zenon
    <2> QED BY <1>2, <1>6, <1>9, <2>1
  <1>10. ASSUME NEW r \in Requests, Look(r)
         PROVE  SameApproval(s)
    <2>1. rows' = [rows EXCEPT ![r] = Expired(rows)[r]]
      BY <1>10 DEF Look, Shown
    <2> QED BY <1>1, <1>6, <2>1
  <1>11. Availability \/ (\E q \in QuoteIds : DeadlinePasses(q)) \/ UNCHANGED managementVars
         => rows' = rows \/ rows' = Expired(rows)
    BY DEF Availability, DeadlinePasses, managementVars, deskVars
  <1> QED BY <1>3, <1>4, <1>6, <1>7, <1>8, <1>9, <1>10, <1>11
          DEF ManagementNext, Desk, Decision, Command

\* Another request does not touch what is held.
LEMMA HeldStays ==
    ASSUME RowsRight, QuotesRight, TicketsRight, MoneyRight, FundedRight, PurchasesRight,
           [ManagementNext]_managementVars, NEW s \in Requests, SameApproval(s),
           NEW q \in QuoteIds, q[1] = s, purchase[q].phase = "held"
    PROVE  purchase'[q] = purchase[q]
  <1>1. ASSUME NEW o \in QuoteIds, o # q, NEW phase, NEW cost, Bought(o, phase, cost)
        PROVE  purchase'[q] = purchase[q]
    BY <1>1 DEF Bought, PurchasesRight, Payments
  <1>2. ASSUME NEW r \in Requests, NEW o \in QuoteIds, HoldTaken(r, o)
        PROVE  purchase'[q] = purchase[q]
    BY <1>1, <1>2 DEF HoldTaken
  <1>3. ASSUME NEW r \in Requests, r # s, NEW phase, NEW cost, HoldEnds(r, phase, cost)
        PROVE  purchase'[q] = purchase[q]
    BY <1>1, <1>3 DEF HoldEnds
  <1>4. ASSUME NEW r \in Requests, r # s, NEW u, Complete(r, u)
        PROVE  purchase'[q] = purchase[q]
    <2>1. ASSUME Refunds(r)
          PROVE  purchase'[q] = purchase[q]
      <3>1. Returned(r, q)
        BY <1>4, <2>1, CreditsReturn DEF Payments
      <3> QED BY <3>1 DEF Returned
    <2>2. PICK o : o = rows[r].approved
      OBVIOUS
    <2> QED BY <1>3, <1>4, <2>1, <2>2, HoldCharges
  <1> QED BY <1>2, <1>3, <1>4, WalletMoves DEF SameApproval

LEMMA ApprovedKept ==
    ASSUME RowsRight, QuotesRight, TicketsRight, ClaimsRight, MoneyRight,
           FundedRight, SelectedRight, ApprovedRight, PurchasesRight,
           [ManagementNext]_managementVars
    PROVE  ApprovedRight'
  <1>1. ASSUME NEW s \in Requests, SameApproval(s), Selected(s)' = Selected(s)
        PROVE  ApprovedTerms(s)'
    <2>1. PICK q, terms : q = rows[s].approved /\ terms = quotes[q]
      OBVIOUS
    <2>2. /\ q \in QuoteIds /\ q[1] = s /\ rows'[s].approved = q /\ quotes'[q] = terms
          /\ rows'[s].kind = rows[s].kind
      BY <1>1, <2>1 DEF SameApproval
    <2>3. /\ terms.direction = "credit" =>
                rows[s].kind # "reissue" /\ terms.amount <= WorthOf(s)
          /\ terms.direction = "none" => terms.amount = 0
          /\ terms.direction = "debit" =>
                purchase[q] = [phase |-> "held", account |-> Payer, cost |-> terms.amount]
          /\ rows[s].kind = "reissue" => Total(terms.extra) <= terms.amount
      BY <1>1, <2>1 DEF SameApproval, ApprovedRight, ApprovedTerms
    <2>4. WorthOf(s)' = WorthOf(s)
      BY <1>1, WorthPrimed DEF WorthOf
    <2>5. Total(quotes[rows[s].approved].extra)' = Total(terms.extra)
      BY <2>2, ExtraPrimed
    <2>6. terms.direction = "debit" => purchase'[q] = purchase[q]
      BY <1>1, <2>2, <2>3, HeldStays
    <2> QED BY <2>2, <2>3, <2>4, <2>5, <2>6 DEF ApprovedTerms
  <1>2. ASSUME NEW s \in Requests, NEW q \in QuoteIds, Confirm(s, q)
        PROVE  ApprovedTerms(s)'
    <2>1. PICK terms : terms = quotes[q]
      BY SMTT(60)
    <2>2. /\ rows[s] \in Row /\ terms \in Terms(s)
          /\ quotes'[q] = terms /\ entitlements' = entitlements
      BY <1>2, <2>1, Deciding DEF Confirm
    <2>3. rows'[s].approved = q /\ rows'[s].kind = rows[s].kind
          /\ rows'[s].selected = rows[s].selected
      BY <1>2, Deciding DEF Becomes, Columns, RowsRight
    <2>4. /\ terms.direction = "credit" =>
                 rows[s].kind # "reissue" /\ terms.amount <= WorthOf(s)
          /\ terms.direction = "none" => terms.amount = 0
          /\ rows[s].kind = "reissue" => Total(terms.extra) <= terms.amount
      BY <2>2, TermsCover
    <2>5. WorthOf(s)' = WorthOf(s)
      <3>1. Selected(s)' = Selected(s)
        BY <2>2, <2>3 DEF Selected
      <3> QED BY <3>1, WorthPrimed DEF WorthOf
    <2>6. Total(quotes[rows[s].approved].extra)' = Total(terms.extra)
      BY <2>2, <2>3, ExtraPrimed
    <2>7. terms.direction = "debit" =>
             purchase'[q] = [phase |-> "held", account |-> Payer, cost |-> terms.amount]
      BY <1>2, <2>1, HoldTakes DEF HoldTaken, Bought, PurchasesRight, Payments
    <2> QED BY <2>2, <2>3, <2>4, <2>5, <2>6, <2>7 DEF ApprovedTerms
  <1>3. ASSUME NEW s \in Requests, rows'[s].status = "approved", rows'[s].outcome = "none"
        PROVE  ApprovedTerms(s)'
    <2>1. SameApproval(s) => Selected(s)' = Selected(s)
      BY <1>3, SelectedKept DEF SameApproval, Open
    <2> QED BY <1>1, <1>2, <1>3, <2>1, StaysApproved
  <1> QED BY <1>3 DEF ApprovedRight

-----------------------------------------------------------------------------
(* What is owed to the tickets *)

\* Nothing is owed but by the good tickets.
LEMMA OwedNumbers ==
    ASSUME TicketsRight, NEW p
    PROVE  Owed(entitlements, p) \in Nat
  <1>1. PICK es : es = Good(entitlements)
    OBVIOUS
  <1>2. IsFiniteSet(es) /\ es \subseteq Ticket
    <2>1. es \subseteq entitlements
      BY <1>1 DEF Good
    <2> QED BY <2>1, FS_Subset DEF TicketsRight
  <1>3. PaidFor(es, p) \in Nat
    BY <1>2, PaidSplits
  <1> QED BY <1>1, <1>3, OwedIsPaid

\* What a settlement does to what is owed to the tickets of a payment.
LEMMA OwedSettled ==
    ASSUME RowsRight, QuotesRight, TicketsRight, MoneyRight, SelectedRight, TicketsRight',
           NEW r \in Requests, NEW u, Complete(r, u), NEW q, q = rows[r].approved,
           NEW p \in Payments
    PROVE  /\ PaidFor(Selected(r), p) \in Nat
           /\ PaidFor(Selected(r), p) <= Owed(entitlements, p)
           /\ rows[r].kind # "reissue" =>
                 Owed(entitlements', p) = Owed(entitlements, p) - PaidFor(Selected(r), p)
           /\ rows[r].kind = "reissue" =>
                 /\ Total(quotes[q].extra) \in Nat
                 /\ Owed(entitlements', p)
                    = Owed(entitlements, p) + (IF p = q THEN Total(quotes[q].extra) ELSE 0)
  <1>1. PICK G : G = Good(entitlements)
    OBVIOUS
  <1>2. PICK S : S = Selected(r)
    OBVIOUS
  <1>3. PICK N : N = Successors(r)
    OBVIOUS
  <1>4. PICK H : H = Good(entitlements')
    OBVIOUS
  <1>5. /\ H = (G \ S) \cup N /\ S \subseteq G /\ (G \ S) \cap N = {} /\ G \ S \subseteq H
        /\ H \ (G \ S) = N
    <2>1. /\ H = (G \ S) \cup N /\ S \subseteq G /\ (G \ S) \cap N = {} /\ G \ S \subseteq H
      BY <1>1, <1>2, <1>3, <1>4, GoodAfter
    <2> QED BY <2>1
  <1>6. IsFiniteSet(G) /\ G \subseteq Ticket /\ IsFiniteSet(H) /\ H \subseteq Ticket
    <2>1. G \subseteq entitlements /\ H \subseteq entitlements'
      BY <1>1, <1>4 DEF Good
    <2> QED BY <2>1, FS_Subset DEF TicketsRight
  <1>7. PICK a, b, c, d, h :
           /\ a = PaidFor(G, p) /\ b = PaidFor(S, p) /\ c = PaidFor(G \ S, p)
           /\ d = PaidFor(N, p) /\ h = PaidFor(H, p)
    OBVIOUS
  <1>8. a = b + c /\ a \in Nat /\ b \in Nat /\ c \in Nat
    BY <1>5, <1>6, <1>7, PaidSplits
  <1>9. h = c + d /\ h \in Nat /\ d \in Nat
    BY <1>5, <1>6, <1>7, PaidSplits
  <1>10. Owed(entitlements, p) = a /\ Owed(entitlements', p) = h
    BY <1>1, <1>4, <1>7, OwedIsPaid
  <1>11. CASE rows[r].kind # "reissue"
    <2>1. N = {}
      BY <1>3, <1>11 DEF Successors
    <2>2. d = 0
      <3>1. PICK f : f = [e \in N |-> Paid(e, p)]
        OBVIOUS
      <3>2. f \in [N -> Int] /\ IsFiniteSet(N) /\ \A e \in N : f[e] = 0
        BY <2>1, <3>1, FS_EmptySet
      <3>3. SumOf(f) = 0
        BY ONLY <3>2, SumOfZeros, SMTT(30)
      <3> QED BY <1>7, <3>1, <3>3, TotalIsSum DEF PaidFor
    <2> QED BY <1>2, <1>7, <1>8, <1>9, <1>10, <1>11, <2>2
  <1>12. CASE rows[r].kind = "reissue"
    <2>1. /\ rows[r].status = "approved" /\ rows[r].outcome = "none"
          /\ q \in QuoteIds /\ quotes[q].extra \in [rows[r].selected -> Nat]
      BY HoldCharges
    <2>2. PICK x \in [rows[r].selected -> Nat] : x = quotes[q].extra
      BY <2>1
    <2>3. d = b + (IF p = q THEN Total(x) ELSE 0)
      <3>1. \A i \in rows[r].selected : \E e \in entitlements : e.id = i
        BY <2>1 DEF SelectedRight, Open
      <3>2. Successors(r) \subseteq Ticket
        BY <1>3, <1>5, <1>6
      <3>3. \A e \in Selected(r) : e.state = "active"
        BY TicketsAfter
      <3>4. PaidFor(Successors(r), p)
            = PaidFor(Selected(r), p) + IF p = q THEN Total(x) ELSE 0
        BY <1>12, <2>1, <2>2, <3>1, <3>2, <3>3, SuccessorsPaid
      <3> QED BY <1>2, <1>3, <1>7, <3>4
    <2>4. Total(x) \in Nat
      <3>1. IsFiniteSet(rows[r].selected)
        <4>1. \A i \in rows[r].selected : \E e \in entitlements : e.id = i
          BY <2>1 DEF SelectedRight, Open
        <4>2. PICK F : F = [e \in S |-> e.id]
          OBVIOUS
        <4>3. F \in Surjection(S, rows[r].selected)
          <5>1. F \in [S -> rows[r].selected]
            BY <1>2, <4>2, TicketsAfter
          <5>2. \A i \in rows[r].selected : \E e \in S : F[e] = i
            BY <1>2, <4>1, <4>2 DEF Selected
          <5> QED BY <5>1, <5>2 DEF Surjection
        <4>4. IsFiniteSet(S)
          BY <1>5, <1>6, FS_Subset
        <4> QED BY <4>3, <4>4, FS_Surjection
      <3> QED BY <3>1, SumCovers, TotalIsSum
    <2>5. h = a + (IF p = q THEN Total(x) ELSE 0) /\ b <= a
      BY <1>8, <1>9, <2>3, <2>4
    <2> QED BY <1>2, <1>7, <1>8, <1>10, <1>12, <2>2, <2>4, <2>5
  <1> QED BY <1>11, <1>12

LEMMA KeptStays ==
    ASSUME RowsRight, QuotesRight, MoneyRight, PurchasesRight, [ManagementNext]_managementVars,
           ~\E r \in Requests, u \in Admins \cup Accountants : Complete(r, u),
           NEW p \in Payments
    PROVE  Kept(p)' = Kept(p)
  <1>1. ASSUME NEW q \in QuoteIds, purchase[q].phase # "charged",
               NEW phase \in {"held", "returned"}, NEW cost, Bought(q, phase, cost)
        PROVE  Kept(p)' = Kept(p)
    <2>1. PICK b : b = [phase |-> phase, account |-> Payer, cost |-> cost]
      OBVIOUS
    <2>2. purchase' = [purchase EXCEPT ![q] = b] /\ DOMAIN purchase = Payments
          /\ b.phase # "charged"
      BY <1>1, <2>1 DEF Bought, PurchasesRight
    <2> QED BY <1>1, <2>2 DEF Kept
  <1>2. ASSUME NEW r \in Requests, NEW q \in QuoteIds, HoldTaken(r, q)
        PROVE  Kept(p)' = Kept(p)
    BY <1>1, <1>2 DEF HoldTaken
  <1>3. ASSUME NEW r \in Requests, HoldEnds(r, "returned", 0)
        PROVE  Kept(p)' = Kept(p)
    BY <1>1, <1>3 DEF HoldEnds
  <1>4. purchase' = purchase => Kept(p)' = Kept(p)
    BY DEF Kept
  <1> QED BY <1>2, <1>3, <1>4, WalletMoves

LEMMA OwedKept ==
    ASSUME RowsRight, QuotesRight, TicketsRight, MoneyRight, TicketsRight',
           FundedRight, SelectedRight, ApprovedRight, PurchasesRight, OwedRight,
           [ManagementNext]_managementVars
    PROVE  OwedRight'
  <1>1. ASSUME ~\E r \in Requests, u \in Admins \cup Accountants : Complete(r, u),
               NEW p \in Payments
        PROVE  /\ Owed(entitlements', p) <= Kept(p)'
               /\ entitlements' = {} => Owed(InitialEntitlements, p) <= Kept(p)'
    <2>1. Kept(p)' = Kept(p)
      BY <1>1, KeptStays
    <2>2. /\ Owed(entitlements, p) <= Kept(p)
          /\ entitlements = {} => Owed(InitialEntitlements, p) <= Kept(p)
      BY DEF OwedRight
    <2>3. entitlements' = entitlements \/ entitlements' = Initialized
      BY <1>1, TicketsStay
    <2>4. \/ entitlements' = entitlements
          \/ /\ entitlements = {}
             /\ entitlements' = InitialEntitlements
      BY <2>3 DEF Initialized
    <2> QED BY <2>1, <2>2, <2>4
  <1>2. ASSUME NEW r \in Requests, NEW u \in Admins \cup Accountants, Complete(r, u),
               NEW p \in Payments
        PROVE  Owed(entitlements', p) <= Kept(p)' /\ entitlements' # {}
    <2>1. PICK q : q = rows[r].approved
      OBVIOUS
    <2>2. /\ quotes[q].direction = "debit" => HoldEnds(r, "charged", quotes[q].amount)
          /\ quotes[q].direction = "credit" => Refunds(r)
          /\ quotes[q].direction = "none" => purchase' = purchase
          /\ rows[r].status = "approved" /\ rows[r].outcome = "none"
          /\ q \in QuoteIds
          /\ quotes[q].amount \in Nat /\ quotes[q].direction \in {"debit", "credit", "none"}
      BY <1>2, <2>1, HoldCharges
    <2>3. /\ quotes[q].direction = "credit" => rows[r].kind # "reissue"
          /\ quotes[q].direction = "none" => quotes[q].amount = 0
          /\ rows[r].kind = "reissue" => Total(quotes[q].extra) <= quotes[q].amount
      BY <2>1, <2>2 DEF ApprovedRight, ApprovedTerms
    <2>4. entitlements' # {}
      <3>1. entitlements # {}
        BY <2>2 DEF SelectedRight, Open
      <3> QED BY <1>2, <3>1, TicketsAfter
    <2>5. PICK a, b, h, x : /\ a = Owed(entitlements, p) /\ b = PaidFor(Selected(r), p)
                            /\ h = Owed(entitlements', p) /\ x = Total(quotes[q].extra)
      OBVIOUS
    <2>6. /\ b \in Nat /\ b <= a /\ a \in Nat
          /\ rows[r].kind # "reissue" => h = a - b
          /\ rows[r].kind = "reissue" => x \in Nat /\ h = a + (IF p = q THEN x ELSE 0)
      BY <1>2, <2>1, <2>5, OwedSettled, OwedNumbers
    <2>7. PICK k : k = Kept(p)
      OBVIOUS
    <2>8. a <= k /\ k \in Nat
      <3>1. k \in Nat
        BY <2>7 DEF Kept, PurchasesRight, Purchase
      <3> QED BY <2>5, <2>7, <3>1 DEF OwedRight
    <2>9. CASE quotes[q].direction = "none"
      <3>1. Kept(p)' = k
        BY <2>2, <2>7, <2>9 DEF Kept
      <3>2. rows[r].kind = "reissue" => x = 0
        BY <2>3, <2>5, <2>6, <2>9
      <3>3. h <= k
        BY <2>6, <2>8, <3>2
      <3> QED BY <2>4, <2>5, <3>1, <3>3
    <2>10. CASE quotes[q].direction = "credit"
      <3>1. Returned(r, p)
        BY <1>2, <2>2, <2>10, CreditsReturn
      <3>2. PICK n : n = CreditOf(r, p)
        OBVIOUS
      <3>3. n \in Nat /\ n <= b
        BY <2>5, <3>1, <3>2 DEF Returned
      <3>4. Kept(p)' = k - n
        <4>1. CASE n = 0 /\ purchase'[p] = purchase[p]
          BY <2>7, <2>8, <4>1 DEF Kept
        <4>2. CASE /\ purchase[p].phase = "charged" /\ purchase'[p].phase = "charged"
                   /\ purchase'[p].cost = purchase[p].cost - n
          BY <2>7, <4>2 DEF Kept
        <4> QED BY <3>1, <3>2, <4>1, <4>2 DEF Returned
      <3>5. h <= k - n
        BY <2>3, <2>6, <2>8, <2>10, <3>3
      <3> QED BY <2>4, <2>5, <3>4, <3>5
    <2>11. CASE quotes[q].direction = "debit"
      <3>1. /\ purchase[q] = [phase |-> "held", account |-> Payer, cost |-> quotes[q].amount]
            /\ Bought(q, "charged", quotes[q].amount)
        BY <2>1, <2>2, <2>11 DEF HoldEnds
      <3>2. DOMAIN purchase = Payments
        BY DEF PurchasesRight
      <3>3. CASE p = q
        <4>1. k = 0
          BY <2>7, <3>1, <3>3 DEF Kept
        <4>2. Kept(p)' = quotes[q].amount
          <5>1. purchase'[p] = [phase |-> "charged", account |-> Payer, cost |-> quotes[q].amount]
            BY <3>1, <3>2, <3>3 DEF Bought
          <5> QED BY <5>1 DEF Kept
        <4>3. h <= quotes[q].amount
          BY <2>2, <2>3, <2>5, <2>6, <2>8, <3>3, <4>1
        <4> QED BY <2>4, <2>5, <4>2, <4>3
      <3>4. CASE p # q
        <4>1. Kept(p)' = k
          BY <2>7, <3>1, <3>2, <3>4 DEF Bought, Kept
        <4>2. h <= k
          BY <2>6, <2>8, <3>4
        <4> QED BY <2>4, <2>5, <4>1, <4>2
      <3> QED BY <3>3, <3>4
    <2> QED BY <2>2, <2>9, <2>10, <2>11
  <1>3. ASSUME NEW p \in Payments
        PROVE  /\ Owed(entitlements', p) <= Kept(p)'
               /\ entitlements' = {} => Owed(InitialEntitlements, p) <= Kept(p)'
    BY <1>1, <1>2
  <1>4. ASSUME NEW p \in Payments
        PROVE  /\ Owed(entitlements, p)' <= Kept(p)'
               /\ entitlements' = {} => Owed(InitialEntitlements, p)' <= Kept(p)'
    <2>1. /\ Owed(entitlements, p)' = Owed(entitlements', p)
          /\ Owed(InitialEntitlements, p)' = Owed(InitialEntitlements, p)
      BY OwedPrimed, FirstOwedPrimed
    <2> QED BY <1>3, <2>1
  <1>5. Payments' = Payments
    BY DEF Payments, QuoteIds
  <1> QED BY <1>4, <1>5 DEF OwedRight

-----------------------------------------------------------------------------
(* The invariant holds *)

LEMMA PricesTyped == Total(Price) \in Nat
  <1>1. IsFiniteSet(Passengers) /\ Price \in [Passengers -> Nat]
    BY PriceAssumption
  <1>2. SumOf(Price) \in Nat
    BY <1>1, SumCovers
  <1> QED BY <1>2, TotalIsSum

\* The issue paid for all the first tickets.
LEMMA FirstOwed ==
    ASSUME NEW p
    PROVE  /\ Owed({}, p) = 0
           /\ Owed(InitialEntitlements, p) = IF p = Issue THEN Total(Price) ELSE 0
  <1>1. Owed({}, p) = 0
    <2>1. PICK S : S = {d \in {} : d.state = "active"}
      OBVIOUS
    <2>2. S = {}
      BY <2>1
    <2>3. PICK f : f = [e \in S |-> Paid(e, p)]
      OBVIOUS
    <2>4. f \in [S -> Int] /\ IsFiniteSet(S) /\ \A x \in S : f[x] = 0
      BY <2>2, <2>3, FS_EmptySet
    <2>5. SumOf(f) = 0
      BY ONLY <2>4, SumOfZeros
    <2> QED BY <2>1, <2>3, <2>5, TotalIsSum DEF Owed
  <1>2. PICK es : es = InitialEntitlements
    OBVIOUS
  <1>3. PICK F : F = [n \in Passengers |->
                        [id |-> <<n, NoRequest>>, amount |-> Price[n], state |-> "active",
                         funding |-> <<[payment |-> Issue, amount |-> Price[n]]>>]]
    OBVIOUS
  <1>4. /\ \A n \in Passengers : F[n] \in es /\ F[n].id[1] = n
        /\ \A e \in es : \E n \in Passengers : F[n] = e
    BY <1>2, <1>3 DEF InitialEntitlements
  <1>5. IsFiniteSet(es) /\ IsFiniteSet(Passengers)
    <2>1. F \in Surjection(Passengers, es)
      BY <1>3, <1>4 DEF Surjection
    <2> QED BY <2>1, PriceAssumption, FS_Surjection
  <1>6. \A e \in es : /\ Paid(e, p) = IF p = Issue THEN e.amount ELSE 0
                      /\ e.state = "active" /\ e.amount \in Nat
                      /\ e.id[1] \in Passengers /\ e.amount = Price[e.id[1]]
    BY <1>2, FirstTickets
  <1>7. PICK f : f = [e \in es |-> Paid(e, p)]
    OBVIOUS
  <1>8. f \in [es -> Int] /\ \A e \in es : f[e] = IF p = Issue THEN e.amount ELSE 0
    BY <1>6, <1>7
  <1>9. Owed(es, p) = SumOf(f)
    <2>1. {d \in es : d.state = "active"} = es
      BY <1>6
    <2> QED BY <1>7, <2>1, TotalIsSum DEF Owed
  <1>10. CASE p # Issue
    <2>1. \A e \in es : f[e] = 0
      BY <1>8, <1>10
    <2>2. SumOf(f) = 0
      BY ONLY <1>5, <1>8, <2>1, SumOfZeros
    <2> QED BY <1>1, <1>2, <1>9, <1>10, <2>2
  <1>11. CASE p = Issue
    <2>1. PICK b : b = [e \in es |-> e.id[1]]
      OBVIOUS
    <2>2. Price \in [Passengers -> Int]
      BY PriceAssumption
    <2>3. /\ b \in [es -> Passengers]
          /\ \A d, e \in es : b[d] = b[e] => d = e
          /\ \A n \in Passengers : \E e \in es : b[e] = n
      BY <1>4, <1>6, <2>1
    <2>4. SumOf([e \in es |-> Price[b[e]]]) = SumOf(Price)
      <3>1. Renamed(es, Passengers, b, Price)
        BY <1>5, <2>2, <2>3 DEF Renamed
      <3> QED BY ONLY <3>1, SumRenamed
    <2>5. f = [e \in es |-> Price[b[e]]]
      <3>1. \A e \in es : f[e] = Price[b[e]]
        BY <1>6, <1>8, <1>11, <2>1
      <3> QED BY <1>7, <3>1
    <2> QED BY <1>1, <1>2, <1>9, <1>11, <2>4, <2>5, TotalIsSum
  <1> QED BY <1>10, <1>11

LEMMA AgreedStarts == ManagementInit => AgreedInvariant
  <1> SUFFICES ASSUME ManagementInit
               PROVE  AgreedInvariant
    OBVIOUS
  <1>1. \A r \in Requests : rows[r] = NotAsked
    BY DEF ManagementInit
  <1>2. FundedRight /\ SelectedRight /\ ApprovedRight
    BY <1>1 DEF ManagementInit, FundedRight, SelectedRight, ApprovedRight, Open, NotAsked
  <1>3. PICK m : m = Total(Price)
    OBVIOUS
  <1>4. m \in Nat
    BY <1>3, PricesTyped
  <1>5. purchase = [p \in Payments |->
            IF p = Issue THEN [phase |-> "charged", account |-> Payer, cost |-> m]
            ELSE [phase |-> "none", account |-> Nobody, cost |-> 0]]
    BY <1>3 DEF ManagementInit
  <1>6. purchase \in [Payments -> Purchase]
    BY <1>4, <1>5 DEF Purchase
  <1>7. \A p \in Payments : /\ purchase[p].cost = IF p = Issue THEN m ELSE 0
                            /\ Kept(p) = IF p = Issue THEN m ELSE 0
    BY <1>5 DEF Kept
  <1>8. PurchasesRight
    <2>1. PICK c : c = [p \in Payments |-> purchase[p].cost]
      OBVIOUS
    <2>2. Issue \in Payments /\ IsFiniteSet(Payments)
      BY PaymentsFinite DEF Payments
    <2>3. /\ c \in [Payments -> Int] /\ c[Issue] = m
          /\ \A p \in Payments \ {Issue} : c[p] = 0
      BY <1>4, <1>7, <2>1, <2>2
    <2>4. SumOf(c) = c[Issue]
      BY ONLY <2>2, <2>3, SumOfOne
    <2>5. Total([p \in Payments |-> purchase[p].cost]) = m
      BY <2>1, <2>3, <2>4, TotalIsSum
    <2>6. spendable[Payer] = Funds
      BY DEF ManagementInit
    <2> QED BY <1>3, <1>6, <2>5, <2>6 DEF PurchasesRight
  <1>9. OwedRight
    <2> SUFFICES ASSUME NEW p \in Payments
                 PROVE  /\ Owed(entitlements, p) <= Kept(p)
                        /\ Owed(InitialEntitlements, p) <= Kept(p)
      BY DEF OwedRight
    <2>1. /\ Owed(entitlements, p) = 0
          /\ Owed(InitialEntitlements, p) = IF p = Issue THEN m ELSE 0
      BY <1>3, FirstOwed DEF ManagementInit
    <2> QED BY <1>4, <1>7, <2>1
  <1> QED BY <1>2, <1>8, <1>9 DEF AgreedInvariant

LEMMA AgreedSteps ==
    /\ DeskInvariant /\ DeskInvariant' /\ AgreedInvariant
    /\ [ManagementNext]_managementVars
    => AgreedInvariant'
  <1> SUFFICES ASSUME DeskInvariant, DeskInvariant', AgreedInvariant,
                      [ManagementNext]_managementVars
               PROVE  AgreedInvariant'
    OBVIOUS
  <1>1. /\ RowsRight /\ QuotesRight /\ TicketsRight /\ ClaimsRight /\ MoneyRight
        /\ TicketsRight'
    BY DEF DeskInvariant
  <1>2. FundedRight /\ SelectedRight /\ ApprovedRight /\ PurchasesRight /\ OwedRight
    BY DEF AgreedInvariant
  <1>3. FundedRight'
    BY <1>1, <1>2, FundedKept
  <1>4. SelectedRight'
    BY <1>1, <1>2, SelectedKept
  <1>5. ApprovedRight'
    BY <1>1, <1>2, ApprovedKept
  <1>6. PurchasesRight'
    BY <1>1, <1>2, PurchasesKept
  <1>7. OwedRight'
    BY <1>1, <1>2, OwedKept
  <1> QED BY <1>3, <1>4, <1>5, <1>6, <1>7 DEF AgreedInvariant

LEMMA AgreedHolds == ManagementSpec => [](DeskInvariant /\ AgreedInvariant)
  <1>1. DeskInvariant /\ AgreedInvariant /\ [ManagementNext]_managementVars
        => DeskInvariant' /\ AgreedInvariant'
    BY DeskSteps, AgreedSteps
  <1> QED BY <1>1, DeskStarts, AgreedStarts, PTL DEF ManagementSpec

-----------------------------------------------------------------------------
(* What was approved can be settled *)

\* An open request has a claim for each of its tickets, and they are good.
LEMMA OpenIsActive ==
    ASSUME RowsRight, TicketsRight, ClaimsRight, SelectedRight, NEW r \in Requests,
           Open(rows, r), rows[r] \in Row
    PROVE  SelectionsActive(r)
  <1>1. PICK I : I = rows[r].selected
    OBVIOUS
  <1>2. IsFiniteSet(I)
    <2>1. IsFiniteSet(Requests \cup {NoRequest})
      BY RequestAssumption, FS_AddElement
    <2>2. IsFiniteSet(Passengers \X (Requests \cup {NoRequest}))
      BY <2>1, PriceAssumption, FS_Product
    <2>3. I \subseteq Passengers \X (Requests \cup {NoRequest})
      BY <1>1 DEF Row
    <2> QED BY <2>2, <2>3, FS_Subset
  <1>3. PICK C : C = ClaimsOf(r)
    OBVIOUS
  <1>4. \A c \in C : c = <<c[1], r>> /\ c[1] \in I
    BY <1>1, <1>3 DEF ClaimsOf, ClaimsRight
  <1>5. \A i \in I : <<i, r>> \in C
    BY <1>1, <1>3 DEF ClaimsOf, ClaimsRight
  <1>6. PICK b : b = [i \in I |-> <<i, r>>]
    OBVIOUS
  <1>7. b \in Bijection(I, C)
    <2>1. b \in [I -> C] /\ \A i, j \in I : b[i] = b[j] => i = j
      BY <1>5, <1>6
    <2>2. \A c \in C : \E i \in I : b[i] = c
      BY <1>4, <1>6
    <2> QED BY <2>1, <2>2 DEF Bijection, Injection, Surjection, IsInjective
  <1>8. Cardinality(C) = Cardinality(I)
    BY <1>2, <1>7, FS_Bijection DEF ExistsBijection
  <1>9. \A e \in Selected(r) : e.state = "active"
    BY DEF SelectedRight, TicketsRight, Selected
  <1> QED BY <1>1, <1>3, <1>8, <1>9 DEF SelectionsActive

LEMMA AgreedSettles ==
    ASSUME DeskInvariant, AgreedInvariant, NEW r \in Requests,
           rows[r].status = "approved", Open(rows, r),
           NEW q, q = rows[r].approved
    PROVE  /\ SelectionsActive(r)
           /\ quotes[q].direction = "debit" => HoldValid(r)
           /\ quotes[q].direction = "credit" =>
                 /\ Whole(r) /\ Refundable(r)
                 /\ Total([p \in Payments |-> CreditOf(r, p)]) = quotes[q].amount
  <1>1. RowsRight /\ QuotesRight /\ TicketsRight /\ ClaimsRight
    BY DEF DeskInvariant
  <1>2. FundedRight /\ SelectedRight /\ ApprovedRight /\ PurchasesRight /\ OwedRight
    BY DEF AgreedInvariant
  <1>3. rows[r] \in Row /\ rows[r].outcome = "none"
    BY <1>1 DEF RowsRight, Open, NotAsked
  <1>4. /\ q \in QuoteIds
        /\ rows[r].hold = IF quotes[q].direction = "debit" THEN q ELSE NoQuote
    BY <1>1, <1>3 DEF RowsRight, OwnQuotes
  <1>5. ApprovedTerms(r)
    BY <1>2, <1>3 DEF ApprovedRight
  <1>6. SelectionsActive(r)
    BY <1>1, <1>2, <1>3, OpenIsActive
  <1>7. ASSUME quotes[q].direction = "debit"
        PROVE  HoldValid(r)
    BY <1>4, <1>5, <1>7 DEF ApprovedTerms, HoldValid
  <1>8. ASSUME quotes[q].direction = "credit"
        PROVE  /\ Whole(r) /\ Refundable(r)
               /\ Total([p \in Payments |-> CreditOf(r, p)]) = quotes[q].amount
    <2>1. PICK asked : asked = quotes[q].amount
      OBVIOUS
    <2>2. PICK worth : worth = Total([e \in Selected(r) |-> e.amount])
      OBVIOUS
    <2>3. asked \in Nat /\ asked <= worth
      <3>1. asked <= WorthOf(r)
        BY <1>5, <1>8, <2>1 DEF ApprovedTerms
      <3> QED BY <1>1, <1>4, <2>1, <2>2, <3>1 DEF QuotesRight, WorthOf
    <2>4. \A e \in Selected(r) : e.state = "active"
      BY <1>6 DEF SelectionsActive
    <2>5. /\ \A p \in Payments : /\ CreditOf(r, p) \in Nat
                                 /\ CreditOf(r, p) <= PaidFor(Selected(r), p)
          /\ Total([p \in Payments |-> CreditOf(r, p)])
             = IF worth < asked THEN worth ELSE asked
          /\ worth \in Nat
      BY <1>1, <1>2, <2>1, <2>2, <2>3, <2>4, CreditsSplit
    <2>6. ASSUME NEW p \in Payments, CreditOf(r, p) > 0
          PROVE  purchase[p].phase = "charged" /\ CreditOf(r, p) <= purchase[p].cost
      <3>1. PICK es : es = Good(entitlements)
        OBVIOUS
      <3>2. IsFiniteSet(es) /\ es \subseteq Ticket /\ Selected(r) \subseteq es
        <4>1. es \subseteq entitlements /\ Selected(r) \subseteq es
          BY <2>4, <3>1 DEF Good, Selected
        <4> QED BY <1>1, <4>1, FS_Subset DEF TicketsRight
      <3>3. PICK a, b, c, n : /\ a = PaidFor(es, p) /\ b = PaidFor(Selected(r), p)
                              /\ c = PaidFor(es \ Selected(r), p) /\ n = CreditOf(r, p)
        OBVIOUS
      <3>4. a = b + c /\ a \in Nat /\ b \in Nat /\ c \in Nat
        BY <3>2, <3>3, PaidSplits
      <3>5. n \in Nat /\ n <= b /\ n > 0
        BY <2>5, <2>6, <3>3
      <3>6. PICK k : k = Kept(p)
        OBVIOUS
      <3>7. a <= k
        BY <1>2, <3>1, <3>3, <3>6, OwedIsPaid DEF OwedRight
      <3>8. k \in Nat
        BY <1>2, <3>6 DEF PurchasesRight, Purchase, Kept
      <3>9. n <= k /\ k > 0
        BY <3>4, <3>5, <3>7, <3>8
      <3>10. purchase[p].phase = "charged" /\ k = purchase[p].cost
        BY <3>6, <3>8, <3>9 DEF Kept
      <3> QED BY <3>3, <3>9, <3>10
    <2>7. Total([p \in Payments |-> CreditOf(r, p)]) = asked
      BY <2>3, <2>5
    <2>8. Whole(r)
      BY <1>2 DEF FundedRight, Selected, Whole
    <2> QED BY <2>1, <2>6, <2>7, <2>8 DEF Refundable
  <1> QED BY <1>6, <1>7, <1>8

\* What a customer approved can be paid back or charged to the last minor unit
\* when finance settles it, whatever other requests refunded, voided or reissued
\* since: the slices of the good tickets are never more than what their payments
\* kept, the tickets of an open request stay good and claimed, and a debit stays
\* held (confirm, settle, rules::allocate_initial and REFUND_EXCEEDS_CAPTURE).
THEOREM AgreedIsPayable == ManagementSpec => []AgreedCanSettle
  <1>1. DeskInvariant /\ AgreedInvariant => AgreedCanSettle
    <2> SUFFICES ASSUME DeskInvariant, AgreedInvariant
                 PROVE  AgreedCanSettle
      OBVIOUS
    <2>1. spendable[Payer] \in Nat
      BY DEF DeskInvariant, MoneyRight
    <2>2. PurchasesRight /\ OwedRight /\ TicketsRight
      BY DEF DeskInvariant, AgreedInvariant
    <2>3. \A p \in Payments : purchase[p] \in Purchase /\ purchase[p].cost \in Nat
      BY <2>2 DEF PurchasesRight, Purchase
    <2>4. spendable[Payer] <= Funds + Total(Price)
      <3>1. PICK c : c = [p \in Payments |-> purchase[p].cost]
        OBVIOUS
      <3>2. c \in [Payments -> Nat] /\ IsFiniteSet(Payments)
        BY <2>3, <3>1, PaymentsFinite
      <3>3. SumOf(c) \in Nat
        BY ONLY <3>2, SumCovers
      <3>4. PICK n, m : n = Total(c) /\ m = Total(Price)
        OBVIOUS
      <3>5. n \in Nat /\ m \in Nat
        BY <3>3, <3>4, PricesTyped, TotalIsSum
      <3>6. spendable[Payer] + n = Funds + m
        BY <2>2, <3>1, <3>4 DEF PurchasesRight
      <3>7. spendable[Payer] <= Funds + m
        BY <2>1, <3>5, <3>6, FundsAssumption
      <3> QED BY <3>4, <3>7
    <2>5. ASSUME NEW p \in Payments, Owed(entitlements, p) > 0
          PROVE  /\ purchase[p].phase = "charged"
                 /\ Owed(entitlements, p) <= purchase[p].cost
      <3>1. PICK a, k : a = Owed(entitlements, p) /\ k = Kept(p)
        OBVIOUS
      <3>2. a \in Nat /\ a > 0 /\ a <= k
        BY <2>2, <2>5, <3>1, OwedNumbers DEF OwedRight
      <3>3. purchase[p].phase = "charged" /\ k = purchase[p].cost
        BY <3>1, <3>2 DEF Kept
      <3> QED BY <3>1, <3>2, <3>3
    <2>6. ASSUME NEW r \in Requests, rows[r].status = "approved", Open(rows, r)
          PROVE  LET terms == quotes[rows[r].approved]
                 IN  /\ SelectionsActive(r)
                     /\ terms.direction = "debit" => HoldValid(r)
                     /\ terms.direction = "credit" =>
                           /\ Whole(r) /\ Refundable(r)
                           /\ Total([p \in Payments |-> CreditOf(r, p)]) = terms.amount
      BY <2>6, AgreedSettles
    <2> QED BY <2>3, <2>4, <2>5, <2>6 DEF AgreedCanSettle
  <1> QED BY <1>1, AgreedHolds, PTL

=============================================================================
