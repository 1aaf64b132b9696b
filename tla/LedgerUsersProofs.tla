------------------------- MODULE LedgerUsersProofs -------------------------
(***************************************************************************)
(* Theorems about the two modules that move money through the ledger,       *)
(* WalletRequests and TicketIssue: each implements the ledger and so has    *)
(* its theorems, and each keeps what is its own to keep.  The modules share *)
(* nothing but the ledger; each has a section of its own.                   *)
(***************************************************************************)
EXTENDS WalletRequests, TicketIssue, WalletLedgerProofs

-----------------------------------------------------------------------------
(***************************************************************************)
(* WalletRequests, for any number of users, accounts, requests and          *)
(* payments: what is posted, claimed and reversed is what was approved.     *)
(***************************************************************************)

-----------------------------------------------------------------------------
(* The inductive invariant *)

\* A deposit says what was paid; nothing else does.
DetailsKept(r) ==
    IF requests[r].posting = "deposit"
    THEN requests[r].details \in Details /\ requests[r].reverses = NoRequest
    ELSE requests[r].details = NoPayment

\* A reversal is a debit of the account an approved deposit credited.
ReversalBound(r) ==
    LET d == requests[r].reverses
    IN  d # NoRequest =>
          /\ d \in Deposits /\ requests[d].status = "approved"
          /\ requests[r].account = requests[d].account
          /\ requests[r].posting = "manual_debit"

ClaimsOnce == \A c, d \in claims : c.payment = d.payment => c = d

RequestsInvariant ==
    /\ IsFiniteSet(Made)
    /\ PostingsAreApproved
    /\ \A r \in Made : DetailsKept(r) /\ ReversalBound(r)
    /\ ClaimsOnce
    /\ PaymentCreditedOnce
    /\ ReversalsWithinDeposit

-----------------------------------------------------------------------------
(* What each step does to the requests *)

SameAsked(x, y) ==
    /\ x.posting = y.posting /\ x.account = y.account /\ x.amount = y.amount
    /\ x.details = y.details /\ x.by = y.by /\ x.reverses = y.reverses

\* A request is made, with what its kind requires.
Asks(r, now) ==
    /\ requests[r].status = "none"
    /\ requests' = [requests EXCEPT ![r] = now]
    /\ now \in Request /\ now.status = "pending"
    /\ IF now.posting = "deposit"
       THEN now.details \in Details /\ now.reverses = NoRequest
       ELSE now.details = NoPayment
    /\ now.reverses # NoRequest =>
          /\ now.reverses \in Deposits /\ requests[now.reverses].status = "approved"
          /\ now.account = requests[now.reverses].account
          /\ now.posting = "manual_debit"
    /\ UNCHANGED <<ledgerVars, claims>>

\* A pending request is decided.
Reviews(r, decision, u, row) ==
    /\ requests[r] \in Request /\ requests[r].status = "pending"
    /\ u \in Finance /\ u # requests[r].by
    /\ row \in Request /\ row.status = decision /\ row.reviewer = u
    /\ SameAsked(row, requests[r])
    /\ requests' = [requests EXCEPT ![r] = row]

\* What changes no request: the ledger moves money for operations only.
Others ==
    /\ UNCHANGED requestVars
    /\ \/ AccountsNext /\ UNCHANGED balanceVars
       \/ LedgerNext
       \/ UNCHANGED ledgerVars

LEMMA MadeRow ==
    ASSUME RequestsTypeOK, NEW r \in Refs
    PROVE  /\ r \in Made <=> requests[r].status # "none"
           /\ r \in Made <=> requests[r] \in Request
           /\ r \notin Made => requests[r] = Unasked
  <1>1. \A x \in Request : x.status # "none"
    BY DEF Request
  <1> QED BY <1>1 DEF RequestsTypeOK, Made, Unasked

LEMMA ReviewRow ==
    ASSUME RequestsTypeOK, NEW r \in Refs, NEW u \in Users,
           NEW decision \in {"approved", "rejected"},
           MayReview(r, u), Reviewed(r, decision, u)
    PROVE  \E row : Reviews(r, decision, u, row)
  <1> DEFINE row == [requests[r] EXCEPT !.status = decision, !.reviewer = u]
  <1>1. requests[r] \in Request /\ requests[r].status = "pending"
        /\ u \in Finance /\ u # requests[r].by
    BY MadeRow DEF MayReview
  <1>2. row \in Request /\ row.status = decision /\ row.reviewer = u
        /\ SameAsked(row, requests[r])
    BY <1>1 DEF Request, SameAsked
  <1>3. requests' = [requests EXCEPT ![r] = row]
    BY DEF Reviewed
  <1> HIDE DEF row
  <1> QED BY <1>1, <1>2, <1>3 DEF Reviews

LEMMA AskRow ==
    ASSUME RequestsTypeOK, NEW r \in Refs, NEW a \in Accounts, NEW m \in Amounts,
           NEW posting \in Postings, NEW details \in Details \cup {NoPayment},
           NEW u \in Users, NEW original \in Refs \cup {NoRequest},
           requests[r].status = "none",
           Asked(r, posting, a, m, details, u, original),
           IF posting = "deposit" THEN details \in Details /\ original = NoRequest
           ELSE details = NoPayment,
           original # NoRequest =>
              /\ original \in Deposits /\ requests[original].status = "approved"
              /\ a = requests[original].account /\ posting = "manual_debit",
           UNCHANGED <<ledgerVars, claims>>
    PROVE  \E now : Asks(r, now)
  <1> DEFINE now == [status |-> "pending", posting |-> posting, account |-> a,
                     amount |-> m, details |-> details, by |-> u,
                     reviewer |-> NoUser, reverses |-> original]
  <1>1. /\ now \in Request /\ now.status = "pending" /\ now.posting = posting
        /\ now.details = details /\ now.reverses = original /\ now.account = a
    BY DEF Request
  <1>2. requests' = [requests EXCEPT ![r] = now]
    BY DEF Asked
  <1> HIDE DEF now
  <1> QED BY <1>1, <1>2 DEF Asks

LEMMA WalletCases ==
    ASSUME RequestsTypeOK, TypeOK, [WalletNext]_walletVars
    PROVE  \/ Others
           \/ \E r \in Refs : \E now : Asks(r, now)
           \/ \E r \in Refs, u \in Users : Approve(r, u) \/ Reject(r, u)
  <1>1. ASSUME NEW r \in Refs, NEW a \in Accounts, NEW m \in Amounts, NEW d \in Details,
               NEW u \in Users, CreateDeposit(r, a, m, d, u)
        PROVE  \E now : Asks(r, now)
    <2>1. /\ requests[r].status = "none" /\ Asked(r, "deposit", a, m, d, u, NoRequest)
          /\ UNCHANGED <<ledgerVars, claims>>
      BY <1>1 DEF CreateDeposit
    <2>2. "deposit" \in Postings
      BY DEF Postings, Credits
    <2> QED BY <2>1, <2>2, AskRow
  <1>2. ASSUME NEW r \in Refs, NEW a \in Accounts, NEW m \in Amounts,
               NEW t \in Postings \ {"deposit"},
               NEW u \in Users, CreateAdjustment(r, a, m, t, u)
        PROVE  \E now : Asks(r, now)
    <2>1. /\ requests[r].status = "none" /\ Asked(r, t, a, m, NoPayment, u, NoRequest)
          /\ UNCHANGED <<ledgerVars, claims>>
      BY <1>2 DEF CreateAdjustment
    <2> QED BY <2>1, AskRow
  <1>3. ASSUME NEW r \in Refs, NEW d \in Refs, NEW m \in Amounts,
               NEW u \in Users, CreateReversal(r, d, m, u)
        PROVE  \E now : Asks(r, now)
    <2>1. /\ requests[r].status = "none"
          /\ d \in Deposits /\ requests[d].status = "approved"
          /\ Asked(r, "manual_debit", requests[d].account, m, NoPayment, u, d)
          /\ UNCHANGED <<ledgerVars, claims>>
      BY <1>3 DEF CreateReversal
    <2>2. "manual_debit" \in Postings /\ requests[d].account \in Accounts
      BY <2>1, MadeRow DEF Postings, Deposits, Request
    <2>3. PICK a \in Accounts : a = requests[d].account
      BY <2>2
    <2> QED BY <2>1, <2>2, <2>3, AskRow
  <1>4. ASSUME AccountsNext /\ UNCHANGED <<balanceVars, requestVars>>
        PROVE  Others
    BY <1>4 DEF Others
  <1>5. ASSUME LedgerNext /\ UNCHANGED requestVars
        PROVE  Others
    BY <1>5 DEF Others
  <1>6. ASSUME UNCHANGED walletVars
        PROVE  Others
    BY <1>6 DEF Others, walletVars
  <1> QED BY <1>1, <1>2, <1>3, <1>4, <1>5, <1>6 DEF WalletNext, RequestsNext

-----------------------------------------------------------------------------
(* The ledger under the requests *)

\* An approval is a posting of a request, everything else is a step of the
\* ledger or none.
LEMMA WalletStepsLedger ==
    ASSUME RequestsTypeOK, TypeOK, [WalletNext]_walletVars
    PROVE  [Next]_ledgerVars
  <1>1. CASE Others
    BY <1>1 DEF Others, Next
  <1>2. ASSUME NEW r \in Refs, NEW now, Asks(r, now)
        PROVE  [Next]_ledgerVars
    BY <1>2 DEF Asks
  <1>3. ASSUME NEW r \in Refs, NEW u \in Users, Reject(r, u)
        PROVE  [Next]_ledgerVars
    BY <1>3 DEF Reject
  <1>4. ASSUME NEW r \in Refs, NEW u \in Users, Approve(r, u)
        PROVE  [Next]_ledgerVars
    <2>1. /\ requests[r].status = "pending"
          /\ PostRequest(requests[r].account, requests[r].posting, requests[r].amount, r)
      BY <1>4 DEF Approve, MayReview
    <2>2. requests[r] \in Request
      BY <2>1, MadeRow
    <2>3. /\ requests[r].account \in Accounts /\ requests[r].amount \in Amounts
          /\ requests[r].posting \in Credits \cup {"manual_debit"}
      BY <2>2 DEF Request, Postings
    <2>4. RequestPostings
      BY <2>1, <2>3 DEF RequestPostings
    <2> QED BY <2>4 DEF Next
  <1> QED BY <1>1, <1>2, <1>3, <1>4, WalletCases

\* Settlements, holds and refunds post under keys of their own.
LEMMA LedgerNextPosts ==
    ASSUME TypeOK, LedgerNext
    PROVE  \/ ledger' = ledger
           \/ \E n : /\ ledger' = ledger \cup {n} /\ n.type \notin Postings
                     /\ \A r \in Refs : n.key # <<"request", r>>
  <1> DEFINE Goal == \/ ledger' = ledger
                     \/ \E n : /\ ledger' = ledger \cup {n} /\ n.type \notin Postings
                               /\ \A r \in Refs : n.key # <<"request", r>>
  <1>1. ASSUME NEW table, NEW a, NEW type, NEW amount, NEW o, NEW key,
               Post(table, a, type, amount, o, key), type \notin Postings,
               \A r \in Refs : key # <<"request", r>>
        PROVE  Goal
    <2> DEFINE n == NewEntry(a, type, amount, o, key)
    <2>1. ledger' = ledger \cup {n} /\ n.type = type /\ n.key = key
      BY <1>1, PostEntry
    <2> HIDE DEF n
    <2> QED BY <1>1, <2>1
  <1> HIDE DEF Goal
  <1>2. ASSUME NEW o \in OpIds, NEW a \in Accounts, NEW s \in Subjects,
               NEW m \in Amounts, Reserve(o, a, s, m)
        PROVE  Goal
    <2>1. "booking_hold" \notin Postings /\ \A r \in Refs : <<"reserve", o>> # <<"request", r>>
      BY DEF Postings, Credits
    <2> QED BY <1>1, <1>2, <2>1 DEF Reserve
  <1>3. ASSUME NEW o \in OpIds, NEW t \in Terminal, Settle(o, t)
        PROVE  Goal
    <2> DEFINE type == IF t = "captured" THEN "booking_confirm" ELSE "hold_release"
    <2>1. type \notin Postings /\ \A r \in Refs : <<t, o>> # <<"request", r>>
      BY DEF Postings, Credits, Terminal
    <2>2. Post(ops, ops[o].account, type, ops[o].amount, o, <<t, o>>)
      BY <1>3 DEF Settle
    <2> HIDE DEF type
    <2> QED BY <1>1, <2>1, <2>2
  <1>4. ASSUME NEW o \in OpIds, MarkReconciliation(o)
        PROVE  Goal
    BY <1>4 DEF MarkReconciliation, Goal
  <1>5. ASSUME NEW o \in OpIds, NEW m \in Amounts, NEW q \in Refs, PostRefund(o, m, q)
        PROVE  Goal
    <2>1. "refund" \notin Postings /\ \A r \in Refs : <<"refund", q>> # <<"request", r>>
      BY DEF Postings, Credits
    <2> QED BY <1>1, <1>5, <2>1 DEF PostRefund
  <1>6. Goal
    BY <1>2, <1>3, <1>4, <1>5 DEF LedgerNext
  <1> QED BY <1>6 DEF Goal

-----------------------------------------------------------------------------
(* Rows *)

\* What is asked never changes, and what was approved stays approved.
RowsKept ==
    /\ requests' \in [Refs -> Request \cup {Unasked}]
    /\ \A q \in Made : q \in Made' /\ SameAsked(requests'[q], requests[q])
    /\ \A q \in Refs : requests[q].status = "approved" => requests'[q] = requests[q]

LEMMA ApproveRow ==
    ASSUME RequestsTypeOK, NEW r \in Refs, NEW u \in Users, Approve(r, u)
    PROVE  \E row : Reviews(r, "approved", u, row)
  BY ReviewRow DEF Approve

LEMMA RejectRow ==
    ASSUME RequestsTypeOK, NEW r \in Refs, NEW u \in Users, Reject(r, u)
    PROVE  \E row : Reviews(r, "rejected", u, row)
  BY ReviewRow DEF Reject

\* A step decides one request, makes one, or leaves them all alone.
LEMMA RowCases ==
    ASSUME RequestsTypeOK, TypeOK, [WalletNext]_walletVars
    PROVE  \/ requests' = requests
           \/ \E r \in Refs : \E now : Asks(r, now)
           \/ \E r \in Refs, u \in Users, d \in {"approved", "rejected"} : \E row :
                 Reviews(r, d, u, row)
  BY WalletCases, ApproveRow, RejectRow DEF Others, requestVars

LEMMA RowsStep ==
    ASSUME RequestsTypeOK, TypeOK, [WalletNext]_walletVars
    PROVE  RowsKept
  <1>0. requests \in [Refs -> Request \cup {Unasked}]
    BY DEF RequestsTypeOK
  <1>1. CASE requests' = requests
    BY <1>0, <1>1 DEF RowsKept, Made, SameAsked
  <1>2. ASSUME NEW r \in Refs, NEW row \in Request,
               requests' = [requests EXCEPT ![r] = row],
               requests[r].status # "approved",
               r \in Made => SameAsked(row, requests[r])
        PROVE  RowsKept
    <2>1. row.status # "none"
      BY DEF Request
    <2>2. \A q \in Refs : requests'[q] = IF q = r THEN row ELSE requests[q]
      BY <1>0, <1>2
    <2>3. requests' \in [Refs -> Request \cup {Unasked}]
      BY <1>0, <1>2
    <2> QED BY <1>2, <2>1, <2>2, <2>3 DEF RowsKept, Made, SameAsked
  <1>3. ASSUME NEW r \in Refs, NEW now, Asks(r, now)
        PROVE  RowsKept
    BY <1>2, <1>3, MadeRow DEF Asks
  <1>4. ASSUME NEW r \in Refs, NEW u, NEW d, NEW row, Reviews(r, d, u, row)
        PROVE  RowsKept
    BY <1>2, <1>4 DEF Reviews
  <1> QED BY <1>1, <1>3, <1>4, RowCases

\* Queued notifications are of the three events of a deposit.
LEMMA OutboxStep ==
    ASSUME RequestsTypeOK, TypeOK, [WalletNext]_walletVars
    PROVE  \A n \in outbox' :
              /\ n.request \in Refs
              /\ n.event \in {"deposit_requested", "deposit_approved", "deposit_rejected"}
              /\ n.channel \in {"email", "sms"}
  <1> DEFINE Queued(box) ==
        \A n \in box :
           /\ n.request \in Refs
           /\ n.event \in {"deposit_requested", "deposit_approved", "deposit_rejected"}
           /\ n.channel \in {"email", "sms"}
  <1>0. Queued(outbox)
    BY DEF RequestsTypeOK
  <1>1. ASSUME NEW r \in Refs,
               NEW event \in {"deposit_requested", "deposit_approved", "deposit_rejected"},
               outbox' = Enqueued(r, event)
        PROVE  Queued(outbox')
    BY <1>0, <1>1 DEF Enqueued, Channels
  <1>2. ASSUME outbox' = outbox
        PROVE  Queued(outbox')
    BY <1>0, <1>2
  <1> HIDE DEF Queued
  <1>3. ASSUME NEW r \in Refs, NEW u, NEW d \in {"approved", "rejected"}, Reviewed(r, d, u)
        PROVE  Queued(outbox')
    <2>1. outbox' = outbox \/ outbox' = Enqueued(r, IF d = "approved" THEN "deposit_approved"
                                                   ELSE "deposit_rejected")
      BY <1>3 DEF Reviewed
    <2> QED BY <1>1, <1>2, <2>1
  <1>4. ASSUME NEW r \in Refs, NEW u \in Users, Approve(r, u) \/ Reject(r, u)
        PROVE  Queued(outbox')
    BY <1>3, <1>4 DEF Approve, Reject
  <1>5. ASSUME NEW r \in Refs, NEW a, NEW m, NEW d, NEW u, CreateDeposit(r, a, m, d, u)
        PROVE  Queued(outbox')
    BY <1>1, <1>5 DEF CreateDeposit
  <1>6. ASSUME NEW r, NEW a, NEW m, NEW t, NEW u, CreateAdjustment(r, a, m, t, u)
        PROVE  Queued(outbox')
    BY <1>2, <1>6 DEF CreateAdjustment
  <1>7. ASSUME NEW r, NEW d, NEW m, NEW u, CreateReversal(r, d, m, u)
        PROVE  Queued(outbox')
    BY <1>2, <1>7 DEF CreateReversal
  <1>8. ASSUME UNCHANGED requestVars \/ UNCHANGED walletVars
        PROVE  Queued(outbox')
    BY <1>2, <1>8 DEF requestVars, walletVars
  <1>9. Queued(outbox')
    BY <1>4, <1>5, <1>6, <1>7, <1>8 DEF WalletNext, RequestsNext, requestVars
  <1> QED BY <1>9 DEF Queued

\* Only the approval of a deposit claims a payment.
LEMMA ClaimsRow ==
    ASSUME RequestsTypeOK, TypeOK, [WalletNext]_walletVars
    PROVE  \/ claims' = claims
           \/ \E r \in Refs, u \in Users :
                 Approve(r, u) /\ r \in Deposits /\ claims' = Claimed(r)
  BY WalletCases DEF Others, requestVars, Asks, Reject, Approve

LEMMA RequestsTypeOKStep ==
    ASSUME RequestsTypeOK, TypeOK, \A r \in Made : DetailsKept(r), [WalletNext]_walletVars
    PROVE  RequestsTypeOK'
  <1> DEFINE Payments == {PaymentIdentity(d) : d \in Details} \ {NoPayment}
  <1>1. requests' \in [Refs -> Request \cup {Unasked}]
    BY RowsStep DEF RowsKept
  <1>2. \A c \in claims : c.request \in Refs /\ c.payment \in Payments
    BY DEF RequestsTypeOK
  <1>3. \A c \in claims' : c.request \in Refs /\ c.payment \in Payments
    <2>1. CASE claims' = claims
      BY <1>2, <2>1
    <2>2. ASSUME NEW r \in Refs, r \in Deposits, claims' = Claimed(r)
          PROVE  \A c \in claims' : c.request \in Refs /\ c.payment \in Payments
      <3> DEFINE c == [payment |-> IdentityOf(r), request |-> r]
      <3>1. claims' = claims \/ (IdentityOf(r) # NoPayment /\ claims' = claims \cup {c})
        BY <2>2 DEF Claimed
      <3>2. requests[r].details \in Details
        BY <2>2 DEF Deposits, DetailsKept
      <3>3. IdentityOf(r) # NoPayment => IdentityOf(r) \in Payments
        BY <3>2 DEF IdentityOf
      <3>4. c.payment = IdentityOf(r) /\ c.request = r
        OBVIOUS
      <3> HIDE DEF c, Payments
      <3> QED BY <1>2, <3>1, <3>3, <3>4
    <2> QED BY <2>1, <2>2, ClaimsRow
  <1> QED BY <1>1, <1>3, OutboxStep DEF RequestsTypeOK

-----------------------------------------------------------------------------
(* Postings *)

LEMMA PostingsStep ==
    ASSUME PostingsAreApproved, TypeOK, RequestsTypeOK', [WalletNext]_walletVars
    PROVE  PostingsAreApproved'
  <1>0. RequestsTypeOK
    BY DEF PostingsAreApproved
  <1> DEFINE Explained(e, table) ==
                \E r \in Refs : table[r].status = "approved" /\ e.key = <<"request", r>>
             Right(r, row, entries) ==
                IF row.status = "approved"
                THEN /\ row.reviewer # row.by /\ row.reviewer \in Finance
                     /\ Cardinality(entries) = 1
                     /\ \A e \in entries : /\ e.account = row.account
                                           /\ e.amount = row.amount
                                           /\ e.type = row.posting
                ELSE entries = {}
  <1>1. /\ \A e \in ledger : e.type \in Postings => Explained(e, requests)
        /\ \A r \in Refs : Right(r, requests[r], PostingsOf(r))
    BY DEF PostingsAreApproved, PostingsOf, Made
  <1>2. ASSUME \A e \in ledger' : e.type \in Postings => Explained(e, requests'),
               \A r \in Refs : Right(r, requests'[r], PostingsOf(r)')
        PROVE  PostingsAreApproved'
    <2>1. ASSUME NEW e \in ledger', e.type \in Postings
          PROVE  \E r \in Made' : requests'[r].status = "approved" /\ e \in PostingsOf(r)'
      BY <1>2, <2>1 DEF Made, PostingsOf
    <2> QED BY <1>2, <2>1 DEF PostingsAreApproved
  <1>3. \A q \in Refs : requests[q].status = "approved" => requests'[q] = requests[q]
    BY <1>0, RowsStep DEF RowsKept
  <1>4. ASSUME \A q \in Refs : requests'[q].status = "approved" =>
                                 requests[q].status = "approved",
               \/ ledger' = ledger
               \/ \E n : /\ ledger' = ledger \cup {n} /\ n.type \notin Postings
                         /\ \A r \in Refs : n.key # <<"request", r>>
        PROVE  PostingsAreApproved'
    <2>1. \A e \in ledger' : e.type \in Postings => Explained(e, requests')
      BY <1>1, <1>3, <1>4
    <2>2. \A r \in Refs : PostingsOf(r)' = PostingsOf(r)
      BY <1>4 DEF PostingsOf
    <2>3. \A r \in Refs : Right(r, requests'[r], PostingsOf(r)')
      BY <1>1, <1>3, <1>4, <2>2
    <2> QED BY <1>2, <2>1, <2>3
  <1> HIDE DEF Explained, Right
  <1>5. CASE Others
    <2>1. requests' = requests
      BY <1>5 DEF Others, requestVars
    <2>2. \/ ledger' = ledger
          \/ \E n : /\ ledger' = ledger \cup {n} /\ n.type \notin Postings
                    /\ \A r \in Refs : n.key # <<"request", r>>
      BY <1>5, LedgerNextPosts DEF Others, balanceVars, ledgerVars
    <2> QED BY <1>4, <2>1, <2>2
  <1>6. ASSUME NEW r \in Refs, NEW now, Asks(r, now)
        PROVE  PostingsAreApproved'
    <2>1. \A q \in Refs : requests'[q] = IF q = r THEN now ELSE requests[q]
      BY <1>0, <1>6 DEF Asks, RequestsTypeOK
    <2>2. now.status = "pending" /\ ledger' = ledger
      BY <1>6 DEF Asks, ledgerVars, balanceVars
    <2> QED BY <1>4, <2>1, <2>2
  <1>7. ASSUME NEW r \in Refs, NEW u \in Users, Reject(r, u)
        PROVE  PostingsAreApproved'
    <2>1. PICK row : Reviews(r, "rejected", u, row)
      BY <1>0, <1>7, RejectRow
    <2>2. \A q \in Refs : requests'[q] = IF q = r THEN row ELSE requests[q]
      BY <1>0, <2>1 DEF Reviews, RequestsTypeOK
    <2>3. row.status = "rejected" /\ ledger' = ledger
      BY <1>7, <2>1 DEF Reviews, Reject, ledgerVars, balanceVars
    <2> QED BY <1>4, <2>2, <2>3
  <1>8. ASSUME NEW r \in Refs, NEW u \in Users, Approve(r, u)
        PROVE  PostingsAreApproved'
    <2>1. PICK row : Reviews(r, "approved", u, row)
      BY <1>0, <1>8, ApproveRow
    <2>2. \A q \in Refs : requests'[q] = IF q = r THEN row ELSE requests[q]
      BY <1>0, <2>1 DEF Reviews, RequestsTypeOK
    <2>3. /\ requests[r].status = "pending"
          /\ row.status = "approved" /\ row.reviewer = u /\ u \in Finance /\ u # row.by
          /\ row.account = requests[r].account /\ row.amount = requests[r].amount
          /\ row.posting = requests[r].posting
      BY <2>1 DEF Reviews, SameAsked
    <2> DEFINE n == NewEntry(row.account, row.posting, row.amount, NoOp, <<"request", r>>)
    <2>4. /\ ledger' = ledger \cup {n}
          /\ n.account = row.account /\ n.key = <<"request", r>>
          /\ n.type = row.posting /\ n.amount = row.amount
      <3>1. Post(ops, row.account, row.posting, row.amount, NoOp, <<"request", r>>)
        BY <1>8, <2>3 DEF Approve, PostRequest
      <3> QED BY <3>1, PostEntry
    <2> HIDE DEF n
    <2>5. \A q \in Refs : PostingsOf(q)' = IF q = r THEN {n} ELSE PostingsOf(q)
      <3>1. PostingsOf(r) = {}
        BY <1>1, <2>3 DEF Right
      <3> QED BY <2>4, <3>1 DEF PostingsOf
    <2>6. Cardinality({n}) = 1
      BY FS_Singleton
    <2>7. Right(r, row, {n})
      BY <2>3, <2>4, <2>6 DEF Right
    <2>8. \A q \in Refs : Right(q, requests'[q], PostingsOf(q)')
      BY <1>1, <2>2, <2>5, <2>7
    <2>9. \A e \in ledger' : e.type \in Postings => Explained(e, requests')
      BY <1>1, <1>3, <2>2, <2>3, <2>4 DEF Explained
    <2> QED BY <1>2, <2>8, <2>9
  <1> QED BY <1>0, <1>5, <1>6, <1>7, <1>8, WalletCases

-----------------------------------------------------------------------------
(* What a request says *)

LEMMA MadeFiniteStep ==
    ASSUME RequestsTypeOK, TypeOK, IsFiniteSet(Made), [WalletNext]_walletVars
    PROVE  IsFiniteSet(Made')
  <1>0. requests \in [Refs -> Request \cup {Unasked}]
    BY DEF RequestsTypeOK
  <1>1. CASE requests' = requests
    BY <1>1 DEF Made
  <1>2. ASSUME NEW r \in Refs, NEW row, requests' = [requests EXCEPT ![r] = row],
               row.status # "none"
        PROVE  IsFiniteSet(Made')
    <2>1. Made' = Made \cup {r}
      BY <1>0, <1>2 DEF Made
    <2> QED BY <2>1, FS_AddElement
  <1>3. ASSUME NEW r \in Refs, NEW now, Asks(r, now)
        PROVE  IsFiniteSet(Made')
    BY <1>2, <1>3 DEF Asks
  <1>4. ASSUME NEW r \in Refs, NEW u, NEW d \in {"approved", "rejected"}, NEW row,
               Reviews(r, d, u, row)
        PROVE  IsFiniteSet(Made')
    BY <1>2, <1>4 DEF Reviews
  <1> QED BY <1>1, <1>3, <1>4, RowCases

\* A row is new only if it was asked.
LEMMA NewRow ==
    ASSUME RequestsTypeOK, TypeOK, [WalletNext]_walletVars, NEW q \in Made', q \notin Made
    PROVE  Asks(q, requests'[q])
  <1>0. requests \in [Refs -> Request \cup {Unasked}] /\ q \in Refs
    BY DEF RequestsTypeOK, Made
  <1>1. ASSUME NEW r \in Refs, NEW now, Asks(r, now)
        PROVE  Asks(q, requests'[q])
    <2>1. requests'[r] = now /\ (q # r => requests'[q] = requests[q])
      BY <1>0, <1>1 DEF Asks
    <2>2. q = r
      BY <1>0, <2>1 DEF Made
    <2> QED BY <1>1, <2>1, <2>2
  <1>2. ASSUME \/ requests' = requests
               \/ \E r \in Refs, u \in Users, d \in {"approved", "rejected"} :
                     \E row : Reviews(r, d, u, row)
        PROVE  FALSE
    <2>1. ASSUME NEW r \in Refs, NEW u, NEW d, NEW row, Reviews(r, d, u, row)
          PROVE  FALSE
      <3>1. q # r => requests'[q] = requests[q]
        BY <1>0, <2>1 DEF Reviews
      <3> QED BY <1>0, <2>1, <3>1 DEF Reviews, Made
    <2>2. requests' # requests
      BY DEF Made
    <2> QED BY <1>2, <2>1, <2>2
  <1> QED BY <1>1, <1>2, RowCases

LEMMA RequestsSayStep ==
    ASSUME RequestsTypeOK, TypeOK, \A r \in Made : DetailsKept(r) /\ ReversalBound(r),
           [WalletNext]_walletVars
    PROVE  \A q \in Made' : DetailsKept(q)' /\ ReversalBound(q)'
  <1> SUFFICES ASSUME NEW q \in Made'
               PROVE  DetailsKept(q)' /\ ReversalBound(q)'
    OBVIOUS
  <1>0. RowsKept
    BY RowsStep
  <1>1. ASSUME NEW d \in Deposits, requests[d].status = "approved"
        PROVE  d \in Deposits' /\ requests'[d] = requests[d]
    BY <1>0, <1>1 DEF RowsKept, Deposits, Made
  <1>2. CASE q \in Made
    <2>1. SameAsked(requests'[q], requests[q])
      BY <1>0, <1>2 DEF RowsKept
    <2>2. DetailsKept(q) /\ ReversalBound(q)
      BY <1>2
    <2>3. DetailsKept(q)'
      BY <2>1, <2>2 DEF DetailsKept, SameAsked
    <2>4. ReversalBound(q)'
      BY <1>1, <2>1, <2>2 DEF ReversalBound, SameAsked
    <2> QED BY <2>3, <2>4
  <1>3. CASE q \notin Made
    <2>1. Asks(q, requests'[q])
      BY <1>3, NewRow
    <2>2. DetailsKept(q)'
      BY <2>1 DEF Asks, DetailsKept
    <2>3. ReversalBound(q)'
      BY <1>1, <2>1 DEF Asks, ReversalBound
    <2> QED BY <2>2, <2>3
  <1> QED BY <1>2, <1>3

-----------------------------------------------------------------------------
(* Payments *)

\* Two deposits of one payment have one identity: this is what makes the
\* unique index of the claims tell payments apart.
LEMMA SameIdentity ==
    ASSUME NEW d \in Details, NEW e \in Details, SamePayment(d, e)
    PROVE  PaymentIdentity(d) = PaymentIdentity(e) /\ PaymentIdentity(d) # NoPayment
  <1>1. /\ d.method \in Methods /\ e.method \in Methods
        /\ d.method # "cash" /\ e.method # "cash"
        /\ PaymentIdentity(d) # NoPayment
    BY DetailsAssumption, NoPaymentAssumption DEF SamePayment
  <1>2. CASE d.method \in {"bank", "bank_transfer"}
    <2>1. e.method \in {"bank", "bank_transfer"}
      BY <1>2 DEF SamePayment
    <2> QED BY <1>1, <1>2, <2>1 DEF SamePayment, PaymentIdentity
  <1>3. CASE d.method \in {"mobile", "cheque"}
    <2>1. e.method = d.method
      BY <1>3 DEF SamePayment
    <2> QED BY <1>1, <1>3, <2>1 DEF SamePayment, PaymentIdentity
  <1> QED BY <1>1, <1>2, <1>3 DEF Methods

\* The approved deposits that can be identified.
Identified ==
    {r \in Deposits : requests[r].status = "approved" /\ IdentityOf(r) # NoPayment}

ClaimOf(r) == [payment |-> IdentityOf(r), request |-> r]

ClaimsExact == claims = {ClaimOf(r) : r \in Identified}

LEMMA IdentityOfDeposit ==
    ASSUME NEW r \in Deposits, DetailsKept(r)
    PROVE  requests[r].details \in Details
           /\ IdentityOf(r) = PaymentIdentity(requests[r].details)
  BY NoPaymentAssumption DEF Deposits, DetailsKept, IdentityOf

LEMMA CreditedOnce ==
    (\A r \in Made : DetailsKept(r)) /\ ClaimsOnce /\ ClaimsExact => PaymentCreditedOnce
  <1> SUFFICES ASSUME \A r \in Made : DetailsKept(r), ClaimsOnce, ClaimsExact
               PROVE  PaymentCreditedOnce
    OBVIOUS
  <1>1. ASSUME NEW r \in Deposits, NEW q \in Deposits,
               requests[r].status = "approved", requests[q].status = "approved",
               SamePayment(requests[r].details, requests[q].details)
        PROVE  r = q
    <2>1. DetailsKept(r) /\ DetailsKept(q)
      BY DEF Deposits
    <2>2. IdentityOf(r) = IdentityOf(q) /\ IdentityOf(r) # NoPayment
      BY <1>1, <2>1, IdentityOfDeposit, SameIdentity
    <2>3. ClaimOf(r) \in claims /\ ClaimOf(q) \in claims
      BY <1>1, <2>2 DEF ClaimsExact, Identified
    <2>4. ClaimOf(r) = ClaimOf(q)
      BY <2>2, <2>3 DEF ClaimsOnce, ClaimOf
    <2> QED BY <2>4 DEF ClaimOf
  <1>2. claims = {[payment |-> IdentityOf(r), request |-> r] :
                     r \in {q \in Deposits : /\ requests[q].status = "approved"
                                             /\ IdentityOf(q) # NoPayment}}
    BY DEF ClaimsExact, Identified, ClaimOf
  <1> QED BY <1>1, <1>2 DEF PaymentCreditedOnce

\* An approval claims its payment; the index refuses one that was claimed.
LEMMA ClaimsStep ==
    ASSUME RequestsTypeOK, TypeOK, ClaimsOnce, ClaimsExact, [WalletNext]_walletVars
    PROVE  ClaimsOnce' /\ ClaimsExact'
  <1>0. RowsKept
    BY RowsStep
  <1>1. \A r \in Made : IdentityOf(r)' = IdentityOf(r) /\ (r \in Deposits' <=> r \in Deposits)
    BY <1>0 DEF RowsKept, SameAsked, IdentityOf, Deposits
  <1>2. ASSUME NEW A, A \subseteq Made
        PROVE  {ClaimOf(r)' : r \in A} = {ClaimOf(r) : r \in A}
    BY <1>1, <1>2 DEF ClaimOf
  <1>3. ASSUME claims' = claims, Identified' = Identified
        PROVE  ClaimsOnce' /\ ClaimsExact'
    <2>1. {ClaimOf(r)' : r \in Identified} = {ClaimOf(r) : r \in Identified}
      BY <1>2 DEF Identified, Deposits
    <2> QED BY <1>3, <2>1 DEF ClaimsOnce, ClaimsExact
  <1>4. ASSUME NEW r \in Refs, NEW row, requests[r].status # "approved",
               \A q \in Refs : requests'[q] = IF q = r THEN row ELSE requests[q],
               row.status # "approved" \/ row.posting # "deposit" \/ IdentityOf(r)' = NoPayment
        PROVE  Identified' = Identified
    <2>1. r \notin Identified /\ r \notin Identified'
      BY <1>4 DEF Identified, Deposits
    <2>2. ASSUME NEW q \in Refs, q # r
          PROVE  q \in Identified' <=> q \in Identified
      BY <1>4, <2>2 DEF Identified, Deposits, Made, IdentityOf
    <2>3. Identified \subseteq Refs /\ Identified' \subseteq Refs
      BY DEF Identified, Deposits, Made
    <2> QED BY <2>1, <2>2, <2>3
  <1>5. CASE Others
    BY <1>3, <1>5 DEF Others, requestVars, Identified, Deposits, Made, IdentityOf
  <1>6. ASSUME NEW r \in Refs, NEW now, Asks(r, now)
        PROVE  ClaimsOnce' /\ ClaimsExact'
    <2>1. \A q \in Refs : requests'[q] = IF q = r THEN now ELSE requests[q]
      BY <1>6 DEF Asks, RequestsTypeOK
    <2>2. Identified' = Identified
      BY <1>4, <1>6, <2>1 DEF Asks
    <2> QED BY <1>3, <1>6, <2>2 DEF Asks
  <1>7. ASSUME NEW r \in Refs, NEW u \in Users, Reject(r, u)
        PROVE  ClaimsOnce' /\ ClaimsExact'
    <2>1. PICK row : Reviews(r, "rejected", u, row)
      BY <1>7, RejectRow
    <2>2. \A q \in Refs : requests'[q] = IF q = r THEN row ELSE requests[q]
      BY <2>1 DEF Reviews, RequestsTypeOK
    <2>3. Identified' = Identified
      BY <1>4, <2>1, <2>2 DEF Reviews
    <2> QED BY <1>3, <1>7, <2>3 DEF Reject
  <1>8. ASSUME NEW r \in Refs, NEW u \in Users, Approve(r, u)
        PROVE  ClaimsOnce' /\ ClaimsExact'
    <2>1. PICK row : Reviews(r, "approved", u, row)
      BY <1>8, ApproveRow
    <2>2. /\ \A q \in Refs : requests'[q] = IF q = r THEN row ELSE requests[q]
          /\ requests[r].status = "pending" /\ row.posting = requests[r].posting
          /\ row.status = "approved"
      BY <2>1 DEF Reviews, RequestsTypeOK, SameAsked
    <2>3. r \in Made /\ IdentityOf(r)' = IdentityOf(r)
      BY <1>1, <2>2 DEF Made
    <2>4. CASE r \notin Deposits \/ IdentityOf(r) = NoPayment
      <3>1. row.posting # "deposit" \/ IdentityOf(r)' = NoPayment
        BY <2>2, <2>3, <2>4 DEF Deposits
      <3>2. Identified' = Identified
        BY <1>4, <2>2, <3>1
      <3>3. claims' = claims
        BY <1>8, <2>4 DEF Approve, Claimed
      <3> QED BY <1>3, <3>2, <3>3
    <2>5. CASE r \in Deposits /\ IdentityOf(r) # NoPayment
      <3>1. \A c \in claims : c.payment # IdentityOf(r)
        <4>1. ASSUME NEW c \in claims, c.payment = IdentityOf(r)
              PROVE  FALSE
          <5>1. c.request = r
            BY <1>8, <2>5, <4>1 DEF Approve, PaymentUnclaimed
          <5>2. PICK q \in Identified : c = ClaimOf(q)
            BY DEF ClaimsExact
          <5>3. q = r
            BY <5>1, <5>2 DEF ClaimOf
          <5> QED BY <2>2, <5>3 DEF Identified
        <4> QED BY <4>1
      <3>2. claims' = claims \cup {ClaimOf(r)}
        BY <1>8, <2>5, <3>1 DEF Approve, Claimed, ClaimOf
      <3>3. ClaimsOnce'
        BY <3>1, <3>2 DEF ClaimsOnce, ClaimOf
      <3>4. Identified' = Identified \cup {r}
        <4>1. r \in Identified'
          BY <2>2, <2>3, <2>5 DEF Identified, Deposits, Made
        <4>2. ASSUME NEW q \in Refs, q # r
              PROVE  q \in Identified' <=> q \in Identified
          BY <2>2, <4>2 DEF Identified, Deposits, Made, IdentityOf
        <4>3. Identified \subseteq Refs /\ Identified' \subseteq Refs
          BY DEF Identified, Deposits, Made
        <4> QED BY <4>1, <4>2, <4>3
      <3>5. {ClaimOf(q)' : q \in Identified \cup {r}} = {ClaimOf(q) : q \in Identified \cup {r}}
        BY <1>2, <2>3 DEF Identified, Deposits
      <3>6. {ClaimOf(q) : q \in Identified \cup {r}} = claims \cup {ClaimOf(r)}
        BY DEF ClaimsExact
      <3>7. claims' = {ClaimOf(q)' : q \in Identified'}
        BY <3>2, <3>4, <3>5, <3>6
      <3> QED BY <3>3, <3>7 DEF ClaimsExact
    <2> QED BY <2>4, <2>5
  <1> QED BY <1>5, <1>6, <1>7, <1>8, WalletCases

-----------------------------------------------------------------------------
(* Reversals *)

LEMMA ReversedFinite ==
    ASSUME IsFiniteSet(Made), NEW d, NEW x
    PROVE  IsFiniteSet(ReversedUnits(d, x)) /\ Cardinality(ReversedUnits(d, x)) \in Nat
  <1>1. IsFiniteSet(Made \X (1..MaxMinor))
    <2>1. IsFiniteSet(1..MaxMinor)
      BY AmountsAssumption, FS_Interval
    <2> QED BY <2>1, FS_Product
  <1>2. ReversedUnits(d, x) \in SUBSET (Made \X (1..MaxMinor))
    BY DEF ReversedUnits, ApprovedReversals
  <1> QED BY <1>1, <1>2, FS_Subset, FS_CardinalityType

LEMMA RequestAmount ==
    ASSUME NEW x \in Request
    PROVE  x.amount \in 1..MaxMinor /\ x.amount \in Nat
  <1>1. x.amount \in Amounts
    BY DEF Request
  <1>2. \A m \in Amounts : m \in 1..MaxMinor /\ m \in Nat
    BY AmountsAssumption
  <1> HIDE DEF Request
  <1> QED BY <1>1, <1>2

ReversedWithin(d) == Cardinality(ReversedUnits(d, NoRequest)) <= requests[d].amount

\* The reversals of a deposit change only by the approval of one of them, which
\* is compared with those approved before it.
LEMMA ReversedStep ==
    ASSUME RequestsTypeOK, TypeOK, IsFiniteSet(Made),
           \A r \in Made : DetailsKept(r) /\ ReversalBound(r),
           NEW d \in Deposits, ReversedWithin(d), [WalletNext]_walletVars
    PROVE  ReversedWithin(d)'
  <1>0. RowsKept
    BY RowsStep
  <1>1. d \in Made /\ requests'[d].amount = requests[d].amount
    BY <1>0 DEF RowsKept, SameAsked, Deposits
  <1>2. NoRequest \notin Made /\ NoRequest \notin Made'
    BY NoRequestAssumption DEF Made
  <1>3. ASSUME ApprovedReversals(d)' = ApprovedReversals(d)
        PROVE  ReversedWithin(d)'
    <2>1. \A q \in ApprovedReversals(d) : requests'[q].amount = requests[q].amount
      BY <1>0 DEF RowsKept, SameAsked, ApprovedReversals
    <2>2. ReversedUnits(d, NoRequest)' = ReversedUnits(d, NoRequest)
      BY <1>3, <2>1 DEF ReversedUnits
    <2> QED BY <1>1, <2>2 DEF ReversedWithin
  <1>4. ASSUME NEW r \in Refs, NEW row, requests[r].status # "approved",
               \A q \in Refs : requests'[q] = IF q = r THEN row ELSE requests[q],
               row.status # "approved" \/ row.reverses # d
        PROVE  ApprovedReversals(d)' = ApprovedReversals(d)
    <2>1. r \notin ApprovedReversals(d) /\ r \notin ApprovedReversals(d)'
      BY <1>4 DEF ApprovedReversals
    <2>2. ASSUME NEW q \in Refs, q # r
          PROVE  q \in ApprovedReversals(d)' <=> q \in ApprovedReversals(d)
      BY <1>4, <2>2 DEF ApprovedReversals, Made
    <2>3. ApprovedReversals(d) \subseteq Refs /\ ApprovedReversals(d)' \subseteq Refs
      BY DEF ApprovedReversals, Made
    <2> QED BY <2>1, <2>2, <2>3
  <1>5. CASE Others
    BY <1>3, <1>5 DEF Others, requestVars, ApprovedReversals, Made
  <1>6. ASSUME NEW r \in Refs, NEW now, Asks(r, now)
        PROVE  ReversedWithin(d)'
    <2>1. \A q \in Refs : requests'[q] = IF q = r THEN now ELSE requests[q]
      BY <1>6 DEF Asks, RequestsTypeOK
    <2> QED BY <1>3, <1>4, <1>6, <2>1 DEF Asks
  <1>7. ASSUME NEW r \in Refs, NEW u \in Users, Reject(r, u)
        PROVE  ReversedWithin(d)'
    <2>1. PICK row : Reviews(r, "rejected", u, row)
      BY <1>7, RejectRow
    <2>2. \A q \in Refs : requests'[q] = IF q = r THEN row ELSE requests[q]
      BY <2>1 DEF Reviews, RequestsTypeOK
    <2> QED BY <1>3, <1>4, <2>1, <2>2 DEF Reviews
  <1>8. ASSUME NEW r \in Refs, NEW u \in Users, Approve(r, u)
        PROVE  ReversedWithin(d)'
    <2>1. PICK row : Reviews(r, "approved", u, row)
      BY <1>8, ApproveRow
    <2>2. /\ \A q \in Refs : requests'[q] = IF q = r THEN row ELSE requests[q]
          /\ requests[r].status = "pending" /\ row.reverses = requests[r].reverses
          /\ row.status = "approved" /\ row.amount = requests[r].amount
          /\ row \in Request
      BY <2>1 DEF Reviews, RequestsTypeOK, SameAsked
    <2>3. CASE row.reverses # d
      BY <1>3, <1>4, <2>2, <2>3
    <2>4. CASE row.reverses = d
      <3> DEFINE m == row.amount
                 S == ReversedUnits(d, NoRequest)
      <3>1. d # NoRequest
        BY <1>1, <1>2
      <3>2. WithinDeposit(r, d, m)
        BY <1>8, <2>2, <2>4, <3>1 DEF Approve
      <3>3. r \notin ApprovedReversals(d)
        BY <2>2 DEF ApprovedReversals
      <3>4. ReversedUnits(d, r) = S
        BY <1>2, <3>3 DEF ReversedUnits, ApprovedReversals
      <3>5. m \in 1..MaxMinor /\ m \in Nat
        BY <2>2, RequestAmount
      <3>6. m <= requests[d].amount - Cardinality(S)
        BY <3>2, <3>4 DEF WithinDeposit
      <3>7. S \cap Strip(r, 0, m) = {}
        BY <3>3 DEF ReversedUnits, Strip
      <3>8. ReversedUnits(d, NoRequest)' = S \cup Strip(r, 0, m)
        <4>1. ApprovedReversals(d)' = ApprovedReversals(d) \cup {r}
          <5>1. r \in ApprovedReversals(d)'
            BY <2>2, <2>4 DEF ApprovedReversals, Made
          <5>2. ASSUME NEW q \in Refs, q # r
                PROVE  q \in ApprovedReversals(d)' <=> q \in ApprovedReversals(d)
            BY <2>2, <5>2 DEF ApprovedReversals, Made
          <5>3. ApprovedReversals(d) \subseteq Refs /\ ApprovedReversals(d)' \subseteq Refs
            BY DEF ApprovedReversals, Made
          <5> QED BY <5>1, <5>2, <5>3
        <4>2. NoRequest \notin ApprovedReversals(d) \cup {r}
          BY NoRequestAssumption DEF ApprovedReversals, Made
        <4>3. /\ \A q \in ApprovedReversals(d) : q # r /\ requests'[q].amount = requests[q].amount
              /\ requests'[r].amount = m
          BY <2>2, <3>3 DEF ApprovedReversals, Made
        <4>4. ReversedUnits(d, NoRequest)' =
                {u2 \in (ApprovedReversals(d) \cup {r}) \X (1..MaxMinor) :
                    u2[2] <= requests'[u2[1]].amount}
          BY <4>1, <4>2 DEF ReversedUnits
        <4>5. S = {u2 \in ApprovedReversals(d) \X (1..MaxMinor) :
                     u2[2] <= requests[u2[1]].amount}
          BY <4>2 DEF ReversedUnits
        <4>6. Strip(r, 0, m) = {u2 \in {r} \X (1..MaxMinor) : u2[2] <= requests'[u2[1]].amount}
          BY <3>5, <4>3, AmountsAssumption DEF Strip
        <4> HIDE DEF S, m
        <4> QED BY <4>3, <4>4, <4>5, <4>6
      <3>9. IsFiniteSet(S) /\ Cardinality(S) \in Nat
        BY ReversedFinite
      <3> HIDE DEF S, m
      <3>10. Cardinality(S \cup Strip(r, 0, m)) = Cardinality(S) + (m - 0)
        <4>1. 0 \in Nat /\ 0 <= m
          BY <3>5
        <4> QED BY <3>5, <3>7, <3>9, <4>1, AddStrip
      <3>11. requests[d].amount \in Int
        <4>1. d \in Refs /\ requests[d] \in Request
          BY <1>1, MadeRow DEF Made
        <4> QED BY <4>1, RequestAmount
      <3> QED BY <1>1, <3>5, <3>6, <3>8, <3>9, <3>10, <3>11 DEF ReversedWithin
    <2> QED BY <2>3, <2>4
  <1> QED BY <1>5, <1>6, <1>7, <1>8, WalletCases

\* A deposit that was just asked for has nothing to reverse.
LEMMA NewDeposit ==
    ASSUME RequestsTypeOK, TypeOK, \A r \in Made : ReversalBound(r), RequestsTypeOK',
           [WalletNext]_walletVars, NEW d \in Deposits', d \notin Deposits
    PROVE  ReversedWithin(d)'
  <1>1. RowsKept
    BY RowsStep
  <1>2. d \in Made' /\ d \notin Made
    BY <1>1 DEF RowsKept, Deposits, SameAsked
  <1>3. Asks(d, requests'[d])
    BY <1>2, NewRow
  <1>4. ApprovedReversals(d)' = {}
    <2>1. ASSUME NEW q \in ApprovedReversals(d)'
          PROVE  FALSE
      <3>1. q \in Made' /\ requests'[q].reverses = d /\ requests'[q].status = "approved"
        BY DEF ApprovedReversals
      <3>2. CASE q \in Made
        <4>1. requests[q].reverses = d
          BY <1>1, <3>1, <3>2 DEF RowsKept, SameAsked
        <4>2. d # NoRequest
          BY <1>2, NoRequestAssumption DEF Made
        <4> QED BY <1>2, <3>2, <4>1, <4>2 DEF ReversalBound, Deposits
      <3>3. CASE q \notin Made
        BY <3>1, <3>3, NewRow DEF Asks
      <3> QED BY <3>2, <3>3
    <2> QED BY <2>1
  <1>5. ReversedUnits(d, NoRequest)' = {}
    BY <1>4 DEF ReversedUnits
  <1>6. Cardinality(ReversedUnits(d, NoRequest)') = 0
    BY <1>5, FS_EmptySet
  <1>7. requests'[d].amount \in Nat
    BY <1>3, RequestAmount DEF Asks
  <1> QED BY <1>6, <1>7 DEF ReversedWithin

-----------------------------------------------------------------------------
(* The invariant *)

\* The ledger's types and what is kept of requests and claims.
WalletInvariant == TypeOK /\ RequestsInvariant

LEMMA WalletInvariantInit == WalletInit => WalletInvariant
  <1> SUFFICES ASSUME WalletInit PROVE WalletInvariant
    OBVIOUS
  <1>1. TypeOK
    BY InitTypeOK DEF WalletInit
  <1>2. /\ requests = [r \in Refs |-> Unasked] /\ claims = {} /\ outbox = {} /\ ledger = {}
    BY DEF WalletInit, RequestsInit, Init, BalancesInit
  <1>3. Made = {} /\ \A r \in Refs : requests[r].status = "none"
    BY <1>2 DEF Made, Unasked
  <1>4. IsFiniteSet(Made)
    BY <1>3, FS_EmptySet
  <1>5. RequestsTypeOK
    BY <1>2 DEF RequestsTypeOK
  <1>6. PostingsAreApproved
    BY <1>2, <1>3, <1>5 DEF PostingsAreApproved, PostingsOf
  <1>7. ClaimsOnce /\ PaymentCreditedOnce /\ ReversalsWithinDeposit
    BY <1>2, <1>3 DEF ClaimsOnce, PaymentCreditedOnce, ReversalsWithinDeposit, Deposits
  <1> QED BY <1>1, <1>3, <1>4, <1>6, <1>7 DEF WalletInvariant, RequestsInvariant

LEMMA ReversalsFollow ==
    (\A r \in Made : ReversalBound(r)) /\ (\A d \in Deposits : ReversedWithin(d))
       => ReversalsWithinDeposit
  <1> SUFFICES ASSUME \A r \in Made : ReversalBound(r), NEW d \in Deposits,
                      NEW r \in ApprovedReversals(d)
               PROVE  /\ requests[d].status = "approved"
                      /\ requests[r].account = requests[d].account
                      /\ requests[r].posting = "manual_debit"
    BY DEF ReversalsWithinDeposit, ReversedWithin
  <1>1. r \in Made /\ requests[r].reverses = d /\ d # NoRequest
    BY NoRequestAssumption DEF ApprovedReversals, Deposits, Made
  <1> QED BY <1>1 DEF ReversalBound

LEMMA WalletInvariantStep == WalletInvariant /\ [WalletNext]_walletVars => WalletInvariant'
  <1> SUFFICES ASSUME WalletInvariant, [WalletNext]_walletVars PROVE WalletInvariant'
    OBVIOUS
  <1>1. /\ TypeOK /\ RequestsTypeOK /\ PostingsAreApproved /\ IsFiniteSet(Made)
        /\ \A r \in Made : DetailsKept(r) /\ ReversalBound(r)
        /\ ClaimsOnce /\ ClaimsExact
        /\ \A d \in Deposits : ReversedWithin(d)
    BY DEF WalletInvariant, RequestsInvariant, PostingsAreApproved, PaymentCreditedOnce,
           ReversalsWithinDeposit, ReversedWithin, ClaimsExact, Identified, ClaimOf
  <1>2. TypeOK'
    BY <1>1, WalletStepsLedger, TypeOKStep
  <1>3. RequestsTypeOK' /\ IsFiniteSet(Made')
    BY <1>1, RequestsTypeOKStep, MadeFiniteStep
  <1>4. PostingsAreApproved'
    BY <1>1, <1>3, PostingsStep
  <1>5. \A r \in Made' : DetailsKept(r)' /\ ReversalBound(r)'
    BY <1>1, RequestsSayStep
  <1>6. ClaimsOnce' /\ ClaimsExact'
    BY <1>1, ClaimsStep
  <1>7. PaymentCreditedOnce'
    <2>1. ((\A r \in Made : DetailsKept(r)) /\ ClaimsOnce /\ ClaimsExact => PaymentCreditedOnce)'
      BY CreditedOnce, PTL
    <2> QED BY <1>5, <1>6, <2>1
  <1>8. \A d \in Deposits' : ReversedWithin(d)'
    BY <1>1, <1>3, ReversedStep, NewDeposit
  <1>9. ReversalsWithinDeposit'
    <2>1. ((\A r \in Made : ReversalBound(r)) /\ (\A d \in Deposits : ReversedWithin(d))
             => ReversalsWithinDeposit)'
      BY ReversalsFollow, PTL
    <2> QED BY <1>5, <1>8, <2>1
  <1> QED BY <1>2, <1>3, <1>4, <1>5, <1>6, <1>7, <1>9 DEF WalletInvariant, RequestsInvariant

LEMMA WalletInvariantHolds == WalletSpec => []WalletInvariant
  BY WalletInvariantInit, WalletInvariantStep, PTL DEF WalletSpec

-----------------------------------------------------------------------------
(* Theorems *)

\* workflows.rs moves money only as the ledger does: an approval is one posting
\* of a request, with an account, a type and an amount the ledger takes.
THEOREM RequestsImplementLedger == WalletSpec => Spec
  <1>1. WalletInit => Init
    BY DEF WalletInit
  <1>2. WalletInvariant /\ [WalletNext]_walletVars => [Next]_ledgerVars
    BY WalletStepsLedger DEF WalletInvariant, RequestsInvariant, PostingsAreApproved
  <1> QED BY <1>1, <1>2, WalletInvariantHolds, PTL DEF WalletSpec, Spec

\* So balances, holds, keys and the ledger stay in agreement, and what payers
\* are promised is kept, whatever is deposited, adjusted and reversed.
THEOREM LedgerWholeWithRequests ==
    WalletSpec => /\ [](MoneyConserved /\ HoldsMatchReservations)
                  /\ [](LedgerExplains /\ PaidOnce)
                  /\ KeepsPromise
  BY RequestsImplementLedger, MoneyIsConserved, HoldsCovered, LedgerIsComplete,
     NothingPaidTwice, PromiseIsKept, PTL

\* A credit or a debit that no operation explains was asked by one person and
\* approved by another, and is made once (wallet_request_integrity).
THEOREM EveryPostingApproved == WalletSpec => []PostingsAreApproved
  BY WalletInvariantHolds, PTL DEF WalletInvariant, RequestsInvariant

\* A payment that came in is credited once, and its claim is held by the deposit
\* it credited (DEPOSIT_PAYMENT_ALREADY_CREDITED).
THEOREM EveryPaymentOnce == WalletSpec => []PaymentCreditedOnce
  BY WalletInvariantHolds, PTL DEF WalletInvariant, RequestsInvariant

\* Reversals take back at most what their deposit credited, however many are
\* pending at once (DEPOSIT_REVERSAL_EXCEEDS_CREDIT).
THEOREM ReversalsBounded == WalletSpec => []ReversalsWithinDeposit
  BY WalletInvariantHolds, PTL DEF WalletInvariant, RequestsInvariant

-----------------------------------------------------------------------------
(***************************************************************************)
(* TicketIssue, for any number of bookings, callers, reviewers, proposals,  *)
(* reads and crashes: the supplier is asked once and the payment follows    *)
(* the evidence.                                                            *)
(***************************************************************************)

-----------------------------------------------------------------------------
(* The inductive invariant *)

\* Every issue has its hold, and every running request its issue.
IssuesReserved == \A b \in Bookings : issue[b] # "none" => Reserved(b)

CallsOfIssues ==
    \A c \in Callers :
        call[c].at # "idle" =>
            call[c].booking \in Bookings /\ issue[call[c].booking] # "none"

Unsent == {"none", "spawned"}

\* An issue excludes a cancellation; a worker is of the one that was reserved,
\* and until it calls nothing was sent.
MutationOnce(b) ==
    /\ worker[b] # "none" => issue[b] # "none"
    /\ cancelWorker[b] # "none" => cancel[b] # "none"
    /\ issue[b] = "none" \/ cancel[b] = "none"
    /\ sent[b] <= 1
    /\ worker[b] \in Unsent /\ cancelWorker[b] \in Unsent => sent[b] = 0

Named == {"unreadable", "tickets"}

\* Whatever names tickets, in the row or on its way to it, is of a ticket that
\* the supplier made.
TicketsHeard ==
    /\ \A b \in Bookings :
          answer[b] \in Named \/ response[b] \in Named \/ Resolved(b) => b \in ticketed
    /\ \A c \in Callers : call[c].found \in Named => call[c].booking \in ticketed

\* A charge has its proof, and a release its approval.
PaymentFollows(b) ==
    /\ PaymentState(b) = "captured" => Resolved(b)
    /\ PaymentState(b) = "released" <=> Approved(b) # {}

TicketInvariant ==
    /\ TicketTypeOK /\ SubjectsOnce
    /\ IssuesReserved /\ CallsOfIssues
    /\ \A b \in Bookings : MutationOnce(b)
    /\ TicketsHeard
    /\ \A b \in Bookings : PaymentFollows(b)

-----------------------------------------------------------------------------
(* The payment of a booking *)

\* A booking is paid for by one operation, and OperationOf finds it.
LEMMA PaymentIs ==
    TypeOK /\ SubjectsOnce =>
        \A b \in Bookings, o \in OpIds :
            ops[o].subject = b =>
                /\ Reserved(b) /\ OperationOf(b) = o
                /\ PaymentState(b) = ops[o].state
                /\ ops[o] \in Operation
  <1> SUFFICES ASSUME TypeOK, SubjectsOnce, NEW b \in Bookings, NEW o \in OpIds,
                      ops[o].subject = b
               PROVE  /\ Reserved(b) /\ OperationOf(b) = o
                      /\ PaymentState(b) = ops[o].state
                      /\ ops[o] \in Operation
    OBVIOUS
  <1>1. Reserved(b)
    BY DEF Reserved
  <1>2. ops[o] \in Operation /\ ops[o].state # "none"
    BY NoSubjectAssumption DEF TypeOK, Bookings, Unused, Operation, Live, Terminal
  <1>3. OperationOf(b) \in OpIds /\ ops[OperationOf(b)].subject = b
    BY DEF OperationOf
  <1>4. OperationOf(b) = o
    BY <1>2, <1>3 DEF SubjectsOnce
  <1> QED BY <1>1, <1>2, <1>4 DEF PaymentState

LEMMA PaymentIsNext ==
    ASSUME TypeOK', SubjectsOnce', NEW b \in Bookings, NEW o \in OpIds, ops'[o].subject = b
    PROVE  PaymentState(b)' = ops'[o].state
  <1>1. Reserved(b)'
    BY DEF Reserved
  <1>2. ops'[o].state # "none"
    BY NoSubjectAssumption DEF TypeOK, Bookings, Unused, Operation, Live, Terminal
  <1>3. OperationOf(b)' \in OpIds /\ ops'[OperationOf(b)'].subject = b
    BY DEF OperationOf
  <1>4. OperationOf(b)' = o
    BY <1>2, <1>3 DEF SubjectsOnce
  <1> QED BY <1>1, <1>4 DEF PaymentState

LEMMA PaymentOf ==
    ASSUME TypeOK, SubjectsOnce, NEW b \in Bookings, Reserved(b)
    PROVE  /\ OperationOf(b) \in OpIds /\ ops[OperationOf(b)] \in Operation
           /\ ops[OperationOf(b)].subject = b
           /\ PaymentState(b) = ops[OperationOf(b)].state
           /\ PaymentState(b) \in Live \cup Terminal
  <1>1. PICK o \in OpIds : ops[o].subject = b
    BY DEF Reserved
  <1>2. OperationOf(b) = o /\ PaymentState(b) = ops[o].state /\ ops[o] \in Operation
    BY <1>1, PaymentIs
  <1> QED BY <1>1, <1>2 DEF Operation

LEMMA NoPaymentYet ==
    ASSUME NEW b, ~Reserved(b)
    PROVE  PaymentState(b) = "none"
  BY DEF PaymentState

\* The payments are those of the operations of the step before it, but for b.
PaymentMoves(b, from, to) ==
    /\ PaymentState(b) \in from /\ PaymentState(b)' = to
    /\ \A c \in Bookings \ {b} : PaymentState(c)' = PaymentState(c)

PaymentsKept == \A b \in Bookings : PaymentState(b)' = PaymentState(b)

\* A booking whose operations a step leaves alone keeps its payment.
LEMMA PaymentKept ==
    ASSUME TypeOK, SubjectsOnce, TypeOK', SubjectsOnce', NEW b \in Bookings,
           \A o \in OpIds : ops[o].subject = b \/ ops'[o].subject = b => ops'[o] = ops[o]
    PROVE  PaymentState(b)' = PaymentState(b)
  <1>1. CASE Reserved(b)
    <2>1. PICK o \in OpIds : ops[o].subject = b
      BY <1>1 DEF Reserved
    <2>2. ops'[o] = ops[o]
      BY <2>1
    <2>3. PaymentState(b) = ops[o].state
      BY <2>1, PaymentIs
    <2>4. PaymentState(b)' = ops'[o].state
      BY <2>1, <2>2, PaymentIsNext
    <2> QED BY <2>2, <2>3, <2>4
  <1>2. CASE ~Reserved(b)
    <2>1. ~Reserved(b)'
      BY <1>2 DEF Reserved
    <2>2. PaymentState(b)' = "none" /\ PaymentState(b) = "none"
      BY <1>2, <2>1 DEF PaymentState
    <2> QED BY <2>2
  <1> QED BY <1>1, <1>2

LEMMA SettleMoves ==
    ASSUME TypeOK, SubjectsOnce, TypeOK', SubjectsOnce', NEW b \in Bookings, Reserved(b),
           NEW t \in Terminal, Settle(OperationOf(b), t)
    PROVE  PaymentMoves(b, Live, t)
  <1>1. PICK o : o = OperationOf(b)
    OBVIOUS
  <1>2. /\ o \in OpIds /\ ops[o] \in Operation /\ ops[o].subject = b
        /\ PaymentState(b) = ops[o].state
    BY <1>1, PaymentOf
  <1>3. ops[o].state \in Live /\ ops' = [ops EXCEPT ![o].state = t]
    BY <1>1, <1>2, SettleEffect
  <1>4. ops'[o].subject = b /\ ops'[o].state = t /\ \A p \in OpIds \ {o} : ops'[p] = ops[p]
    BY <1>2, <1>3 DEF TypeOK, Operation
  <1>5. PaymentState(b)' = t
    BY <1>2, <1>4, PaymentIsNext
  <1>6. \A c \in Bookings \ {b} : PaymentState(c)' = PaymentState(c)
    BY <1>2, <1>4, PaymentKept
  <1> QED BY <1>2, <1>3, <1>5, <1>6 DEF PaymentMoves

LEMMA MarkMoves ==
    ASSUME TypeOK, SubjectsOnce, TypeOK', SubjectsOnce', NEW b \in Bookings, Reserved(b),
           MarkReconciliation(OperationOf(b))
    PROVE  PaymentMoves(b, Live, "reconciliation")
  <1>1. PICK o : o = OperationOf(b)
    OBVIOUS
  <1>2. /\ o \in OpIds /\ ops[o] \in Operation /\ ops[o].subject = b
        /\ PaymentState(b) = ops[o].state
    BY <1>1, PaymentOf
  <1>3. ops[o].state = "reserved" /\ ops' = [ops EXCEPT ![o].state = "reconciliation"]
    BY <1>1 DEF MarkReconciliation
  <1>4. /\ ops'[o].subject = b /\ ops'[o].state = "reconciliation"
        /\ \A p \in OpIds \ {o} : ops'[p] = ops[p]
    BY <1>2, <1>3 DEF TypeOK, Operation
  <1>5. PaymentState(b)' = "reconciliation"
    BY <1>2, <1>4, PaymentIsNext
  <1>6. \A c \in Bookings \ {b} : PaymentState(c)' = PaymentState(c)
    BY <1>2, <1>4, PaymentKept
  <1> QED BY <1>2, <1>3, <1>5, <1>6 DEF PaymentMoves, Live

LEMMA ReserveMoves ==
    ASSUME TypeOK, SubjectsOnce, TypeOK', SubjectsOnce', NEW b \in Bookings,
           NEW o \in OpIds, NEW a \in Accounts, Reserve(o, a, b, Payable[b])
    PROVE  PaymentMoves(b, {"none"}, "reserved") /\ Reserved(b)'
  <1>1. PICK m \in Amounts : m = Payable[b]
    BY BookingsAssumption
  <1>2. ops[o].state = "none" /\ ops' = Inserted(o, a, b, m) /\ ~Reserved(b)
    BY <1>1, ReserveEffect DEF Reserve, Bookings
  <1>3. /\ ops'[o].subject = b /\ ops'[o].state = "reserved"
        /\ \A p \in OpIds \ {o} : ops'[p] = ops[p]
    BY <1>2 DEF TypeOK, Inserted
  <1>4. ops[o].subject = NoSubject
    BY <1>2 DEF TypeOK, Operation, Unused, Live, Terminal
  <1>5. PaymentState(b) = "none" /\ PaymentState(b)' = "reserved"
    BY <1>2, <1>3, PaymentIsNext, NoPaymentYet
  <1>6. \A c \in Bookings \ {b} : PaymentState(c)' = PaymentState(c)
    BY <1>3, <1>4, PaymentKept, NoSubjectAssumption DEF Bookings
  <1>7. Reserved(b)'
    BY <1>3 DEF Reserved
  <1> QED BY <1>5, <1>6, <1>7 DEF PaymentMoves

-----------------------------------------------------------------------------
(* The ledger under the issues *)

\* Only reserving, finalizing, a decision and the rest of the wallet reach it.
LEMMA LedgerCases ==
    ASSUME [TicketNext]_ticketVars
    PROVE  \/ UNCHANGED ledgerVars
           \/ \E b \in Bookings, o \in OpIds, a \in Accounts : ReserveIssue(b, o, a)
           \/ \E b \in Bookings : WorkerFinalize(b)
           \/ \E c \in Callers : CallerFinalize(c)
           \/ \E q \in proposals, u \in Reviewers, d \in {"approved", "rejected"} :
                 Decide(q, u, d)
           \/ Funding
  <1>1. ASSUME NEW b \in Bookings,
               \/ ReserveCancel(b) \/ SendCancel(b) \/ SaveCancel(b)
               \/ Observe(b) \/ SupplierTickets(b) \/ Age(b)
        PROVE  UNCHANGED ledgerVars
    BY <1>1 DEF ReserveCancel, SendCancel, SaveCancel, Observe, SupplierTickets, Age
  <1>2. ASSUME NEW b \in Bookings,
               \/ Send(b) \/ Answer(b) \/ SaveAnswer(b) \/ LoseAnswer(b)
               \/ WorkerFinalizeBusy(b)
        PROVE  UNCHANGED ledgerVars
    BY <1>2 DEF Send, Answer, SaveAnswer, LoseAnswer, WorkerFinalizeBusy
  <1>3. ASSUME NEW c \in Callers, NEW b \in Bookings,
               VerifySaved(c, b) \/ StartReconcile(c, b)
        PROVE  UNCHANGED ledgerVars
    BY <1>3 DEF VerifySaved, StartReconcile
  <1>4. ASSUME NEW c \in Callers, ReadSupplier(c) \/ SaveRead(c) \/ CallerGivesUp(c)
        PROVE  UNCHANGED ledgerVars
    BY <1>4 DEF ReadSupplier, SaveRead, CallerGivesUp
  <1>5. ASSUME NEW p, NEW b, NEW u, Propose(p, b, u)
        PROVE  UNCHANGED ledgerVars
    BY <1>5 DEF Propose
  <1>6. ASSUME Crash \/ UNCHANGED ticketVars
        PROVE  UNCHANGED ledgerVars
    BY <1>6 DEF Crash, ticketVars
  <1> QED BY <1>1, <1>2, <1>3, <1>4, <1>5, <1>6
          DEF TicketNext, BookingStep, WorkerStep, CallerStep, ReviewStep

LEMMA SettleStepsLedger ==
    ASSUME NEW o \in OpIds, NEW t \in Terminal, Settle(o, t)
    PROVE  Next
  BY DEF Next, LedgerNext

LEMMA FinalizeStepsLedger ==
    ASSUME TypeOK, SubjectsOnce, NEW b \in Bookings, Reserved(b), Finalize(b)
    PROVE  [Next]_ledgerVars
  <1>1. PICK o \in OpIds : o = OperationOf(b)
    BY PaymentOf
  <1>2. Settle(o, "captured") \/ MarkReconciliation(o) \/ UNCHANGED ledgerVars
    BY <1>1 DEF Finalize
  <1>3. MarkReconciliation(o) => Next
    BY DEF Next, LedgerNext
  <1> QED BY <1>2, <1>3, SettleStepsLedger DEF Terminal

\* What a finalization may do to the payment of its booking.
LEMMA FinalizeMoves ==
    ASSUME TypeOK, SubjectsOnce, TypeOK', SubjectsOnce', NEW b \in Bookings, Reserved(b),
           Finalize(b)
    PROVE  \/ PaymentsKept
           \/ Resolved(b) /\ PaymentMoves(b, Live, "captured")
           \/ PaymentMoves(b, Live, "reconciliation")
  <1>1. \/ Resolved(b) /\ Settle(OperationOf(b), "captured")
        \/ MarkReconciliation(OperationOf(b))
        \/ UNCHANGED ledgerVars
    BY DEF Finalize
  <1>2. ASSUME UNCHANGED ledgerVars
        PROVE  PaymentsKept
    BY <1>2, PaymentKept DEF PaymentsKept, ledgerVars, balanceVars
  <1> QED BY <1>1, <1>2, SettleMoves, MarkMoves DEF Terminal

LEMMA RunningIssue ==
    ASSUME TicketTypeOK, IssuesReserved, CallsOfIssues,
           \A b \in Bookings : MutationOnce(b)
    PROVE  /\ \A b \in Bookings : WorkerFinalize(b) => Reserved(b)
           /\ \A c \in Callers : CallerFinalize(c) =>
                 call[c].booking \in Bookings /\ Reserved(call[c].booking)
           /\ \A q \in proposals : Agreed(q) => q.booking \in Bookings /\ Reserved(q.booking)
  <1>1. ASSUME NEW b \in Bookings, WorkerFinalize(b)
        PROVE  Reserved(b)
    BY <1>1 DEF IssuesReserved, MutationOnce, WorkerFinalize
  <1>2. ASSUME NEW c \in Callers, CallerFinalize(c)
        PROVE  call[c].booking \in Bookings /\ Reserved(call[c].booking)
    BY <1>2 DEF IssuesReserved, CallsOfIssues, CallerFinalize
  <1>3. ASSUME NEW q \in proposals, Agreed(q)
        PROVE  q.booking \in Bookings /\ Reserved(q.booking)
    BY <1>3 DEF IssuesReserved, TicketTypeOK, Proposal, Agreed, Releasable
  <1> QED BY <1>1, <1>2, <1>3

\* Every step of an issue is one of the ledger, or none: the amount held is the
\* payable of the booking, what is settled is the operation that holds it.
LEMMA TicketStepsLedger ==
    ASSUME TicketTypeOK, SubjectsOnce, IssuesReserved, CallsOfIssues,
           \A b \in Bookings : MutationOnce(b), [TicketNext]_ticketVars
    PROVE  [Next]_ledgerVars
  <1>0. TypeOK
    BY DEF TicketTypeOK
  <1>1. ASSUME NEW b \in Bookings, NEW o \in OpIds, NEW a \in Accounts, ReserveIssue(b, o, a)
        PROVE  Next
    <2>1. PICK m \in Amounts : m = Payable[b]
      BY BookingsAssumption
    <2>2. b \in Subjects /\ Reserve(o, a, b, m)
      BY <1>1, <2>1 DEF ReserveIssue, Bookings
    <2> QED BY <2>2 DEF Next, LedgerNext
  <1>2. ASSUME NEW b \in Bookings, WorkerFinalize(b)
        PROVE  [Next]_ledgerVars
    <2>1. Reserved(b) /\ Finalize(b)
      BY <1>2, RunningIssue DEF WorkerFinalize
    <2> QED BY <1>0, <2>1, FinalizeStepsLedger
  <1>3. ASSUME NEW c \in Callers, CallerFinalize(c)
        PROVE  [Next]_ledgerVars
    <2>1. PICK b \in Bookings : b = call[c].booking
      BY <1>3, RunningIssue
    <2>2. Reserved(b) /\ Finalize(b)
      BY <1>3, <2>1, RunningIssue DEF CallerFinalize
    <2> QED BY <1>0, <2>2, FinalizeStepsLedger
  <1>4. ASSUME NEW q \in proposals, NEW u, NEW d, Decide(q, u, d)
        PROVE  [Next]_ledgerVars
    <2>1. CASE UNCHANGED ledgerVars
      BY <2>1
    <2>2. CASE Agreed(q) /\ Settle(OperationOf(q.booking), "released")
      <3>1. PICK b \in Bookings : b = q.booking /\ Reserved(b)
        BY <2>2, RunningIssue
      <3>2. PICK o \in OpIds : o = OperationOf(b)
        BY <1>0, <3>1, PaymentOf
      <3>3. Settle(o, "released")
        BY <2>2, <3>1, <3>2
      <3> QED BY <3>3, SettleStepsLedger DEF Terminal
    <2> QED BY <1>4, <2>1, <2>2 DEF Decide
  <1>5. ASSUME Funding
        PROVE  Next
    BY <1>5 DEF Funding, Next, RequestPostings, Credits
  <1> QED BY <1>1, <1>2, <1>3, <1>4, <1>5, LedgerCases

-----------------------------------------------------------------------------
(* Payments and approvals *)

ApprovedKept == \A b \in Bookings : Approved(b)' = Approved(b)

LEMMA DecideApproved ==
    ASSUME TicketTypeOK, NEW q \in proposals, NEW u \in Reviewers, NEW d, Decide(q, u, d)
    PROVE  /\ d = "rejected" => ApprovedKept
           /\ d = "approved" =>
                /\ q.booking \in Bookings
                /\ \A b \in Bookings \ {q.booking} : Approved(b)' = Approved(b)
                /\ \E r : /\ Approved(q.booking)' = Approved(q.booking) \cup {r}
                          /\ r.seen = q.seen /\ r.by = q.by /\ r.reviewer = u
  <1> DEFINE r == [q EXCEPT !.decision = d, !.reviewer = u]
  <1>1. q \in Proposal /\ q.decision = "none"
    BY DEF TicketTypeOK, Decide, MayDecide
  <1>2. proposals' = (proposals \ {q}) \cup {r}
    BY DEF Decide
  <1>3. /\ r.booking = q.booking /\ r.seen = q.seen /\ r.by = q.by
        /\ r.decision = d /\ r.reviewer = u
    BY <1>1 DEF Proposal
  <1>4. q.booking \in Bookings
    BY <1>1 DEF Proposal
  <1> HIDE DEF r
  <1>5. d = "rejected" => ApprovedKept
    BY <1>1, <1>2, <1>3 DEF ApprovedKept, Approved
  <1>6. \A b \in Bookings \ {q.booking} : Approved(b)' = Approved(b)
    BY <1>1, <1>2, <1>3 DEF Approved
  <1>7. d = "approved" => Approved(q.booking)' = Approved(q.booking) \cup {r}
    BY <1>1, <1>2, <1>3 DEF Approved
  <1> QED BY <1>3, <1>4, <1>5, <1>6, <1>7

LEMMA ProposeApproved ==
    ASSUME NEW p, NEW b, NEW u, Propose(p, b, u)
    PROVE  ApprovedKept
  <1> DEFINE r == [id |-> p, booking |-> b, by |-> u, seen |-> Snapshot(b),
                   decision |-> "none", reviewer |-> NoReviewer]
  <1>1. proposals' = proposals \cup {r} /\ r.decision = "none"
    BY DEF Propose
  <1> HIDE DEF r
  <1> QED BY <1>1 DEF ApprovedKept, Approved

\* Nothing else touches the proposals.
LEMMA ProposalCases ==
    ASSUME [TicketNext]_ticketVars
    PROVE  \/ proposals' = proposals
           \/ \E p \in Proposals, b \in Bookings, u \in Reviewers : Propose(p, b, u)
           \/ \E q \in proposals, u \in Reviewers, d \in {"approved", "rejected"} :
                 Decide(q, u, d)
  <1>1. ASSUME NEW b \in Bookings,
               \/ ReserveCancel(b) \/ SendCancel(b) \/ SaveCancel(b)
               \/ Observe(b) \/ SupplierTickets(b) \/ Age(b)
        PROVE  proposals' = proposals
    BY <1>1 DEF ReserveCancel, SendCancel, SaveCancel, Observe, SupplierTickets, Age,
                reviewVars
  <1>2. ASSUME NEW b \in Bookings, NEW o, NEW a, ReserveIssue(b, o, a)
        PROVE  proposals' = proposals
    BY <1>2 DEF ReserveIssue, reviewVars
  <1>3. ASSUME NEW b \in Bookings,
               \/ Send(b) \/ Answer(b) \/ SaveAnswer(b) \/ LoseAnswer(b)
               \/ WorkerFinalize(b) \/ WorkerFinalizeBusy(b)
        PROVE  proposals' = proposals
    BY <1>3 DEF Send, Answer, SaveAnswer, LoseAnswer, WorkerFinalize, WorkerFinalizeBusy,
                reviewVars
  <1>4. ASSUME NEW c \in Callers, NEW b \in Bookings,
               VerifySaved(c, b) \/ StartReconcile(c, b)
        PROVE  proposals' = proposals
    BY <1>4 DEF VerifySaved, StartReconcile, reviewVars
  <1>5. ASSUME NEW c \in Callers,
               \/ ReadSupplier(c) \/ SaveRead(c) \/ CallerFinalize(c) \/ CallerGivesUp(c)
        PROVE  proposals' = proposals
    BY <1>5 DEF ReadSupplier, SaveRead, CallerFinalize, CallerGivesUp, reviewVars
  <1>6. ASSUME Crash \/ Funding \/ UNCHANGED ticketVars
        PROVE  proposals' = proposals
    BY <1>6 DEF Crash, Funding, ticketVars, reviewVars
  <1> QED BY <1>1, <1>2, <1>3, <1>4, <1>5, <1>6
          DEF TicketNext, BookingStep, WorkerStep, CallerStep, ReviewStep

LEMMA ApprovedCases ==
    ASSUME TicketTypeOK, [TicketNext]_ticketVars
    PROVE  \/ ApprovedKept
           \/ \E q \in proposals, u \in Reviewers : Decide(q, u, "approved")
  <1>1. proposals' = proposals => ApprovedKept
    BY DEF ApprovedKept, Approved
  <1> QED BY <1>1, ProposalCases, ProposeApproved, DecideApproved

\* How the payment of a booking moves: held by its issue, charged on proof,
\* set aside without it, released by an approval alone.
PaymentStep ==
    \/ PaymentsKept /\ ApprovedKept
    \/ \E b \in Bookings :
          /\ ApprovedKept
          /\ \/ PaymentMoves(b, {"none"}, "reserved")
             \/ Resolved(b) /\ PaymentMoves(b, Live, "captured")
             \/ PaymentMoves(b, Live, "reconciliation")
    \/ \E q \in proposals, u \in Reviewers :
          /\ Decide(q, u, "approved") /\ Agreed(q)
          /\ q.booking \in Bookings /\ PaymentMoves(q.booking, Live, "released")

LEMMA PaymentStepTaken ==
    ASSUME TicketTypeOK, SubjectsOnce, TypeOK', SubjectsOnce', IssuesReserved,
           CallsOfIssues, \A b \in Bookings : MutationOnce(b), [TicketNext]_ticketVars
    PROVE  PaymentStep
  <1>0. TypeOK
    BY DEF TicketTypeOK
  <1>1. ASSUME UNCHANGED ledgerVars
        PROVE  PaymentsKept
    BY <1>0, <1>1, PaymentKept DEF PaymentsKept, ledgerVars, balanceVars
  <1>2. ASSUME NEW b \in Bookings, Reserved(b), Finalize(b), proposals' = proposals
        PROVE  PaymentStep
    <2>1. ApprovedKept
      BY <1>2 DEF ApprovedKept, Approved
    <2> QED BY <1>0, <1>2, <2>1, FinalizeMoves DEF PaymentStep
  <1>3. ASSUME NEW b \in Bookings, NEW o \in OpIds, NEW a \in Accounts, ReserveIssue(b, o, a)
        PROVE  PaymentStep
    <2>1. proposals' = proposals /\ Reserve(o, a, b, Payable[b])
      BY <1>3 DEF ReserveIssue, reviewVars
    <2>2. ApprovedKept
      BY <2>1 DEF ApprovedKept, Approved
    <2> QED BY <1>0, <2>1, <2>2, ReserveMoves DEF PaymentStep
  <1>4. ASSUME NEW b \in Bookings, WorkerFinalize(b)
        PROVE  PaymentStep
    BY <1>2, <1>4, RunningIssue DEF WorkerFinalize
  <1>5. ASSUME NEW c \in Callers, CallerFinalize(c)
        PROVE  PaymentStep
    <2>1. PICK b \in Bookings : b = call[c].booking /\ Reserved(b)
      BY <1>5, RunningIssue
    <2> QED BY <1>2, <1>5, <2>1 DEF CallerFinalize
  <1>6. ASSUME NEW q \in proposals, NEW u \in Reviewers, NEW d \in {"approved", "rejected"},
               Decide(q, u, d)
        PROVE  PaymentStep
    <2>1. CASE d = "rejected"
      BY <1>1, <1>6, <2>1, DecideApproved DEF PaymentStep, Decide
    <2>2. CASE d = "approved"
      <3>1. Agreed(q) /\ Settle(OperationOf(q.booking), "released")
        BY <1>6, <2>2 DEF Decide
      <3>2. q.booking \in Bookings /\ Reserved(q.booking)
        BY <3>1, RunningIssue
      <3>3. PaymentMoves(q.booking, Live, "released")
        BY <1>0, <3>1, <3>2, SettleMoves DEF Terminal
      <3> QED BY <1>6, <2>2, <3>1, <3>2, <3>3 DEF PaymentStep
    <2> QED BY <2>1, <2>2
  <1>7. ASSUME Funding
        PROVE  PaymentStep
    <2>1. proposals' = proposals /\ (UNCHANGED balanceVars \/ ops' = ops)
      BY <1>7, RequestEffect DEF Funding, reviewVars, Credits
    <2>2. ops' = ops
      BY <2>1 DEF balanceVars
    <2>3. PaymentsKept
      BY <1>0, <2>2, PaymentKept DEF PaymentsKept
    <2> QED BY <2>1, <2>3 DEF PaymentStep, ApprovedKept, Approved
  <1>8. ASSUME UNCHANGED ledgerVars, ApprovedKept
        PROVE  PaymentStep
    BY <1>1, <1>8 DEF PaymentStep
  <1> QED BY <1>3, <1>4, <1>5, <1>6, <1>7, <1>8, LedgerCases, ApprovedCases

-----------------------------------------------------------------------------
(* The rows of an issue *)

\* What is written of an issue, and by whom.
LEMMA IssueCases ==
    ASSUME [TicketNext]_ticketVars
    PROVE  \/ UNCHANGED <<issue, response, verified>>
           \/ \E b \in Bookings, o \in OpIds, a \in Accounts : ReserveIssue(b, o, a)
           \/ \E b \in Bookings : SaveAnswer(b)
           \/ \E c \in Callers, b \in Bookings : VerifySaved(c, b)
           \/ \E c \in Callers : SaveRead(c)
  <1>1. ASSUME NEW b \in Bookings,
               \/ ReserveCancel(b) \/ SendCancel(b) \/ SaveCancel(b)
               \/ Observe(b) \/ SupplierTickets(b) \/ Age(b)
        PROVE  UNCHANGED <<issue, response, verified>>
    BY <1>1 DEF ReserveCancel, SendCancel, SaveCancel, Observe, SupplierTickets, Age,
                issueVars
  <1>2. ASSUME NEW b \in Bookings,
               \/ Send(b) \/ Answer(b) \/ LoseAnswer(b)
               \/ WorkerFinalize(b) \/ WorkerFinalizeBusy(b)
        PROVE  UNCHANGED <<issue, response, verified>>
    BY <1>2 DEF Send, Answer, LoseAnswer, WorkerFinalize, WorkerFinalizeBusy, issueVars
  <1>3. ASSUME NEW c \in Callers, NEW b \in Bookings, StartReconcile(c, b)
        PROVE  UNCHANGED <<issue, response, verified>>
    BY <1>3 DEF StartReconcile, issueVars
  <1>4. ASSUME NEW c \in Callers,
               ReadSupplier(c) \/ CallerFinalize(c) \/ CallerGivesUp(c)
        PROVE  UNCHANGED <<issue, response, verified>>
    BY <1>4 DEF ReadSupplier, CallerFinalize, CallerGivesUp, issueVars
  <1>5. ASSUME NEW p, NEW b, NEW u, Propose(p, b, u)
        PROVE  UNCHANGED <<issue, response, verified>>
    BY <1>5 DEF Propose, issueVars
  <1>6. ASSUME NEW q, NEW u, NEW d, Decide(q, u, d)
        PROVE  UNCHANGED <<issue, response, verified>>
    BY <1>6 DEF Decide, issueVars
  <1>7. ASSUME Crash \/ Funding \/ UNCHANGED ticketVars
        PROVE  UNCHANGED <<issue, response, verified>>
    BY <1>7 DEF Crash, Funding, ticketVars, issueVars
  <1> QED BY <1>1, <1>2, <1>3, <1>4, <1>5, <1>6, <1>7
          DEF TicketNext, BookingStep, WorkerStep, CallerStep, ReviewStep

\* An issue is never taken back, and its proof never lost.
IssueStays(b) ==
    /\ issue[b] # "none" => issue'[b] # "none"
    /\ Resolved(b) => Resolved(b)'

LEMMA IssueStaysStep ==
    ASSUME TicketTypeOK, [TicketNext]_ticketVars, NEW b \in Bookings
    PROVE  IssueStays(b)
  <1>0. /\ issue \in [Bookings -> {"none", "pending", "issued", "outcome_unknown"}]
        /\ verified \in [Bookings -> BOOLEAN]
    BY DEF TicketTypeOK
  <1>1. CASE UNCHANGED <<issue, response, verified>>
    BY <1>1 DEF IssueStays, Resolved
  <1>2. ASSUME NEW c \in Bookings, NEW o, NEW a, ReserveIssue(c, o, a)
        PROVE  IssueStays(b)
    BY <1>0, <1>2 DEF ReserveIssue, NotReserved, IssueStays, Resolved
  <1>3. ASSUME NEW c \in Bookings, SaveAnswer(c)
        PROVE  IssueStays(b)
    BY <1>0, <1>3 DEF SaveAnswer, IssueStays, Resolved
  <1>4. ASSUME NEW c, NEW d \in Bookings, VerifySaved(c, d)
        PROVE  IssueStays(b)
    BY <1>0, <1>4 DEF VerifySaved, IssueStays, Resolved
  <1>5. ASSUME NEW c, SaveRead(c)
        PROVE  IssueStays(b)
    BY <1>0, <1>5 DEF SaveRead, IssueStays, Resolved
  <1> QED BY <1>1, <1>2, <1>3, <1>4, <1>5, IssueCases

\* The row is made with its hold.
LEMMA IssueMade ==
    ASSUME TicketTypeOK, [TicketNext]_ticketVars, NEW b \in Bookings,
           issue[b] = "none", issue'[b] # "none"
    PROVE  \E o \in OpIds, a \in Accounts : ReserveIssue(b, o, a)
  <1>0. issue \in [Bookings -> {"none", "pending", "issued", "outcome_unknown"}]
    BY DEF TicketTypeOK
  <1>1. ASSUME NEW c \in Bookings, NEW o \in OpIds, NEW a \in Accounts, ReserveIssue(c, o, a)
        PROVE  c = b
    BY <1>0, <1>1 DEF ReserveIssue
  <1>2. ASSUME NEW c \in Bookings, SaveAnswer(c)
        PROVE  FALSE
    BY <1>0, <1>2 DEF SaveAnswer
  <1>3. ASSUME NEW c, NEW d, VerifySaved(c, d)
        PROVE  FALSE
    BY <1>3 DEF VerifySaved
  <1>4. ASSUME NEW c, SaveRead(c)
        PROVE  FALSE
    BY <1>4 DEF SaveRead
  <1> QED BY <1>1, <1>2, <1>3, <1>4, IssueCases

LEMMA IssuesReservedStep ==
    ASSUME TicketTypeOK, SubjectsOnce, TypeOK', SubjectsOnce', IssuesReserved,
           CallsOfIssues, \A b \in Bookings : MutationOnce(b), [TicketNext]_ticketVars
    PROVE  IssuesReserved'
  <1> SUFFICES ASSUME NEW b \in Bookings, issue'[b] # "none"
               PROVE  Reserved(b)'
    BY DEF IssuesReserved
  <1>0. TypeOK
    BY DEF TicketTypeOK
  <1>1. CASE issue[b] = "none"
    <2>1. PICK o \in OpIds, a \in Accounts : ReserveIssue(b, o, a)
      BY <1>1, IssueMade
    <2>2. Reserve(o, a, b, Payable[b])
      BY <2>1 DEF ReserveIssue
    <2> QED BY <1>0, <2>2, ReserveMoves
  <1>2. CASE issue[b] # "none"
    <2>1. PaymentState(b) \in Live \cup Terminal
      BY <1>0, <1>2, PaymentOf DEF IssuesReserved
    <2>2. PaymentState(b)' # "none"
      BY <2>1, PaymentStepTaken DEF PaymentStep, PaymentsKept, PaymentMoves, Live, Terminal
    <2> QED BY <2>2 DEF PaymentState
  <1> QED BY <1>1, <1>2

LEMMA PaymentFollowsStep ==
    ASSUME TicketTypeOK, PaymentStep, [TicketNext]_ticketVars,
           \A b \in Bookings : PaymentFollows(b), NEW b \in Bookings
    PROVE  PaymentFollows(b)'
  <1>1. Resolved(b) => Resolved(b)'
    BY IssueStaysStep DEF IssueStays
  <1>2. PaymentFollows(b)
    OBVIOUS
  <1>3. CASE PaymentsKept /\ ApprovedKept
    BY <1>1, <1>2, <1>3 DEF PaymentsKept, ApprovedKept, PaymentFollows
  <1>4. ASSUME ApprovedKept, NEW c \in Bookings,
               \/ PaymentMoves(c, {"none"}, "reserved")
               \/ Resolved(c) /\ PaymentMoves(c, Live, "captured")
               \/ PaymentMoves(c, Live, "reconciliation")
        PROVE  PaymentFollows(b)'
    BY <1>1, <1>2, <1>4 DEF ApprovedKept, PaymentMoves, PaymentFollows, Live
  <1>5. ASSUME NEW q \in proposals, NEW u \in Reviewers, Decide(q, u, "approved"),
               q.booking \in Bookings, PaymentMoves(q.booking, Live, "released")
        PROVE  PaymentFollows(b)'
    <2>1. /\ \A c \in Bookings \ {q.booking} : Approved(c)' = Approved(c)
          /\ Approved(q.booking)' # {}
      BY <1>5, DecideApproved
    <2>2. CASE b = q.booking
      BY <1>5, <2>1, <2>2 DEF PaymentMoves, PaymentFollows
    <2>3. CASE b # q.booking
      BY <1>1, <1>2, <1>5, <2>1, <2>3 DEF PaymentMoves, PaymentFollows
    <2> QED BY <2>2, <2>3
  <1> QED BY <1>3, <1>4, <1>5 DEF PaymentStep

-----------------------------------------------------------------------------
(* One mutation at the supplier *)

\* Requests, reviews and the clock touch neither the tasks nor what excludes
\* them.
LEMMA TaskCases ==
    ASSUME [TicketNext]_ticketVars
    PROVE  \/ UNCHANGED <<issue, cancel, worker, cancelWorker, sent>>
           \/ \E b \in Bookings :
                 \/ \E o \in OpIds, a \in Accounts : ReserveIssue(b, o, a)
                 \/ ReserveCancel(b) \/ SendCancel(b) \/ SaveCancel(b)
                 \/ WorkerStep(b)
           \/ Crash
  <1> DEFINE Same == UNCHANGED <<issue, cancel, worker, cancelWorker, sent>>
  <1>1. ASSUME NEW b \in Bookings, Observe(b) \/ SupplierTickets(b) \/ Age(b)
        PROVE  Same
    BY <1>1 DEF Observe, SupplierTickets, Age, issueVars, taskVars, supplierVars
  <1>2. ASSUME NEW c \in Callers, NEW b \in Bookings,
               VerifySaved(c, b) \/ StartReconcile(c, b)
        PROVE  Same
    BY <1>2 DEF VerifySaved, StartReconcile, issueVars, supplierVars
  <1>3. ASSUME NEW c \in Callers,
               \/ ReadSupplier(c) \/ SaveRead(c) \/ CallerFinalize(c) \/ CallerGivesUp(c)
        PROVE  Same
    BY <1>3 DEF ReadSupplier, SaveRead, CallerFinalize, CallerGivesUp, issueVars,
                supplierVars
  <1>4. ASSUME NEW p, NEW b, NEW u, Propose(p, b, u)
        PROVE  Same
    BY <1>4 DEF Propose, issueVars, taskVars, supplierVars
  <1>5. ASSUME NEW q, NEW u, NEW d, Decide(q, u, d)
        PROVE  Same
    BY <1>5 DEF Decide, issueVars, taskVars, supplierVars
  <1>6. ASSUME Funding \/ UNCHANGED ticketVars
        PROVE  Same
    BY <1>6 DEF Funding, ticketVars, issueVars, taskVars, supplierVars
  <1> HIDE DEF Same
  <1>7. \/ Same
        \/ \E b \in Bookings :
              \/ \E o \in OpIds, a \in Accounts : ReserveIssue(b, o, a)
              \/ ReserveCancel(b) \/ SendCancel(b) \/ SaveCancel(b)
              \/ WorkerStep(b)
        \/ Crash
    BY <1>1, <1>2, <1>3, <1>4, <1>5, <1>6
       DEF TicketNext, BookingStep, CallerStep, ReviewStep
  <1> QED BY <1>7 DEF Same

LEMMA MutationOnceStep ==
    ASSUME TicketTypeOK, \A b \in Bookings : MutationOnce(b), [TicketNext]_ticketVars,
           NEW b \in Bookings
    PROVE  MutationOnce(b)'
  <1>0. /\ issue \in [Bookings -> {"none", "pending", "issued", "outcome_unknown"}]
        /\ worker \in [Bookings -> {"none", "spawned", "calling", "answered",
                                    "finalizing", "done"}]
        /\ cancel \in [Bookings -> {"none", "pending", "cancelled", "outcome_unknown"}]
        /\ cancelWorker \in [Bookings -> {"none", "spawned", "calling", "done"}]
        /\ sent \in [Bookings -> Nat]
        /\ MutationOnce(b)
    BY DEF TicketTypeOK
  <1>1. CASE UNCHANGED <<issue, cancel, worker, cancelWorker, sent>>
    BY <1>0, <1>1 DEF MutationOnce
  <1>2. ASSUME NEW c \in Bookings, NEW o, NEW a, ReserveIssue(c, o, a)
        PROVE  MutationOnce(b)'
    BY <1>0, <1>2 DEF ReserveIssue, NotReserved, supplierVars, MutationOnce, Unsent
  <1>3. ASSUME NEW c \in Bookings, ReserveCancel(c)
        PROVE  MutationOnce(b)'
    BY <1>0, <1>3 DEF ReserveCancel, issueVars, supplierVars, MutationOnce, Unsent
  <1>4. ASSUME NEW c \in Bookings, SendCancel(c)
        PROVE  MutationOnce(b)'
    BY <1>0, <1>4 DEF SendCancel, issueVars, MutationOnce, Unsent
  <1>5. ASSUME NEW c \in Bookings, SaveCancel(c)
        PROVE  MutationOnce(b)'
    BY <1>0, <1>5 DEF SaveCancel, issueVars, supplierVars, MutationOnce, Unsent
  <1>6. ASSUME NEW c \in Bookings, Send(c)
        PROVE  MutationOnce(b)'
    BY <1>0, <1>6 DEF Send, issueVars, MutationOnce, Unsent
  <1>7. ASSUME NEW c \in Bookings,
               Answer(c) \/ LoseAnswer(c) \/ WorkerFinalize(c) \/ WorkerFinalizeBusy(c)
        PROVE  MutationOnce(b)'
    BY <1>0, <1>7 DEF Answer, LoseAnswer, WorkerFinalize, WorkerFinalizeBusy, issueVars,
                      supplierVars, MutationOnce, Unsent
  <1>8. ASSUME NEW c \in Bookings, SaveAnswer(c)
        PROVE  MutationOnce(b)'
    BY <1>0, <1>8 DEF SaveAnswer, supplierVars, MutationOnce, Unsent
  <1>9. CASE Crash
    BY <1>0, <1>9 DEF Crash, Stopped, issueVars, supplierVars, MutationOnce, Unsent
  <1> QED BY <1>1, <1>2, <1>3, <1>4, <1>5, <1>6, <1>7, <1>8, <1>9, TaskCases
          DEF WorkerStep

-----------------------------------------------------------------------------
(* Requests and what they heard *)

LEMMA CallCases ==
    ASSUME [TicketNext]_ticketVars
    PROVE  call' = call \/ Crash \/ \E c \in Callers : CallerStep(c)
  <1>1. ASSUME NEW b \in Bookings,
               \/ ReserveCancel(b) \/ SendCancel(b) \/ SaveCancel(b)
               \/ Observe(b) \/ SupplierTickets(b) \/ Age(b)
        PROVE  call' = call
    BY <1>1 DEF ReserveCancel, SendCancel, SaveCancel, Observe, SupplierTickets, Age,
                taskVars
  <1>2. ASSUME NEW b \in Bookings, NEW o, NEW a, ReserveIssue(b, o, a)
        PROVE  call' = call
    BY <1>2 DEF ReserveIssue
  <1>3. ASSUME NEW b \in Bookings, WorkerStep(b)
        PROVE  call' = call
    BY <1>3 DEF WorkerStep, Send, Answer, SaveAnswer, LoseAnswer, WorkerFinalize,
                WorkerFinalizeBusy
  <1>4. ASSUME NEW p, NEW b, NEW u, Propose(p, b, u)
        PROVE  call' = call
    BY <1>4 DEF Propose, taskVars
  <1>5. ASSUME NEW q, NEW u, NEW d, Decide(q, u, d)
        PROVE  call' = call
    BY <1>5 DEF Decide, taskVars
  <1>6. ASSUME Funding \/ UNCHANGED ticketVars
        PROVE  call' = call
    BY <1>6 DEF Funding, ticketVars, taskVars
  <1> QED BY <1>1, <1>2, <1>3, <1>4, <1>5, <1>6 DEF TicketNext, BookingStep, ReviewStep

\* A request that goes on is of the same booking as before, or is the first
\* step of one; what it found is nothing, or what it read.
CallGoesOn(c) ==
    \E at \in {"reading", "saving", "finalizing"}, b \in Bookings, found \in Answers :
        /\ Calling(c, at, b, found)
        /\ issue[b] # "none"
        /\ found = "nothing" \/ found \in Replies(b)

LEMMA CallerCases ==
    ASSUME TicketTypeOK, CallsOfIssues, NEW c \in Callers, CallerStep(c)
    PROVE  CallGoesOn(c) \/ call' = [call EXCEPT ![c] = Idle]
  <1>0. /\ call[c] \in Call /\ "nothing" \in Answers
        /\ \A b \in Bookings : Replies(b) \subseteq Answers
    BY DEF TicketTypeOK, Answers, Replies
  <1>1. ASSUME NEW b \in Bookings, VerifySaved(c, b)
        PROVE  CallGoesOn(c)
    BY <1>0, <1>1 DEF VerifySaved, CallGoesOn
  <1>2. ASSUME NEW b \in Bookings, StartReconcile(c, b)
        PROVE  CallGoesOn(c)
    BY <1>0, <1>2 DEF StartReconcile, CallGoesOn
  <1>3. ASSUME call[c].at # "idle"
        PROVE  call[c].booking \in Bookings /\ issue[call[c].booking] # "none"
    BY <1>3 DEF CallsOfIssues
  <1>4. ASSUME ReadSupplier(c)
        PROVE  CallGoesOn(c)
    BY <1>0, <1>3, <1>4 DEF ReadSupplier, CallGoesOn
  <1>5. ASSUME SaveRead(c)
        PROVE  CallGoesOn(c)
    BY <1>0, <1>3, <1>5 DEF SaveRead, CallGoesOn
  <1>6. ASSUME CallerFinalize(c) \/ CallerGivesUp(c)
        PROVE  call' = [call EXCEPT ![c] = Idle]
    BY <1>6 DEF CallerFinalize, CallerGivesUp
  <1> QED BY <1>1, <1>2, <1>4, <1>5, <1>6 DEF CallerStep

\* A row of the next state is an old one, an idle one or one that goes on.
LEMMA CallRows ==
    ASSUME TicketTypeOK, CallsOfIssues, [TicketNext]_ticketVars
    PROVE  /\ call' \in [Callers -> Call]
           /\ \A c \in Callers :
                 \/ call'[c] = call[c] \/ call'[c] = Idle
                 \/ /\ call'[c].booking \in Bookings /\ issue[call'[c].booking] # "none"
                    /\ \/ call'[c].found = "nothing"
                       \/ call'[c].found \in Replies(call'[c].booking)
  <1> DEFINE Row(c, next) ==
        /\ next \in Call
        /\ \/ next = call[c] \/ next = Idle
           \/ /\ next.booking \in Bookings /\ issue[next.booking] # "none"
              /\ next.found = "nothing" \/ next.found \in Replies(next.booking)
  <1>0. call \in [Callers -> Call] /\ Idle \in Call
    BY DEF TicketTypeOK, Call, Idle, Answers
  <1>1. CASE call' = call
    BY <1>0, <1>1
  <1>2. CASE Crash
    BY <1>0, <1>2 DEF Crash
  <1>3. ASSUME NEW c \in Callers, NEW new, call' = [call EXCEPT ![c] = new], Row(c, new)
        PROVE  call' \in [Callers -> Call] /\ \A d \in Callers : Row(d, call'[d])
    BY <1>0, <1>3
  <1>4. ASSUME NEW c \in Callers, CallerStep(c)
        PROVE  \E new : call' = [call EXCEPT ![c] = new] /\ Row(c, new)
    <2>1. CASE CallGoesOn(c)
      <3>1. PICK at \in {"reading", "saving", "finalizing"}, b \in Bookings,
                 found \in Answers :
                 /\ Calling(c, at, b, found) /\ issue[b] # "none"
                 /\ found = "nothing" \/ found \in Replies(b)
        BY <2>1 DEF CallGoesOn
      <3> DEFINE new == [at |-> at, booking |-> b, found |-> found]
      <3>2. new \in Call /\ new.booking = b /\ new.found = found
        BY DEF Call
      <3>3. call' = [call EXCEPT ![c] = new]
        BY <3>1 DEF Calling
      <3> HIDE DEF new
      <3> QED BY <3>1, <3>2, <3>3
    <2>2. CASE call' = [call EXCEPT ![c] = Idle]
      BY <1>0, <2>2
    <2> QED BY <1>4, <2>1, <2>2, CallerCases
  <1> HIDE DEF Row
  <1>5. ASSUME NEW c \in Callers, CallerStep(c)
        PROVE  call' \in [Callers -> Call] /\ \A d \in Callers : Row(d, call'[d])
    BY <1>3, <1>4, <1>5
  <1> QED BY <1>1, <1>2, <1>5, CallCases DEF Row

LEMMA CallsOfIssuesStep ==
    ASSUME TicketTypeOK, CallsOfIssues, [TicketNext]_ticketVars
    PROVE  CallsOfIssues'
  <1> SUFFICES ASSUME NEW c \in Callers, call'[c].at # "idle"
               PROVE  call'[c].booking \in Bookings /\ issue'[call'[c].booking] # "none"
    BY DEF CallsOfIssues
  <1>1. call'[c].booking \in Bookings /\ issue[call'[c].booking] # "none"
    BY CallRows DEF CallsOfIssues, Idle
  <1>2. PICK b \in Bookings : b = call'[c].booking
    BY <1>1
  <1> QED BY <1>1, <1>2, IssueStaysStep DEF IssueStays

-----------------------------------------------------------------------------
(* Evidence *)

\* Tickets are never unmade.
LEMMA TicketedStep ==
    ASSUME [TicketNext]_ticketVars
    PROVE  ticketed \subseteq ticketed'
  <1>1. ASSUME NEW b \in Bookings, NEW o, NEW a, ReserveIssue(b, o, a)
        PROVE  ticketed' = ticketed
    BY <1>1 DEF ReserveIssue, supplierVars
  <1>2. ASSUME NEW b \in Bookings,
               ReserveCancel(b) \/ SendCancel(b) \/ SaveCancel(b) \/ Observe(b) \/ Age(b)
        PROVE  ticketed' = ticketed
    BY <1>2 DEF ReserveCancel, SendCancel, SaveCancel, Observe, Age, supplierVars
  <1>3. ASSUME NEW b \in Bookings, SupplierTickets(b)
        PROVE  ticketed \subseteq ticketed'
    BY <1>3 DEF SupplierTickets
  <1>4. ASSUME NEW b \in Bookings, WorkerStep(b)
        PROVE  ticketed' = ticketed
    BY <1>4 DEF WorkerStep, Send, Answer, SaveAnswer, LoseAnswer, WorkerFinalize,
                WorkerFinalizeBusy, supplierVars
  <1>5. ASSUME NEW c \in Callers, NEW b \in Bookings,
               VerifySaved(c, b) \/ StartReconcile(c, b)
        PROVE  ticketed' = ticketed
    BY <1>5 DEF VerifySaved, StartReconcile, supplierVars
  <1>6. ASSUME NEW c \in Callers,
               \/ ReadSupplier(c) \/ SaveRead(c) \/ CallerFinalize(c) \/ CallerGivesUp(c)
        PROVE  ticketed' = ticketed
    BY <1>6 DEF ReadSupplier, SaveRead, CallerFinalize, CallerGivesUp, supplierVars
  <1>7. ASSUME NEW p, NEW b, NEW u, Propose(p, b, u)
        PROVE  ticketed' = ticketed
    BY <1>7 DEF Propose, supplierVars
  <1>8. ASSUME NEW q, NEW u, NEW d, Decide(q, u, d)
        PROVE  ticketed' = ticketed
    BY <1>8 DEF Decide, supplierVars
  <1>9. ASSUME Crash \/ Funding \/ UNCHANGED ticketVars
        PROVE  ticketed' = ticketed
    BY <1>9 DEF Crash, Funding, ticketVars, supplierVars
  <1> QED BY <1>1, <1>2, <1>3, <1>4, <1>5, <1>6, <1>7, <1>8, <1>9
          DEF TicketNext, BookingStep, CallerStep, ReviewStep

LEMMA RepliesNamed ==
    ASSUME NEW b, NEW r \in Replies(b), r \in Named
    PROVE  b \in ticketed
  BY DEF Replies, Named

\* What a worker heard it heard from the supplier.
LEMMA AnswerRows ==
    ASSUME TicketTypeOK, [TicketNext]_ticketVars
    PROVE  /\ answer' \in [Bookings -> Answers]
           /\ \A b \in Bookings : \/ answer'[b] \in {answer[b], "nothing"}
                                  \/ answer'[b] \in Replies(b)
  <1> DEFINE Goal == /\ answer' \in [Bookings -> Answers]
                     /\ \A b \in Bookings : \/ answer'[b] \in {answer[b], "nothing"}
                                            \/ answer'[b] \in Replies(b)
  <1>0. /\ answer \in [Bookings -> Answers] /\ "nothing" \in Answers
        /\ \A b \in Bookings : Replies(b) \subseteq Answers
    BY DEF TicketTypeOK, Answers, Replies
  <1>1. ASSUME answer' = answer
        PROVE  Goal
    BY <1>0, <1>1
  <1>2. ASSUME NEW c \in Bookings, NEW r,
               answer' = [answer EXCEPT ![c] = r], r = "nothing" \/ r \in Replies(c)
        PROVE  Goal
    BY <1>0, <1>2
  <1>3. ASSUME answer' = [b \in Bookings |-> "nothing"]
        PROVE  Goal
    BY <1>0, <1>3
  <1> HIDE DEF Goal
  <1>4. ASSUME NEW b \in Bookings,
               \/ ReserveCancel(b) \/ SendCancel(b) \/ SaveCancel(b)
               \/ Observe(b) \/ SupplierTickets(b) \/ Age(b)
        PROVE  answer' = answer
    BY <1>4 DEF ReserveCancel, SendCancel, SaveCancel, Observe, SupplierTickets, Age,
                taskVars
  <1>5. ASSUME NEW b \in Bookings, NEW o, NEW a, ReserveIssue(b, o, a)
        PROVE  answer' = answer
    BY <1>5 DEF ReserveIssue
  <1>6. ASSUME NEW b \in Bookings, Send(b) \/ WorkerFinalize(b) \/ WorkerFinalizeBusy(b)
        PROVE  answer' = answer
    BY <1>6 DEF Send, WorkerFinalize, WorkerFinalizeBusy
  <1>7. ASSUME NEW b \in Bookings, Answer(b) \/ SaveAnswer(b) \/ LoseAnswer(b)
        PROVE  Goal
    BY <1>2, <1>7 DEF Answer, SaveAnswer, LoseAnswer
  <1>8. ASSUME NEW c \in Callers, CallerStep(c)
        PROVE  answer' = answer
    BY <1>8 DEF CallerStep, VerifySaved, StartReconcile, ReadSupplier, SaveRead,
                CallerFinalize, CallerGivesUp
  <1>9. ASSUME NEW p, NEW b, NEW u, Propose(p, b, u)
        PROVE  answer' = answer
    BY <1>9 DEF Propose, taskVars
  <1>10. ASSUME NEW q, NEW u, NEW d, Decide(q, u, d)
         PROVE  answer' = answer
    BY <1>10 DEF Decide, taskVars
  <1>11. ASSUME Funding \/ UNCHANGED ticketVars
         PROVE  answer' = answer
    BY <1>11 DEF Funding, ticketVars, taskVars
  <1>12. ASSUME Crash
         PROVE  Goal
    BY <1>3, <1>12 DEF Crash
  <1>13. Goal
    BY <1>1, <1>4, <1>5, <1>6, <1>7, <1>8, <1>9, <1>10, <1>11, <1>12
       DEF TicketNext, BookingStep, WorkerStep, ReviewStep
  <1> QED BY <1>13 DEF Goal

\* The row keeps what a worker answered, and is proved by that, by its saved
\* answer or by what a request read.
LEMMA EvidenceRows ==
    ASSUME TicketTypeOK, TicketsHeard, [TicketNext]_ticketVars, NEW b \in Bookings
    PROVE  /\ response'[b] \in Named => b \in ticketed
           /\ Resolved(b)' => b \in ticketed
  <1>0. /\ issue \in [Bookings -> {"none", "pending", "issued", "outcome_unknown"}]
        /\ verified \in [Bookings -> BOOLEAN] /\ response \in [Bookings -> Answers]
        /\ answer[b] \in Named \/ response[b] \in Named \/ Resolved(b) => b \in ticketed
    BY DEF TicketTypeOK, TicketsHeard
  <1>1. CASE UNCHANGED <<issue, response, verified>>
    BY <1>0, <1>1 DEF Resolved
  <1>2. ASSUME NEW c \in Bookings, NEW o, NEW a, ReserveIssue(c, o, a)
        PROVE  /\ response'[b] \in Named => b \in ticketed
               /\ Resolved(b)' => b \in ticketed
    BY <1>0, <1>2 DEF ReserveIssue, Resolved
  <1>3. ASSUME NEW c \in Bookings, SaveAnswer(c)
        PROVE  /\ response'[b] \in Named => b \in ticketed
               /\ Resolved(b)' => b \in ticketed
    BY <1>0, <1>3 DEF SaveAnswer, Proves, Resolved, Named
  <1>4. ASSUME NEW c, NEW d \in Bookings, VerifySaved(c, d)
        PROVE  /\ response'[b] \in Named => b \in ticketed
               /\ Resolved(b)' => b \in ticketed
    BY <1>0, <1>4 DEF VerifySaved, Resolved, Named
  <1>5. ASSUME NEW c \in Callers, SaveRead(c)
        PROVE  /\ response'[b] \in Named => b \in ticketed
               /\ Resolved(b)' => b \in ticketed
    <2>1. call[c].found \in Named => call[c].booking \in ticketed
      BY DEF TicketsHeard
    <2> QED BY <1>0, <1>5, <2>1 DEF SaveRead, Proves, Resolved, Named
  <1> QED BY <1>1, <1>2, <1>3, <1>4, <1>5, IssueCases

LEMMA TicketsHeardStep ==
    ASSUME TicketTypeOK, CallsOfIssues, TicketsHeard, [TicketNext]_ticketVars
    PROVE  TicketsHeard'
  <1>1. ASSUME NEW b \in Bookings, answer'[b] \in Named
        PROVE  b \in ticketed
    BY <1>1, AnswerRows, RepliesNamed DEF TicketsHeard, Named
  <1>2. ASSUME NEW c \in Callers, call'[c].found \in Named
        PROVE  call'[c].booking \in ticketed
    BY <1>2, CallRows, RepliesNamed DEF TicketsHeard, Named, Idle
  <1> QED BY <1>1, <1>2, EvidenceRows, TicketedStep DEF TicketsHeard

-----------------------------------------------------------------------------
(* Type correctness *)

LEMMA IssueTypes ==
    ASSUME TicketTypeOK, [TicketNext]_ticketVars
    PROVE  /\ issue' \in [Bookings -> {"none", "pending", "issued", "outcome_unknown"}]
           /\ verified' \in [Bookings -> BOOLEAN]
           /\ response' \in [Bookings -> Answers]
  <1> DEFINE Goal ==
         /\ issue' \in [Bookings -> {"none", "pending", "issued", "outcome_unknown"}]
         /\ verified' \in [Bookings -> BOOLEAN]
         /\ response' \in [Bookings -> Answers]
  <1>0. /\ issue \in [Bookings -> {"none", "pending", "issued", "outcome_unknown"}]
        /\ verified \in [Bookings -> BOOLEAN]
        /\ response \in [Bookings -> Answers]
        /\ answer \in [Bookings -> Answers]
    BY DEF TicketTypeOK
  <1>1. ASSUME UNCHANGED <<issue, response, verified>>
        PROVE  Goal
    BY <1>0, <1>1
  <1>2. ASSUME NEW b \in Bookings, NEW o, NEW a, ReserveIssue(b, o, a)
        PROVE  Goal
    BY <1>0, <1>2 DEF ReserveIssue
  <1>3. ASSUME NEW b \in Bookings, SaveAnswer(b)
        PROVE  Goal
    BY <1>0, <1>3 DEF SaveAnswer
  <1>4. ASSUME NEW c, NEW b \in Bookings, VerifySaved(c, b)
        PROVE  Goal
    BY <1>0, <1>4 DEF VerifySaved
  <1>5. ASSUME NEW c, SaveRead(c)
        PROVE  Goal
    BY <1>0, <1>5 DEF SaveRead
  <1> HIDE DEF Goal
  <1>6. Goal
    BY <1>1, <1>2, <1>3, <1>4, <1>5, IssueCases
  <1> QED BY <1>6 DEF Goal

LEMMA TaskTypes ==
    ASSUME TicketTypeOK, [TicketNext]_ticketVars
    PROVE  /\ worker' \in [Bookings -> {"none", "spawned", "calling", "answered",
                                        "finalizing", "done"}]
           /\ cancel' \in [Bookings -> {"none", "pending", "cancelled", "outcome_unknown"}]
           /\ cancelWorker' \in [Bookings -> {"none", "spawned", "calling", "done"}]
           /\ sent' \in [Bookings -> Nat]
  <1> DEFINE Goal ==
         /\ worker' \in [Bookings -> {"none", "spawned", "calling", "answered",
                                      "finalizing", "done"}]
         /\ cancel' \in [Bookings -> {"none", "pending", "cancelled", "outcome_unknown"}]
         /\ cancelWorker' \in [Bookings -> {"none", "spawned", "calling", "done"}]
         /\ sent' \in [Bookings -> Nat]
  <1>0. /\ worker \in [Bookings -> {"none", "spawned", "calling", "answered",
                                    "finalizing", "done"}]
        /\ cancel \in [Bookings -> {"none", "pending", "cancelled", "outcome_unknown"}]
        /\ cancelWorker \in [Bookings -> {"none", "spawned", "calling", "done"}]
        /\ sent \in [Bookings -> Nat]
    BY DEF TicketTypeOK
  <1>1. ASSUME UNCHANGED <<issue, cancel, worker, cancelWorker, sent>>
        PROVE  Goal
    BY <1>0, <1>1
  <1>2. ASSUME NEW b \in Bookings, NEW o, NEW a, ReserveIssue(b, o, a)
        PROVE  Goal
    BY <1>0, <1>2 DEF ReserveIssue, supplierVars
  <1>3. ASSUME NEW b \in Bookings, ReserveCancel(b) \/ SendCancel(b) \/ SaveCancel(b)
        PROVE  Goal
    BY <1>0, <1>3 DEF ReserveCancel, SendCancel, SaveCancel, supplierVars
  <1>4. ASSUME NEW b \in Bookings, Send(b) \/ Answer(b) \/ SaveAnswer(b)
        PROVE  Goal
    BY <1>0, <1>4 DEF Send, Answer, SaveAnswer, supplierVars
  <1>5. ASSUME NEW b \in Bookings,
               LoseAnswer(b) \/ WorkerFinalize(b) \/ WorkerFinalizeBusy(b)
        PROVE  Goal
    BY <1>0, <1>5 DEF LoseAnswer, WorkerFinalize, WorkerFinalizeBusy, supplierVars
  <1>6. ASSUME Crash
        PROVE  Goal
    BY <1>0, <1>6 DEF Crash, Stopped, supplierVars
  <1> HIDE DEF Goal
  <1>7. Goal
    BY <1>1, <1>2, <1>3, <1>4, <1>5, <1>6, TaskCases DEF WorkerStep
  <1> QED BY <1>7 DEF Goal

LEMMA ProposalTypes ==
    ASSUME TicketTypeOK, SubjectsOnce, [TicketNext]_ticketVars
    PROVE  proposals' \subseteq Proposal
  <1>0. proposals \subseteq Proposal /\ TypeOK
    BY DEF TicketTypeOK
  <1>1. ASSUME NEW p \in Proposals, NEW b \in Bookings, NEW u \in Reviewers, Propose(p, b, u)
        PROVE  proposals' \subseteq Proposal
    <2>1. PaymentState(b) \in Live \cup Terminal \cup {"none"}
      BY <1>0, PaymentOf, NoPaymentYet
    <2>2. Snapshot(b) \in Seen
      BY <2>1 DEF TicketTypeOK, Snapshot, Seen
    <2> DEFINE r == [id |-> p, booking |-> b, by |-> u, seen |-> Snapshot(b),
                     decision |-> "none", reviewer |-> NoReviewer]
    <2>3. r \in Proposal
      BY <2>2 DEF Proposal
    <2>4. proposals' = proposals \cup {r}
      BY <1>1 DEF Propose
    <2> HIDE DEF r
    <2> QED BY <1>0, <2>3, <2>4
  <1>2. ASSUME NEW q \in proposals, NEW u \in Reviewers, NEW d \in {"approved", "rejected"},
               Decide(q, u, d)
        PROVE  proposals' \subseteq Proposal
    <2> DEFINE r == [q EXCEPT !.decision = d, !.reviewer = u]
    <2>1. r \in Proposal
      BY <1>0 DEF Proposal
    <2>2. proposals' = (proposals \ {q}) \cup {r}
      BY <1>2 DEF Decide
    <2> HIDE DEF r
    <2> QED BY <1>0, <2>1, <2>2
  <1> QED BY <1>0, <1>1, <1>2, ProposalCases

LEMMA FinalizeContradicts ==
    ASSUME NEW b, Finalize(b)
    PROVE  contradicted' \subseteq contradicted \cup {b}
  BY DEF Finalize

\* The clock, the reads and what the supplier and the staff keep.
LEMMA OtherTypes ==
    ASSUME TicketTypeOK, CallsOfIssues, [TicketNext]_ticketVars
    PROVE  /\ aged' \in [Bookings -> BOOLEAN] /\ signal' \in [Bookings -> BOOLEAN]
           /\ reads' \in [Bookings -> 0..MaxReads]
           /\ contradicted' \subseteq Bookings /\ ticketed' \subseteq Bookings
           /\ crashes' \in 0..MaxCrashes
  <1> DEFINE Goal ==
         /\ aged' \in [Bookings -> BOOLEAN] /\ signal' \in [Bookings -> BOOLEAN]
         /\ reads' \in [Bookings -> 0..MaxReads]
         /\ contradicted' \subseteq Bookings /\ ticketed' \subseteq Bookings
         /\ crashes' \in 0..MaxCrashes
  <1>0. /\ aged \in [Bookings -> BOOLEAN] /\ signal \in [Bookings -> BOOLEAN]
        /\ reads \in [Bookings -> 0..MaxReads]
        /\ contradicted \subseteq Bookings /\ ticketed \subseteq Bookings
        /\ crashes \in 0..MaxCrashes
    BY DEF TicketTypeOK
  <1>1. MaxReads \in Nat /\ MaxCrashes \in Nat
    BY BoundsAssumption
  <1>2. ASSUME UNCHANGED <<aged, signal, reads, crashes, contradicted, ticketed>>
        PROVE  Goal
    BY <1>0, <1>2
  <1>3. ASSUME UNCHANGED <<aged, signal, reads, crashes, ticketed>>,
               NEW b \in Bookings, contradicted' \subseteq contradicted \cup {b}
        PROVE  Goal
    BY <1>0, <1>3
  <1>4. ASSUME NEW c \in Callers, SaveRead(c)
        PROVE  Goal
    <2>1. call[c].booking \in Bookings
      BY <1>4 DEF CallsOfIssues, SaveRead
    <2>2. PICK b \in Bookings : b = call[c].booking
      BY <2>1
    <2>3. reads[b] < MaxReads /\ reads' = [reads EXCEPT ![b] = @ + 1]
          /\ \E x \in BOOLEAN : signal' = [signal EXCEPT ![b] = x]
          /\ UNCHANGED <<aged, crashes, contradicted, ticketed>>
      BY <1>0, <1>4, <2>2 DEF SaveRead, reviewVars, supplierVars
    <2>4. reads[b] + 1 \in 0..MaxReads
      BY <1>0, <1>1, <2>3
    <2> QED BY <1>0, <2>3, <2>4
  <1>5. ASSUME NEW b \in Bookings, Observe(b)
        PROVE  Goal
    <2>1. reads[b] < MaxReads /\ reads' = [reads EXCEPT ![b] = @ + 1]
          /\ \E x \in BOOLEAN : signal' = [signal EXCEPT ![b] = x]
          /\ UNCHANGED <<aged, crashes, contradicted, ticketed>>
      BY <1>0, <1>5 DEF Observe, taskVars, reviewVars, supplierVars
    <2>2. reads[b] + 1 \in 0..MaxReads
      BY <1>0, <1>1, <2>1
    <2> QED BY <1>0, <2>1, <2>2
  <1>6. ASSUME NEW b \in Bookings, SupplierTickets(b) \/ Age(b)
        PROVE  Goal
    BY <1>0, <1>6 DEF SupplierTickets, Age, issueVars, taskVars, reviewVars, supplierVars
  <1>7. ASSUME Crash
        PROVE  Goal
    BY <1>0, <1>1, <1>7 DEF Crash, issueVars, reviewVars, supplierVars
  <1>8. ASSUME NEW b \in Bookings, WorkerFinalize(b)
        PROVE  Goal
    BY <1>3, <1>8, FinalizeContradicts DEF WorkerFinalize, issueVars, supplierVars
  <1>9. ASSUME NEW c \in Callers, CallerFinalize(c)
        PROVE  Goal
    <2>1. PICK b \in Bookings : b = call[c].booking
      BY <1>9 DEF CallsOfIssues, CallerFinalize
    <2> QED BY <1>3, <1>9, <2>1, FinalizeContradicts
            DEF CallerFinalize, issueVars, supplierVars
  <1> HIDE DEF Goal
  <1>10. ASSUME NEW b \in Bookings,
                ReserveCancel(b) \/ SendCancel(b) \/ SaveCancel(b)
         PROVE  Goal
    BY <1>2, <1>10 DEF ReserveCancel, SendCancel, SaveCancel, issueVars, reviewVars,
                       supplierVars
  <1>11. ASSUME NEW b \in Bookings, NEW o, NEW a, ReserveIssue(b, o, a)
         PROVE  Goal
    BY <1>2, <1>11 DEF ReserveIssue, reviewVars, supplierVars
  <1>12. ASSUME NEW b \in Bookings,
                \/ Send(b) \/ Answer(b) \/ SaveAnswer(b) \/ LoseAnswer(b)
                \/ WorkerFinalizeBusy(b)
         PROVE  Goal
    BY <1>2, <1>12 DEF Send, Answer, SaveAnswer, LoseAnswer, WorkerFinalizeBusy, issueVars,
                       reviewVars, supplierVars
  <1>13. ASSUME NEW c \in Callers, NEW b \in Bookings,
                VerifySaved(c, b) \/ StartReconcile(c, b)
         PROVE  Goal
    BY <1>2, <1>13 DEF VerifySaved, StartReconcile, issueVars, reviewVars, supplierVars
  <1>14. ASSUME NEW c \in Callers, ReadSupplier(c) \/ CallerGivesUp(c)
         PROVE  Goal
    BY <1>2, <1>14 DEF ReadSupplier, CallerGivesUp, issueVars, reviewVars, supplierVars
  <1>15. ASSUME NEW p, NEW b, NEW u, Propose(p, b, u)
         PROVE  Goal
    BY <1>2, <1>15 DEF Propose, issueVars, taskVars, supplierVars
  <1>16. ASSUME NEW q, NEW u, NEW d, Decide(q, u, d)
         PROVE  Goal
    BY <1>2, <1>16 DEF Decide, issueVars, taskVars, supplierVars
  <1>17. ASSUME Funding \/ UNCHANGED ticketVars
         PROVE  Goal
    BY <1>2, <1>17 DEF Funding, ticketVars, issueVars, taskVars, reviewVars, supplierVars
  <1>18. Goal
    BY <1>4, <1>5, <1>6, <1>7, <1>8, <1>9, <1>10, <1>11, <1>12, <1>13, <1>14, <1>15,
       <1>16, <1>17 DEF TicketNext, BookingStep, WorkerStep, CallerStep, ReviewStep
  <1> QED BY <1>18 DEF Goal

LEMMA TicketTypeOKStep ==
    ASSUME TicketTypeOK, TypeOK', SubjectsOnce, CallsOfIssues, [TicketNext]_ticketVars
    PROVE  TicketTypeOK'
  BY IssueTypes, TaskTypes, ProposalTypes, OtherTypes, CallRows, AnswerRows
     DEF TicketTypeOK

-----------------------------------------------------------------------------
(* The invariant *)

LEMMA TicketInvariantInit == TicketInit => TicketInvariant
  <1> SUFFICES ASSUME TicketInit PROVE TicketInvariant
    OBVIOUS
  <1>1. TypeOK /\ ops = [o \in OpIds |-> Unused]
    BY InitTypeOK DEF TicketInit, Init, BalancesInit
  <1>2. SubjectsOnce
    BY <1>1 DEF SubjectsOnce, Unused
  <1>3. \A b \in Bookings : ~Reserved(b)
    BY <1>1, NoSubjectAssumption DEF Reserved, Unused, Bookings
  <1>4. TicketTypeOK
    BY <1>1, BoundsAssumption DEF TicketInit, TicketTypeOK, Answers, Call, Idle
  <1>5. IssuesReserved /\ CallsOfIssues
    BY DEF TicketInit, IssuesReserved, CallsOfIssues, Idle
  <1>6. ASSUME NEW b \in Bookings
        PROVE  MutationOnce(b)
    BY DEF TicketInit, MutationOnce
  <1>7. TicketsHeard
    BY DEF TicketInit, TicketsHeard, Resolved, Named, Idle
  <1>8. ASSUME NEW b \in Bookings
        PROVE  PaymentFollows(b)
    BY <1>3, NoPaymentYet DEF TicketInit, PaymentFollows, Approved
  <1> QED BY <1>2, <1>4, <1>5, <1>6, <1>7, <1>8 DEF TicketInvariant

LEMMA TicketInvariantStep == TicketInvariant /\ [TicketNext]_ticketVars => TicketInvariant'
  <1> SUFFICES ASSUME TicketInvariant, [TicketNext]_ticketVars PROVE TicketInvariant'
    OBVIOUS
  <1>1. /\ TicketTypeOK /\ SubjectsOnce /\ IssuesReserved /\ CallsOfIssues /\ TicketsHeard
        /\ \A b \in Bookings : MutationOnce(b)
        /\ \A b \in Bookings : PaymentFollows(b)
    BY DEF TicketInvariant
  <1>2. TypeOK /\ [Next]_ledgerVars
    BY <1>1, TicketStepsLedger DEF TicketTypeOK
  <1>3. TypeOK' /\ SubjectsOnce'
    BY <1>1, <1>2, TypeOKStep, SubjectsOnceStep
  <1>4. TicketTypeOK' /\ CallsOfIssues' /\ TicketsHeard'
    BY <1>1, <1>3, TicketTypeOKStep, CallsOfIssuesStep, TicketsHeardStep
  <1>5. IssuesReserved' /\ PaymentStep
    BY <1>1, <1>3, IssuesReservedStep, PaymentStepTaken
  <1>6. ASSUME NEW b \in Bookings
        PROVE  MutationOnce(b)' /\ PaymentFollows(b)'
    BY <1>1, <1>5, MutationOnceStep, PaymentFollowsStep
  <1> QED BY <1>3, <1>4, <1>5, <1>6 DEF TicketInvariant

LEMMA TicketInvariantHolds == TicketSpec => []TicketInvariant
  BY TicketInvariantInit, TicketInvariantStep, PTL DEF TicketSpec

-----------------------------------------------------------------------------
(* Theorems *)

\* Issuing a ticket moves money only as the ledger does: its hold is the payable
\* of the booking, and only the operation that holds it is settled.
THEOREM TicketsImplementLedger == TicketSpec => Spec
  <1>1. TicketInit => Init
    BY DEF TicketInit
  <1>2. TicketInvariant /\ [TicketNext]_ticketVars => [Next]_ledgerVars
    BY TicketStepsLedger DEF TicketInvariant
  <1> QED BY <1>1, <1>2, TicketInvariantHolds, PTL DEF TicketSpec, Spec

\* So balances, holds and the ledger agree and the payer's promise is kept,
\* whichever worker dies, and whatever is retried, reconciled or released.
THEOREM LedgerWholeWithTickets ==
    TicketSpec => /\ [](MoneyConserved /\ HoldsMatchReservations)
                  /\ [](LedgerExplains /\ PaidOnce)
                  /\ KeepsPromise
  BY TicketsImplementLedger, MoneyIsConserved, HoldsCovered, LedgerIsComplete,
     NothingPaidTwice, PromiseIsKept, PTL

\* The supplier is sent one mutation of a booking: the issue and the cancellation
\* exclude each other under the booking row, and no recovery sends again.
THEOREM SupplierAskedOnce == TicketSpec => []OneDispatch
  <1>1. TicketInvariant => OneDispatch
    BY DEF TicketInvariant, MutationOnce, OneDispatch
  <1> QED BY <1>1, TicketInvariantHolds, PTL

\* Until a ticket is proved or two people release it, the money of an issue stays
\* held (wallet::ticket::finalize, nonissuance::decide).
THEOREM MoneyStaysHeld == TicketSpec => []UnknownStaysHeld
  <1>1. TicketInvariant => UnknownStaysHeld
    <2> SUFFICES ASSUME TicketInvariant, NEW b \in Bookings, issue[b] # "none",
                        ~Resolved(b), Approved(b) = {}
                 PROVE  PaymentState(b) \in Live
      BY DEF UnknownStaysHeld
    <2>1. PaymentFollows(b) /\ Reserved(b) /\ TypeOK /\ SubjectsOnce
      BY DEF TicketInvariant, IssuesReserved, TicketTypeOK
    <2>2. PaymentState(b) \in Live \cup Terminal
      BY <2>1, PaymentOf
    <2> QED BY <2>1, <2>2 DEF PaymentFollows, Terminal
  <1> QED BY <1>1, TicketInvariantHolds, PTL

\* A payer is charged only for a ticket the supplier made: what proves an issue
\* was heard from the supplier, by the worker or by a reconciliation.
THEOREM ChargedForTickets == TicketSpec => []ChargedOnlyIfTicketed
  <1>1. TicketInvariant => ChargedOnlyIfTicketed
    BY DEF TicketInvariant, PaymentFollows, TicketsHeard, ChargedOnlyIfTicketed
  <1> QED BY <1>1, TicketInvariantHolds, PTL

LEMMA ReleaseStep ==
    ASSUME TicketInvariant, TicketInvariant', [TicketNext]_ticketVars
    PROVE  ReleasedAsProposed
  <1> SUFFICES ASSUME NEW b \in Bookings,
                      PaymentState(b) # "released", PaymentState(b)' = "released"
               PROVE  /\ Cardinality(Approved(b)') = 1
                      /\ \A q \in Approved(b)' : q.seen = Snapshot(b) /\ q.reviewer # q.by
                      /\ ~signal[b] /\ ~verified[b]
                      /\ issue[b] = "outcome_unknown" /\ response[b] = "nothing"
    BY DEF ReleasedAsProposed
  <1>1. TicketTypeOK /\ PaymentFollows(b) /\ PaymentStep
    BY PaymentStepTaken DEF TicketInvariant, TicketTypeOK
  <1>2. PICK q \in proposals, u \in Reviewers :
           Decide(q, u, "approved") /\ Agreed(q) /\ q.booking = b
    BY <1>1 DEF PaymentStep, PaymentsKept, PaymentMoves, Live
  <1>3. PICK r : /\ Approved(b)' = Approved(b) \cup {r}
                 /\ r.seen = q.seen /\ r.by = q.by /\ r.reviewer = u
    BY <1>1, <1>2, DecideApproved
  <1>4. Approved(b)' = {r}
    BY <1>1, <1>3 DEF PaymentFollows
  <1>5. Cardinality(Approved(b)') = 1
    BY <1>4, FS_Singleton
  <1>6. q.seen = Snapshot(b) /\ u # q.by /\ Releasable(b)
    BY <1>2 DEF Agreed, Decide, MayDecide
  <1> QED BY <1>3, <1>4, <1>5, <1>6 DEF Releasable

\* A hold is given back on evidence that two people saw: nothing of it changed
\* between the proposal and the approval, and none of it shows a ticket
\* (NONISSUANCE_EVIDENCE_CHANGED, NONISSUANCE_NOT_ELIGIBLE).
THEOREM ReleasesApproved == TicketSpec => ReleasedAsProposedAlways
  <1>1. TicketInvariant /\ TicketInvariant' /\ [TicketNext]_ticketVars
          => [ReleasedAsProposed]_ticketVars
    BY ReleaseStep
  <1> QED BY <1>1, TicketInvariantHolds, PTL DEF TicketSpec, ReleasedAsProposedAlways

=============================================================================
