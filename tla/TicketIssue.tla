----------------------------- MODULE TicketIssue -----------------------------
(***************************************************************************)
(* Issuing the ticket of a held booking and paying for it: the reservation *)
(* of src/booking/ticketing.rs, the detached worker that calls the supplier *)
(* and saves what it hears, the reconciliation that reads the supplier when *)
(* it heard nothing, the two-person release of src/wallet/nonissuance.rs and *)
(* the cancellation that excludes it all.                                  *)
(*                                                                         *)
(* A database transaction is one action; everything between two            *)
(* transactions of one request (the supplier call, the gap before the      *)
(* wallet is finalized) is a separate step where others run and where the  *)
(* process may die.  The bookings here are held and stay held: no handler  *)
(* moves a held booking to another state.  What was read from the supplier *)
(* before the reservation, and the ticketing deadline, can only refuse it; *)
(* they are left out.  Ticket reports are only read of a proved issue.     *)
(***************************************************************************)
EXTENDS WalletLedger

CONSTANTS
    ClientOf,    \* flight_bookings.client_id
    Payable,     \* the accepted payable of the booking's price
    Callers,     \* requests that reconcile or verify a saved issue
    Reviewers,   \* who may propose and decide a release
    Proposals,   \* ids of ticket_nonissuance_proposals
    NoReviewer,
    NoBooking,
    MaxReads,    \* bound: reads of the supplier saved per booking
    MaxCrashes   \* bound: process crashes

\* A ticket issue is one per booking, so the booking names the subject.
Bookings == Subjects

ASSUME BookingsAssumption ==
    /\ ClientOf \in [Bookings -> Clients]
    /\ Payable \in [Bookings -> Amounts]
    /\ NoBooking \notin Bookings
ASSUME ReviewersAssumption == NoReviewer \notin Reviewers
ASSUME BoundsAssumption == MaxReads \in Nat /\ MaxCrashes \in Nat

VARIABLES
    issue,        \* flight_ticket_issues.state
    aged,         \* created_at is more than five minutes ago
    response,     \* flight_ticket_issues.original_response
    verified,     \* a flight_ticket_verifications row exists
    reads,        \* number of saved reads: reconciliations, PNR observations
    signal,       \* one of them shows a ticket (ticket_positive_signal)
    worker,       \* the detached task of the issue
    answer,       \* what the worker heard and has not saved
    call,         \* the other requests
    proposals,    \* ticket_nonissuance_proposals and _decisions
    contradicted, \* issues with a wallet.nonissuance.contradicted event
    cancel,       \* flight_cancellations.state
    cancelWorker, \* the detached task of the cancellation
    sent,         \* at the supplier: mutations received per booking
    ticketed,     \* at the supplier: the bookings that have a ticket
    crashes

issueVars == <<issue, aged, response, verified, reads, signal>>
taskVars == <<worker, answer, call, cancelWorker, crashes>>
reviewVars == <<proposals, contradicted>>
supplierVars == <<sent, ticketed>>
ticketVars == <<ledgerVars, issueVars, taskVars, reviewVars, cancel, supplierVars>>

Idle == [at |-> "idle", booking |-> NoBooking, found |-> "nothing"]

\* What the supplier says.  An error and a timeout carry "nothing"; "partial"
\* claims success without verifiable tickets; "unreadable" holds the tickets
\* in a form the validator of the day refuses; "tickets" passes it.
Replies(b) ==
    {"nothing", "partial"}
    \cup (IF b \in ticketed THEN {"unreadable", "tickets"} ELSE {})

TicketInit ==
    /\ Init
    /\ issue = [b \in Bookings |-> "none"]
    /\ aged = [b \in Bookings |-> FALSE]
    /\ response = [b \in Bookings |-> "nothing"]
    /\ verified = [b \in Bookings |-> FALSE]
    /\ reads = [b \in Bookings |-> 0]
    /\ signal = [b \in Bookings |-> FALSE]
    /\ worker = [b \in Bookings |-> "none"]
    /\ answer = [b \in Bookings |-> "nothing"]
    /\ call = [c \in Callers |-> Idle]
    /\ proposals = {}
    /\ contradicted = {}
    /\ cancel = [b \in Bookings |-> "none"]
    /\ cancelWorker = [b \in Bookings |-> "none"]
    /\ sent = [b \in Bookings |-> 0]
    /\ ticketed = {}
    /\ crashes = 0

OperationOf(b) == CHOOSE o \in OpIds : ops[o].subject = b
PaymentState(b) == IF Reserved(b) THEN ops[OperationOf(b)].state ELSE "none"

\* The ticket is proved: by the worker's own answer or by a verification.
Resolved(b) == issue[b] = "issued" \/ verified[b]

-----------------------------------------------------------------------------
(* Reserving: one of the two mutations, once *)

\* BUG: the issue does not look for a cancellation.
NotReservedIssue(b) == issue[b] = "none"

NotReserved(b) == issue[b] = "none" /\ cancel[b] = "none"

\* issue_as: a reservation of the booking under any key is replayed, a
\* cancellation refuses; the issue row and the hold commit together.
ReserveIssue(b, o, a) ==
    /\ NotReserved(b)
    /\ link[ClientOf[b]] = OwnerOf[a]
    /\ Reserve(o, a, b, Payable[b])
    /\ issue' = [issue EXCEPT ![b] = "pending"]
    /\ worker' = [worker EXCEPT ![b] = "spawned"]
    /\ UNCHANGED <<aged, response, verified, reads, signal, answer, call,
                   cancelWorker, crashes, reviewVars, cancel, supplierVars>>

\* cancellation::cancel: an issue or another cancellation refuses.
ReserveCancel(b) ==
    /\ issue[b] = "none" /\ cancel[b] = "none"
    /\ cancel' = [cancel EXCEPT ![b] = "pending"]
    /\ cancelWorker' = [cancelWorker EXCEPT ![b] = "spawned"]
    /\ UNCHANGED <<ledgerVars, issueVars, worker, answer, call, crashes,
                   reviewVars, supplierVars>>

-----------------------------------------------------------------------------
(* The wallet settlement of an issue *)

\* BUG: an unresolved issue gives the money back.
FinalizeUnknownReleased(b) ==
    LET o == OperationOf(b)
    IN  \/ Resolved(b) /\ Settle(o, "captured") /\ UNCHANGED contradicted
        \/ ~Resolved(b) /\ Settle(o, "released") /\ UNCHANGED contradicted
        \/ ops[o].state \in Terminal /\ UNCHANGED <<ledgerVars, contradicted>>

\* BUG: a release is taken as the end, whatever is proved later.
FinalizeReleasedSilent(b) ==
    LET o == OperationOf(b)
    IN  \/ Resolved(b) /\ Settle(o, "captured") /\ UNCHANGED contradicted
        \/ ~Resolved(b) /\ MarkReconciliation(o) /\ UNCHANGED contradicted
        \/ /\ \/ ops[o].state \in Terminal
              \/ ~Resolved(b) /\ ops[o].state = "reconciliation"
           /\ UNCHANGED <<ledgerVars, contradicted>>

\* wallet::ticket::finalize.  A proved ticket is charged, an unknown outcome
\* waits for reconciliation, and what was released is never debited again:
\* late proof only records the contradiction.
Finalize(b) ==
    LET o == OperationOf(b)
    IN  \/ Resolved(b) /\ Settle(o, "captured") /\ UNCHANGED contradicted
        \/ ~Resolved(b) /\ MarkReconciliation(o) /\ UNCHANGED contradicted
        \/ /\ ops[o].state = "released" /\ Resolved(b)
           /\ contradicted' = contradicted \cup {b}
           /\ UNCHANGED ledgerVars
        \/ /\ \/ ops[o].state = "captured"
              \/ ~Resolved(b) /\ ops[o].state \in {"released", "reconciliation"}
           /\ UNCHANGED <<ledgerVars, contradicted>>

-----------------------------------------------------------------------------
(* The worker of an issue *)

Send(b) ==
    /\ worker[b] = "spawned"
    /\ worker' = [worker EXCEPT ![b] = "calling"]
    /\ sent' = [sent EXCEPT ![b] = @ + 1]
    /\ UNCHANGED <<ledgerVars, issueVars, answer, call, cancelWorker, crashes,
                   reviewVars, cancel, ticketed>>

\* The supplier answers, or the call times out.
Answer(b) ==
    /\ worker[b] = "calling"
    /\ \E r \in Replies(b) : answer' = [answer EXCEPT ![b] = r]
    /\ worker' = [worker EXCEPT ![b] = "answered"]
    /\ UNCHANGED <<ledgerVars, issueVars, call, cancelWorker, crashes,
                   reviewVars, cancel, supplierVars>>

\* BUG: an answer that names tickets is taken for proof.
ProvesPartial(r) == r # "nothing"

\* issued_response: every passenger, number and reference agrees.
Proves(r) == r = "tickets"

SaveAnswer(b) ==
    /\ worker[b] = "answered"
    /\ worker' = [worker EXCEPT ![b] = "finalizing"]
    /\ IF issue[b] = "pending"
       THEN /\ issue' = [issue EXCEPT ![b] = IF Proves(answer[b])
                                             THEN "issued" ELSE "outcome_unknown"]
            /\ response' = [response EXCEPT ![b] = answer[b]]
       ELSE UNCHANGED <<issue, response>>
    /\ answer' = [answer EXCEPT ![b] = "nothing"]
    /\ UNCHANGED <<ledgerVars, aged, verified, reads, signal, call,
                   cancelWorker, crashes, reviewVars, cancel, supplierVars>>

\* The authority lock cannot be taken in two seconds: what the supplier said
\* is lost, and the issue stays pending without a worker.
LoseAnswer(b) ==
    /\ worker[b] = "answered"
    /\ worker' = [worker EXCEPT ![b] = "done"]
    /\ answer' = [answer EXCEPT ![b] = "nothing"]
    /\ UNCHANGED <<ledgerVars, issueVars, call, cancelWorker, crashes,
                   reviewVars, cancel, supplierVars>>

WorkerFinalize(b) ==
    /\ worker[b] = "finalizing"
    /\ worker' = [worker EXCEPT ![b] = "done"]
    /\ Finalize(b)
    /\ UNCHANGED <<issueVars, answer, call, cancelWorker, crashes, proposals,
                   cancel, supplierVars>>

\* The same lock times out in finalize: logged, and left to a later request.
WorkerFinalizeBusy(b) ==
    /\ worker[b] = "finalizing"
    /\ worker' = [worker EXCEPT ![b] = "done"]
    /\ UNCHANGED <<ledgerVars, issueVars, answer, call, cancelWorker, crashes,
                   reviewVars, cancel, supplierVars>>

-----------------------------------------------------------------------------
(* Requests that recover an issue *)

Calling(c, at, b, found) ==
    call' = [call EXCEPT ![c] = [at |-> at, booking |-> b, found |-> found]]

\* verify_saved: a saved answer that a later validator accepts.
VerifySaved(c, b) ==
    /\ call[c] = Idle
    /\ \/ issue[b] = "issued" /\ UNCHANGED verified
       \/ /\ issue[b] = "outcome_unknown" /\ response[b] = "unreadable"
          /\ verified' = [verified EXCEPT ![b] = TRUE]
    /\ Calling(c, "finalizing", b, "nothing")
    /\ UNCHANGED <<ledgerVars, issue, aged, response, reads, signal, worker,
                   answer, cancelWorker, crashes, reviewVars, cancel, supplierVars>>

\* reconcile_owned up to the supplier reads: a resolved issue goes on to the
\* wallet, a young pending one is TICKET_ISSUE_IN_PROGRESS.
StartReconcile(c, b) ==
    /\ call[c] = Idle
    /\ issue[b] # "none"
    /\ IF Resolved(b)
       THEN Calling(c, "finalizing", b, "nothing")
       ELSE /\ issue[b] = "pending" => aged[b]
            /\ reads[b] < MaxReads
            /\ Calling(c, "reading", b, "nothing")
    /\ UNCHANGED <<ledgerVars, issueVars, worker, answer, cancelWorker, crashes,
                   reviewVars, cancel, supplierVars>>

\* The PNR and the report, read outside any transaction; an error of the
\* supplier is "nothing" too.
ReadSupplier(c) ==
    /\ call[c].at = "reading"
    /\ \E r \in Replies(call[c].booking) :
          Calling(c, "saving", call[c].booking, r)
    /\ UNCHANGED <<ledgerVars, issueVars, worker, answer, cancelWorker, crashes,
                   reviewVars, cancel, supplierVars>>

\* The second half of reconcile_owned, under the issue row: what was read is
\* kept whatever it says, and proves the issue if nothing else did before and
\* it names the tickets of a success the worker saved (pnr_tickets_match).
SaveRead(c) ==
    LET b == call[c].booking
    IN  /\ call[c].at = "saving"
        /\ reads[b] < MaxReads
        /\ reads' = [reads EXCEPT ![b] = @ + 1]
        /\ signal' = [signal EXCEPT ![b] = @ \/ call[c].found # "nothing"]
        /\ \E match \in BOOLEAN :
              /\ response[b] = "nothing" => match
              /\ verified' = [verified EXCEPT ![b] =
                    @ \/ (~Resolved(b) /\ Proves(call[c].found) /\ match)]
        /\ Calling(c, "finalizing", b, "nothing")
        /\ UNCHANGED <<ledgerVars, issue, aged, response, worker, answer,
                       cancelWorker, crashes, reviewVars, cancel, supplierVars>>

\* reconcile_owned of a booking: its PNR is read and the observation kept,
\* under the booking row that a release locks as well.
Observe(b) ==
    /\ issue[b] # "none"
    /\ reads[b] < MaxReads
    /\ reads' = [reads EXCEPT ![b] = @ + 1]
    /\ \E r \in Replies(b) :
          signal' = [signal EXCEPT ![b] = @ \/ r # "nothing"]
    /\ UNCHANGED <<ledgerVars, issue, aged, response, verified, taskVars,
                   reviewVars, cancel, supplierVars>>

CallerFinalize(c) ==
    /\ call[c].at = "finalizing"
    /\ Finalize(call[c].booking)
    /\ call' = [call EXCEPT ![c] = Idle]
    /\ UNCHANGED <<issueVars, worker, answer, cancelWorker, crashes, proposals,
                   cancel, supplierVars>>

\* The authority lock times out or the database fails: the caller gets an error.
CallerGivesUp(c) ==
    /\ call[c].at \in {"reading", "saving", "finalizing"}
    /\ call' = [call EXCEPT ![c] = Idle]
    /\ UNCHANGED <<ledgerVars, issueVars, worker, answer, cancelWorker, crashes,
                   reviewVars, cancel, supplierVars>>

-----------------------------------------------------------------------------
(* Releasing the hold of an issue that made no ticket *)

\* BUG: a pending issue can be released while its worker runs.
ReleasablePending(b) ==
    /\ issue[b] \in {"pending", "outcome_unknown"}
    /\ ~verified[b] /\ ~signal[b] /\ response[b] = "nothing"
    /\ cancel[b] = "none"
    /\ PaymentState(b) \in Live

\* inspect: no worker may still answer and nothing that was ever heard shows
\* a ticket.
Releasable(b) ==
    /\ issue[b] = "outcome_unknown"
    /\ ~verified[b] /\ ~signal[b] /\ response[b] = "nothing"
    /\ cancel[b] = "none"
    /\ PaymentState(b) \in Live

\* What snapshotHash is computed from.
Snapshot(b) == <<issue[b], response[b], verified[b], reads[b], PaymentState(b)>>

Propose(p, b, u) ==
    /\ \A q \in proposals : q.id # p
    /\ Releasable(b)
    /\ proposals' = proposals \cup
          {[id |-> p, booking |-> b, by |-> u, seen |-> Snapshot(b),
            decision |-> "none", reviewer |-> NoReviewer]}
    /\ UNCHANGED <<ledgerVars, issueVars, taskVars, contradicted, cancel,
                   supplierVars>>

\* BUG: the evidence is not compared with what was proposed.
AgreedStale(q) == Releasable(q.booking)

\* releasable: NONISSUANCE_NOT_ELIGIBLE and NONISSUANCE_EVIDENCE_CHANGED.
Agreed(q) == Releasable(q.booking) /\ Snapshot(q.booking) = q.seen

MayDecide(q, u) == q.decision = "none" /\ u # q.by

\* A rejection needs no evidence; an approval releases in its transaction.
Decide(q, u, d) ==
    /\ MayDecide(q, u)
    /\ proposals' = (proposals \ {q}) \cup
                       {[q EXCEPT !.decision = d, !.reviewer = u]}
    /\ \/ /\ d = "approved" /\ Agreed(q)
          /\ Settle(OperationOf(q.booking), "released")
       \/ d = "rejected" /\ UNCHANGED ledgerVars
    /\ UNCHANGED <<issueVars, taskVars, contradicted, cancel, supplierVars>>

-----------------------------------------------------------------------------
(* The worker of a cancellation *)

SendCancel(b) ==
    /\ cancelWorker[b] = "spawned"
    /\ cancelWorker' = [cancelWorker EXCEPT ![b] = "calling"]
    /\ sent' = [sent EXCEPT ![b] = @ + 1]
    /\ UNCHANGED <<ledgerVars, issueVars, worker, answer, call, crashes,
                   reviewVars, cancel, ticketed>>

\* The outcome is saved, or the database fails and it stays pending.
SaveCancel(b) ==
    /\ cancelWorker[b] = "calling"
    /\ cancelWorker' = [cancelWorker EXCEPT ![b] = "done"]
    /\ \E outcome \in {"pending", "cancelled", "outcome_unknown"} :
          cancel' = [cancel EXCEPT ![b] = outcome]
    /\ UNCHANGED <<ledgerVars, issueVars, worker, answer, call, crashes,
                   reviewVars, supplierVars>>

-----------------------------------------------------------------------------
(* Everything else *)

\* The supplier makes the ticket, before or after it answers.
SupplierTickets(b) ==
    /\ sent[b] > 0 /\ issue[b] # "none"
    /\ ticketed' = ticketed \cup {b}
    /\ UNCHANGED <<ledgerVars, issueVars, taskVars, reviewVars, cancel, sent>>

\* Five minutes pass since the issue was reserved.
Age(b) ==
    /\ issue[b] = "pending"
    /\ aged' = [aged EXCEPT ![b] = TRUE]
    /\ UNCHANGED <<ledgerVars, issue, response, verified, reads, signal,
                   taskVars, reviewVars, cancel, supplierVars>>

Stopped(tasks) ==
    [b \in Bookings |-> IF tasks[b] = "none" THEN "none" ELSE "done"]

\* Detached tasks and requests live in one process and die with it.
Crash ==
    /\ crashes < MaxCrashes
    /\ crashes' = crashes + 1
    /\ worker' = Stopped(worker)
    /\ cancelWorker' = Stopped(cancelWorker)
    /\ answer' = [b \in Bookings |-> "nothing"]
    /\ call' = [c \in Callers |-> Idle]
    /\ UNCHANGED <<ledgerVars, issueVars, reviewVars, cancel, supplierVars>>

\* The rest of the wallet: accounts are opened, linked, frozen and funded.
Funding ==
    /\ \/ AccountsNext /\ UNCHANGED balanceVars
       \/ \E a \in Accounts, m \in Amounts, r \in Refs :
             PostRequest(a, "deposit", m, r)
    /\ UNCHANGED <<issueVars, taskVars, reviewVars, cancel, supplierVars>>

WorkerStep(b) ==
    \/ Send(b) \/ Answer(b) \/ SaveAnswer(b) \/ LoseAnswer(b)
    \/ WorkerFinalize(b) \/ WorkerFinalizeBusy(b)

CallerStep(c) ==
    \/ \E b \in Bookings : VerifySaved(c, b) \/ StartReconcile(c, b)
    \/ ReadSupplier(c) \/ SaveRead(c) \/ CallerFinalize(c) \/ CallerGivesUp(c)

ReviewStep ==
    \/ \E p \in Proposals, b \in Bookings, u \in Reviewers : Propose(p, b, u)
    \/ \E q \in proposals, u \in Reviewers, d \in {"approved", "rejected"} :
          Decide(q, u, d)

BookingStep(b) ==
    \/ \E o \in OpIds, a \in Accounts : ReserveIssue(b, o, a)
    \/ ReserveCancel(b) \/ SendCancel(b) \/ SaveCancel(b)
    \/ Observe(b) \/ SupplierTickets(b) \/ Age(b)

TicketNext ==
    \/ \E b \in Bookings : BookingStep(b) \/ WorkerStep(b)
    \/ \E c \in Callers : CallerStep(c)
    \/ ReviewStep
    \/ Crash
    \/ Funding

TicketSpec == TicketInit /\ [][TicketNext]_ticketVars

\* Every request ends: its reads time out and its locks do.
RequestsEnd ==
    \A c \in Callers :
        WF_ticketVars(ReadSupplier(c) \/ SaveRead(c) \/ CallerFinalize(c)
                      \/ CallerGivesUp(c))

\* A client or an operator keeps asking for the reconciliation of an issue
\* whose ticket is proved, and not every one of those requests fails.
Recovery ==
    \A c \in Callers, b \in Bookings :
        /\ SF_ticketVars(Resolved(b) /\ StartReconcile(c, b))
        /\ SF_ticketVars(call[c].booking = b /\ CallerFinalize(c))

FairTicketSpec == TicketSpec /\ RequestsEnd /\ Recovery

-----------------------------------------------------------------------------
(* Properties *)

Answers == {"nothing", "partial", "unreadable", "tickets"}

Call ==
    [at: {"idle", "reading", "saving", "finalizing"},
     booking: Bookings \cup {NoBooking}, found: Answers]

Seen ==
    {"none", "pending", "issued", "outcome_unknown"} \X Answers \X BOOLEAN
        \X (0..MaxReads) \X (Live \cup Terminal \cup {"none"})

Proposal ==
    [id: Proposals, booking: Bookings, by: Reviewers, seen: Seen,
     decision: {"none", "approved", "rejected"},
     reviewer: Reviewers \cup {NoReviewer}]

\* The types of the ticketing rows, tasks and supplier state.
TicketTypeOK ==
    /\ TypeOK
    /\ issue \in [Bookings -> {"none", "pending", "issued", "outcome_unknown"}]
    /\ {aged, verified, signal} \subseteq [Bookings -> BOOLEAN]
    /\ {response, answer} \subseteq [Bookings -> Answers]
    /\ reads \in [Bookings -> 0..MaxReads]
    /\ worker \in [Bookings -> {"none", "spawned", "calling", "answered",
                                "finalizing", "done"}]
    /\ call \in [Callers -> Call]
    /\ proposals \subseteq Proposal
    /\ contradicted \subseteq Bookings /\ ticketed \subseteq Bookings
    /\ cancel \in [Bookings -> {"none", "pending", "cancelled", "outcome_unknown"}]
    /\ cancelWorker \in [Bookings -> {"none", "spawned", "calling", "done"}]
    /\ sent \in [Bookings -> Nat]
    /\ crashes \in 0..MaxCrashes

\* The supplier receives at most one mutation of a booking, an issue or a
\* cancellation, whatever is retried, lost or crashes.
OneDispatch == TicketTypeOK /\ \A b \in Bookings : sent[b] <= 1

Approved(b) == {q \in proposals : q.booking = b /\ q.decision = "approved"}

\* Until there is proof or an approved release, the money of an issue stays
\* held: no timeout, lost answer, crash or failed read frees or takes it.
UnknownStaysHeld ==
    \A b \in Bookings :
        issue[b] # "none" /\ ~Resolved(b) /\ Approved(b) = {} =>
            PaymentState(b) \in Live

\* A payer is charged only for a ticket that exists at the supplier.
ChargedOnlyIfTicketed ==
    \A b \in Bookings : PaymentState(b) = "captured" => b \in ticketed

\* A release is approved on the evidence it was proposed on, by one person
\* who did not propose it: between the two no read was saved, nothing was
\* verified, the payment did not move, and the worker had ended without
\* hearing of a ticket.
ReleasedAsProposed ==
    \A b \in Bookings :
        PaymentState(b) # "released" /\ PaymentState(b)' = "released" =>
            /\ Cardinality(Approved(b)') = 1
            /\ \A q \in Approved(b)' : q.seen = Snapshot(b) /\ q.reviewer # q.by
            /\ ~signal[b] /\ ~verified[b]
            /\ issue[b] = "outcome_unknown" /\ response[b] = "nothing"

ReleasedAsProposedAlways == [][ReleasedAsProposed]_ticketVars

\* Proof of a ticket reaches the wallet: the hold is charged, or, when it had
\* been released, the contradiction is recorded for the staff.
ProofIsSettled ==
    \A b \in Bookings :
        Resolved(b) ~> \/ PaymentState(b) = "captured"
                       \/ PaymentState(b) = "released" /\ b \in contradicted

=============================================================================
