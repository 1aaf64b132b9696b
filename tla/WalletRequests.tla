--------------------------- MODULE WalletRequests ---------------------------
(***************************************************************************)
(* Deposits, adjustments and deposit reversals (src/wallet/workflows.rs and *)
(* the wallet_request_financial_controls trigger): who may ask, who may     *)
(* approve, when an approval posts to the ledger, which external payment it *)
(* claims and which notifications it queues.                               *)
(*                                                                         *)
(* Every command is one transaction under the identity authority lock, so  *)
(* it is one action.  A retry under a request id that exists returns the   *)
(* old row or IDEMPOTENCY_KEY_REUSED and changes nothing.                  *)
(***************************************************************************)
EXTENDS WalletLedger

CONSTANTS
    Customers,   \* users that own wallets: not staff
    Finance,     \* superadmin, admin and staff_account
    NoUser,
    NoRequest,   \* reversal_of IS NULL
    NoPayment,   \* wallet_deposit_payment_identity IS NULL
    Details,     \* what deposits say of the payment
    Canonical    \* lower(btrim(reference_number)), of PostgreSQL

ASSUME UsersAssumption ==
    Customers \cap Finance = {} /\ NoUser \notin Customers \cup Finance
ASSUME NoRequestAssumption == NoRequest \notin Refs

Methods == {"cash", "bank", "bank_transfer", "mobile", "cheque"}

ASSUME DetailsAssumption ==
    \A d \in Details :
        /\ DOMAIN d = {"method", "destination", "day", "reference"}
        /\ d.method \in Methods
        /\ d.reference \in DOMAIN Canonical

VARIABLES
    requests,   \* wallet_requests
    claims,     \* wallet_deposit_payment_claims
    outbox      \* wallet_notifications: what is queued for delivery

requestVars == <<requests, claims, outbox>>
walletVars == <<ledgerVars, requestVars>>

Users == Customers \cup Finance
Postings == Credits \cup {"manual_debit"}

\* The id of a request that was not made.
Unasked == [status |-> "none", posting |-> "none", account |-> NoAccount,
            amount |-> 0, details |-> NoPayment, by |-> NoUser,
            reviewer |-> NoUser, reverses |-> NoRequest]

Request ==
    [status: {"pending", "approved", "rejected"}, posting: Postings,
     account: Accounts, amount: Amounts, details: Details \cup {NoPayment},
     by: Users, reviewer: Users \cup {NoUser}, reverses: Refs \cup {NoRequest}]

Made == {r \in Refs : requests[r].status # "none"}
Deposits == {r \in Made : requests[r].posting = "deposit"}
ApprovedReversals(d) ==
    {r \in Made : requests[r].reverses = d /\ requests[r].status = "approved"}

ReversedUnits(d, except) ==
    {u \in (ApprovedReversals(d) \ {except}) \X (1..MaxMinor) :
        u[2] <= requests[u[1]].amount}

RequestsInit ==
    /\ requests = [r \in Refs |-> Unasked]
    /\ claims = {}
    /\ outbox = {}

-----------------------------------------------------------------------------
(* wallet_deposit_payment_identity *)

\* BUG: a transfer and a bank deposit are different payments.
PaymentIdentityByMethod(d) ==
    IF d.method = "cash" THEN NoPayment
    ELSE <<d.method, d.destination, d.day, Canonical[d.reference]>>

\* What makes two deposits the same incoming payment.  A bank deposit and a
\* bank transfer share one namespace, a mobile transaction id does not depend
\* on the day, and cash has no identifier.  The sender, the owner and the
\* amount are no part of it.  "destination" is the receiving account, with the
\* mobile provider or the bank that issued the cheque.
PaymentIdentity(d) ==
    CASE d.method = "cash" -> NoPayment
      [] d.method = "mobile" ->
            <<"mobile", d.destination, Canonical[d.reference]>>
      [] d.method \in {"bank", "bank_transfer"} ->
            <<"bank", d.destination, d.day, Canonical[d.reference]>>
      [] d.method = "cheque" ->
            <<"cheque", d.destination, d.day, Canonical[d.reference]>>

\* NULL is no payment that can be identified, and no details of one.
ASSUME NoPaymentAssumption ==
    \A d \in Details :
        d # NoPayment /\ (d.method # "cash" => PaymentIdentity(d) # NoPayment)

IdentityOf(r) ==
    IF requests[r].details = NoPayment THEN NoPayment
    ELSE PaymentIdentity(requests[r].details)

-----------------------------------------------------------------------------
(* Queueing notifications *)

Channels(event) ==
    IF event = "deposit_rejected" THEN {"email"} ELSE {"email", "sms"}

Enqueued(r, event) ==
    outbox \cup {[request |-> r, event |-> event, channel |-> c] :
                    c \in Channels(event)}

-----------------------------------------------------------------------------
(* Asking *)

Asked(r, posting, a, amount, details, u, original) ==
    requests' = [requests EXCEPT ![r] =
        [status |-> "pending", posting |-> posting, account |-> a,
         amount |-> amount, details |-> details, by |-> u,
         reviewer |-> NoUser, reverses |-> original]]

\* workflows::deposit: the amount is what is credited, net of a mobile fee.
\* Staff that read wallets cannot make one.
CreateDeposit(r, a, amount, d, u) ==
    /\ u \in Customers
    /\ a \in open
    /\ requests[r].status = "none"
    /\ Asked(r, "deposit", a, amount, d, u, NoRequest)
    /\ outbox' = Enqueued(r, "deposit_requested")
    /\ UNCHANGED <<ledgerVars, claims>>

\* workflows::adjustment
CreateAdjustment(r, a, amount, posting, u) ==
    /\ u \in Finance
    /\ a \in open
    /\ requests[r].status = "none"
    /\ Asked(r, posting, a, amount, NoPayment, u, NoRequest)
    /\ UNCHANGED <<ledgerVars, claims, outbox>>

\* BUG: the approved reversals are not subtracted.
WithinDepositAlone(r, d, amount) == amount <= requests[d].amount

\* DEPOSIT_REVERSAL_EXCEEDS_CREDIT: pending reversals do not count.
WithinDeposit(r, d, amount) ==
    amount <= requests[d].amount - Cardinality(ReversedUnits(d, r))

\* workflows::reverse_deposit: a debit bound to an approved deposit.  The
\* trigger compares the amount at the insert and again at the approval.
CreateReversal(r, d, amount, u) ==
    /\ u \in Finance
    /\ requests[r].status = "none"
    /\ d \in Deposits
    /\ requests[d].status = "approved"
    /\ WithinDeposit(r, d, amount)
    /\ Asked(r, "manual_debit", requests[d].account, amount, NoPayment, u, d)
    /\ UNCHANGED <<ledgerVars, claims, outbox>>

-----------------------------------------------------------------------------
(* Reviewing *)

\* BUG: an approver may approve what he asked for.
MayReviewOwn(r, u) == u \in Finance /\ requests[r].status = "pending"

\* WALLET_SELF_APPROVAL_FORBIDDEN and WALLET_REQUEST_ALREADY_REVIEWED.  The
\* same decision again returns the row and changes nothing.
MayReview(r, u) ==
    /\ u \in Finance
    /\ requests[r].status = "pending"
    /\ u # requests[r].by

Reviewed(r, decision, u) ==
    /\ requests' = [requests EXCEPT ![r].status = decision,
                                    ![r].reviewer = u]
    /\ outbox' = IF r \in Deposits
                 THEN Enqueued(r, IF decision = "approved"
                                  THEN "deposit_approved"
                                  ELSE "deposit_rejected")
                 ELSE outbox

\* DEPOSIT_PAYMENT_ALREADY_CREDITED: another request holds the claim.
PaymentUnclaimed(r) ==
    IdentityOf(r) # NoPayment =>
        \A c \in claims : c.payment = IdentityOf(r) => c.request = r

\* BUG: a payment without identity is claimed as well.
ClaimedNull(r) ==
    IF \E c \in claims : c.payment = IdentityOf(r)
    THEN claims
    ELSE claims \cup {[payment |-> IdentityOf(r), request |-> r]}

\* ON CONFLICT DO NOTHING
Claimed(r) ==
    IF \/ IdentityOf(r) = NoPayment
       \/ \E c \in claims : c.payment = IdentityOf(r)
    THEN claims
    ELSE claims \cup {[payment |-> IdentityOf(r), request |-> r]}

\* workflows::review with the decision "approved".  The posting comes first;
\* the trigger of the update may still abort the transaction, and with it
\* the posting.
Approve(r, u) ==
    /\ MayReview(r, u)
    /\ PostRequest(requests[r].account, requests[r].posting,
                   requests[r].amount, r)
    /\ r \in Deposits => PaymentUnclaimed(r)
    /\ requests[r].reverses # NoRequest =>
          WithinDeposit(r, requests[r].reverses, requests[r].amount)
    /\ claims' = IF r \in Deposits THEN Claimed(r) ELSE claims
    /\ Reviewed(r, "approved", u)

\* workflows::review with the decision "rejected".
Reject(r, u) ==
    /\ MayReview(r, u)
    /\ Reviewed(r, "rejected", u)
    /\ UNCHANGED <<ledgerVars, claims>>

RequestsNext ==
    \/ \E r \in Refs, a \in Accounts, m \in Amounts, d \in Details,
          u \in Users : CreateDeposit(r, a, m, d, u)
    \/ \E r \in Refs, a \in Accounts, m \in Amounts,
          t \in Postings \ {"deposit"}, u \in Users :
          CreateAdjustment(r, a, m, t, u)
    \/ \E r, d \in Refs, m \in Amounts, u \in Users :
          CreateReversal(r, d, m, u)
    \/ \E r \in Refs, u \in Users : Approve(r, u)
    \/ \E r \in Refs, u \in Users : Reject(r, u)

WalletInit == Init /\ RequestsInit

WalletNext ==
    \/ AccountsNext /\ UNCHANGED <<balanceVars, requestVars>>
    \/ LedgerNext /\ UNCHANGED requestVars
    \/ RequestsNext

WalletSpec == WalletInit /\ [][WalletNext]_walletVars

-----------------------------------------------------------------------------
(* Properties *)

\* The types of the request, claim and notification rows.
RequestsTypeOK ==
    /\ requests \in [Refs -> Request \cup {Unasked}]
    /\ \A c \in claims :
          c.request \in Refs /\ c.payment \in {PaymentIdentity(d) : d \in Details} \ {NoPayment}
    /\ \A n \in outbox :
          /\ n.request \in Refs
          /\ n.event \in {"deposit_requested", "deposit_approved",
                          "deposit_rejected"}
          /\ n.channel \in {"email", "sms"}

PostingsOf(r) == {e \in ledger : e.key = <<"request", r>>}

\* A credit or a debit that no operation explains is the one posting of a
\* request that somebody else than its requester approved, for the account
\* and the amount asked (wallet_request_integrity and the CHECK constraints
\* of wallet_requests); a request that is pending or rejected posts nothing.
PostingsAreApproved ==
    /\ RequestsTypeOK
    /\ \A e \in ledger :
          e.type \in Postings =>
              \E r \in Made : requests[r].status = "approved" /\ e \in PostingsOf(r)
    /\ \A r \in Refs :
          IF requests[r].status = "approved"
          THEN /\ requests[r].reviewer # requests[r].by
               /\ requests[r].reviewer \in Finance
               /\ Cardinality(PostingsOf(r)) = 1
               /\ \A e \in PostingsOf(r) :
                     /\ e.account = requests[r].account
                     /\ e.amount = requests[r].amount
                     /\ e.type = requests[r].posting
          ELSE PostingsOf(r) = {}

SamePayment(d, e) ==
    /\ d.method # "cash" /\ e.method # "cash"
    /\ \/ d.method = e.method
       \/ {d.method, e.method} = {"bank", "bank_transfer"}
    /\ d.destination = e.destination
    /\ d.method # "mobile" => d.day = e.day
    /\ Canonical[d.reference] = Canonical[e.reference]

\* Money that came in once is credited once: no two approved deposits are the
\* same payment, whoever asked, through whichever bank channel, however the
\* reference was written; stated without the claims, on what the requests
\* say.  And a claim is held exactly by the approved deposit of its payment: a
\* pending or rejected one never blocks a payment, a reversal never frees it.
PaymentCreditedOnce ==
    /\ \A r, s \in Deposits :
          /\ requests[r].status = "approved"
          /\ requests[s].status = "approved"
          /\ SamePayment(requests[r].details, requests[s].details)
          => r = s
    /\ claims = {[payment |-> IdentityOf(r), request |-> r] :
                    r \in {s \in Deposits : /\ requests[s].status = "approved"
                                            /\ IdentityOf(s) # NoPayment}}

\* However many reversals of a deposit are pending at once, those approved
\* take back at most what it credited, from the account it credited.
ReversalsWithinDeposit ==
    \A d \in Deposits :
        /\ Cardinality(ReversedUnits(d, NoRequest)) <= requests[d].amount
        /\ \A r \in ApprovedReversals(d) :
              /\ requests[d].status = "approved"
              /\ requests[r].account = requests[d].account
              /\ requests[r].posting = "manual_debit"

=============================================================================
