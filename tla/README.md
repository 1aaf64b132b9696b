# A specification of Shapon Travels

TLA+ modules, TLC runs and TLAPS proofs beside the Shapon Travels API, a Rust
(Axum) service over PostgreSQL that searches, holds, tickets and cancels
flights at external suppliers, is paid from wallets, and manages the identity
of its portal users at an external provider (Clerk).

Source paths are relative to the repository. `PROJECT.json` maps every
definition that models code to the lines it stands for.

## 1. Inventory

Almost every state of this system is a database row, every handler is one or
more PostgreSQL transactions, and what makes it hard lies between the
transactions: a supplier or provider call without a database lock, a detached
task, a lease, a second person who decides later.

| Component | State | Operations | Hard behaviour | Correct when |
|---|---|---|---|---|
| **Wallet ledger** (`src/wallet/core.rs`, migrations 0029, 0060) | owners, accounts, client links, operations, ledger entries | provision, link, freeze; reserve, settle, reconcile, refund, post a request | retries under old and new ids, partial refunds, freezing between hold and settlement | balances, operations and ledger agree; money is conserved; a subject is paid once |
| **Wallet requests** (`src/wallet/workflows.rs`, 0030, 0059) | requests, payment claims, queued notifications | deposit, adjustment, reversal, approve, reject | two approvers, the same payment asked twice, several pending reversals | only what another person approved posts, once; a payment is credited once |
| **Ticket issue** (`src/booking/ticketing.rs`, `ticket_reconciliation.rs`, `src/wallet/ticket.rs`, `nonissuance.rs`, `src/booking/cancellation.rs`) | issue, saved response, verification, reads, proposals, cancellation; tasks in memory; tickets at the supplier | issue, worker, verify, reconcile, observe, finalize, propose, decide, cancel | lost answers, crashes, late tickets, reads outside transactions | one mutation is sent; unknown stays held; charged only if ticketed; released only by two |
| **Identity outbox** (`src/identity/effects.rs`, `clerk.rs`, 0036) | operations, effects with state, fence, lease, attempts; data and sessions at the provider | claim, deliver, observe, finish, recover, reconcile | lost, late and partly applied requests, dead workers, stale claims | a user's effects happen in order, an unknown one is never resent, the last decision is mirrored |
| **Identity changes** (`src/identity.rs`, `operations.rs`, `agencies.rs`) | users, roles, status, versions, agencies, memberships | change role or access, provision and reactivate an agency, rename | two administrators at once, replay, invalidation of sub-users | a superadmin remains; one change per version; an agency works only while its owner does |
| **Identity deletions, inbox and recovery** (`deletions.rs`, `inbox.rs`, `recovery.rs`, 0040-0042) | intents with a fenced claim, proofs, reported events | prepare, claim, dispatch, report, observe, finalize, cancel; contain | a freeze to be undone or completed, an answer lost, an account deleted at the provider meanwhile | what was denied stays denied; nothing is left behind; a deletion frees no money |
| **Identity creates, invitations and onboarding** (`creates.rs`, `invitations.rs`, `provisioning.rs`, `api.rs`) | a row per operation with a fenced claim | prepare, claim, dispatch, report, observe, revoke, finalize, accept, onboard | crash between provider and database; the issuer loses the right meanwhile | nothing that may have been applied is sent again; nobody gets in but by a standing authority |
| **Identity applications, profiles and documents** (`applications.rs`, `documents.rs`, `profiles.rs`, `phase5.rs`, 0043, 0044) | versioned applications, profiles, slots and assets | submit, review, accept, start and finish an upload, remove, edit | people act on what they read before; an upload lies between two transactions | decided, published and edited as read; what was accepted stays |
| **Identity mail and notices** (`mail.rs`, `identity/notifications.rs`) | queued mails and notices, fenced and leased | claim, start, report, abandon | a worker or a receiver that vanished while sending | nothing is sent twice by machines |
| **Identity reads, names and rollout** (`business.rs`, `rollout.rs`, `preflight.rs` ...) | the context of a request, search sessions, rollout pins | admit, recheck, serve a command; issue, find and use a search session; the barrier of business writes, reads | authority that changes while the provider is asked | a request acts by the rights its actor has at that moment |
| **Booking holds** (`src/booking.rs`, `booking/direct.rs`, `admin_bookings.rs`, `portal_holds.rs`) | bookings, late outcomes, PNR observations, drafts | book, worker, observe, resolve by hand, direct issue; draft, price, accept, submit | answers after a manual resolution, overlapping observations | one hold per key; the newest observation wins; nothing late overwrites a decision |
| **Ticket management** (`src/wallet/ticket_management/`) | requests, quotes, entitlement claims, settlements | ask, quote, approve, settle, reopen, complete, expire | quote expiry against approval, claims, split of refunds | an entitlement has one active request; a refund is exactly what was agreed |
| **Wallet notifications and settings** (`notifications.rs`, `settings.rs`) | events, deliveries with claims; versioned settings | prepare, send, complete, recover, retry | a worker that vanished while sending | an unknown delivery is repeated only on purpose |
| **Wallet portal and reports** (`portal.rs`, `reads.rs`, `reports.rs`, `money.rs`) | none of their own | commands above; reads | a snapshot over several tables | totals agree with the ledger |
| **Search and reprice** (`search*.rs`, `reprice*.rs`, `cleanup.rs`) | permits in memory; offers and their versions | search, reprice, accept, clean up | permits dropped with a body, budgets shared by routers; a supplier call under a row lock | limits hold; only the latest valid price is accepted |
| **Pricing and projection** (`pricing.rs`, `markup.rs`, `tier.rs`, `selection.rs`, `fare_breakdown.rs`, `projection.rs`) | none | pure functions | rounding, precedence of rules | totals are exact |
| **Authentication and clients** (`auth*.rs`, `api_management.rs`, `connections.rs`) | clients, credentials, sessions, rate windows | authenticate, rotate, limit | a credential revoked during a request | a revoked credential admits nobody |
| **Portal imports** (`portal_imports*`, 0055-0057) | price rules, quotes, imports, payments | prepare, authorize, import, change the status | rules, agencies and funds change between the review and the charge | charged once, what was reviewed, to the agency it was reviewed for |
| **Supplier adapters**, **shell** | none | HTTP, JSON, routing | - | - |

**How they interact.** Ticket issue, ticket management and portal imports call
the ledger inside their own transactions. Requests post to it when approved and
queue notifications. Everything that moves money or changes a user first takes
one advisory lock, the *identity authority lock* (two seconds, then
`IDENTITY_OPERATION_BUSY`), so those transactions are serialized: a transaction
is one atomic action in every module, and the steps between transactions are
actions of their own, where other actors run and where the process may die.

## 2. Modules

| Module | Models | Depends on |
|---|---|---|
| `WalletAccounts` | owners, accounts, links, freezing | - |
| `WalletLedger` | `wallet_apply_posting` and its callers | `WalletAccounts` |
| `WalletPromise` | what the ledger promises the payer, abstractly | - |
| `WalletRequests` | deposits, adjustments, reversals, reviews, claims, queued notifications | `WalletLedger` |
| `TicketIssue` | ticket issue, recovery, release and cancellation, with the supplier and crashes | `WalletLedger` |
| `HoldBooking` | search snapshot, price revisions, reservation, worker, reads and manual decision of a booking | - |
| `TicketManagement` | requests for refunds, reissues and voids, their quotes, claims, holds and settlement | the promise of the wallet |
| `IdentityEffects` | status changes and the provider outbox, with the provider | - |
| `IdentityAuthority` | roles, access, agencies, deletions, events of the provider | - |
| `IdentityAccounts` | creates, invitations, sign-up and onboarding | `IdentityAuthority` |
| `IdentityPapers` | applications, documents and profiles, read and acted on later | - |
| `Deliveries` | the outboxes of identity mail, wallet events and ticket notices, with their senders | - |
| `SearchAdmission` | slots, daily budgets and dispatch of searches; admission of price checks | - |
| `PortalDrafts` | drafts of the portal from the offer to the booking, cleanup of offers | - |
| `PortalImports` | imported bookings and what they charge | - |
| `BusinessGate` | commands of the portal and search sessions: admission, and what still stands when they act | - |
| `MC*` | instances for TLC; `MCService` has one for the last six of these | |
| `WalletLedgerProofs` | theorems about `WalletLedger`, the refinement of `WalletPromise` among them | `WalletLedger` |
| `LedgerUsersProofs` | theorems about `WalletRequests` and `TicketIssue`, and that they implement the ledger | `WalletLedgerProofs` |
| `HoldBookingProofs`, `TicketManagementProofs` | theorems about the modules of these names | - |
| `OutboxProofs` | theorems about `IdentityEffects` and `Deliveries` | - |
| `IdentityProofs` | theorems about `IdentityAuthority`, alone, and about `IdentityAccounts` on top of it | - |
| `ServiceProofs` | theorems about `BusinessGate`, `PortalDrafts`, `IdentityPapers`, `SearchAdmission` and `PortalImports` | - |
| `SumTheorems` | lemmas on sums over finite sets, for the proofs that count or add | - |

**WalletLedger.** `Post` is the SQL function `wallet_apply_posting` of
migration 0060, its guards in the order of the function: idempotency, the
operation it settles, the freeze, the funds. `Reserve`, `Settle`,
`MarkReconciliation`, `PostRequest` and `PostRefund` are its callers. A repeated
posting changes nothing in the code (it returns the old entry or an error), so
it is a disabled action. `CHECK` constraints that callers can run into are
guards; `UNIQUE` indexes and the deferred integrity triggers are *not* guards:
they are the invariants, so that the model shows that the code never needs
them. Sums are counted as the cardinality of sets of minor units.

**WalletRequests** extends it with the request rows. `Approve` posts first and
updates second, as the code does, with the trigger
`wallet_request_financial_controls` as its last guard. `Canonical` is the
`lower(btrim(...))` of a reference number: a function on model values.
`PaymentCreditedOnce` is stated on what the deposits say, without the claims.

**TicketIssue** extends the ledger with the issue of a held booking.
`worker[b]` is the detached task of `issue_as`, `call[c]` a request that
reconciles, `answer` and `call.found` what they have heard and not saved.
`Replies` are the kinds of answers a supplier can give: nothing (an error, a
timeout), partial, unreadable by the validator of the day, and tickets that
pass it. `SupplierTickets` happens at any time after the request was sent.
`Crash` stops every task. Direct issues are not in it: their rows have
`wallet_required = false` and move no money.

**HoldBooking** follows one client from an offer to a decided booking. Three
waits make steps of their own: a search between its snapshot of the connection
and its insert, `StartReprice` to `SavePrice` with the offer row locked over
the supplier's call, and `Quote` to `Reserve`, where Book holds the authority
lock, has read its price and waits for that row. `authenticated` are the
contexts a request in flight may carry: authentication reads the client long
before Book locks it, so a request can be as old as any update. A booking is
named by its key and carries its columns, the set of its observations and the
number of reads begun, which stands for the database clock of
`reconcile_owned`. `interrupted` and `refused` are history, kept apart from the
epoch and the flag that the code decides by. The model takes the API path of
Book; the portal path also compares the client's context under the lock. Its
`DecidedStands` is what `TicketIssue` assumes of a held booking.

**TicketManagement** is every command of `store.rs` on the tickets of one
booking: ask, quote, decide, assign, reserve, settle, release, expire. A ticket
(`entitlements`) is a passenger's ticket number and remembers how much of its
cost each payment bears, because a reissued ticket is paid by the issue and by
the quotation that reissued it, and `credits` splits a refund over both: slice
after slice of its `funding`, in the order of the passengers (`Earlier`). The
wallet is what `WalletPromise` says of it: purchases that are held, charged,
returned and refunded, named by their subjects. The abstraction is sound
because `ledger` shows that `WalletLedger` implements that promise.

**IdentityAuthority** keeps the registry (`user`), the agencies, the accounts at
the provider, and one row per operation. A change and the start of a deletion
are two steps, the check of what the administrator saw and the write, so that
the property "one change per version" is about the lock and the version and not
about the granularity of the model. A deletion carries a fenced and leased
claim to the provider; `calls` are the
claims whose worker has not reported, `wire` the requests that may still be
applied, so that a report and what happened can come apart. `barred` are the
people of whom the provider reported the end, and is history.

**IdentityAccounts** extends it with the creates and invitations: the same
claims, calls and `wire`; `remote` is what the provider made of an operation,
`looks` are proofs read from it and not yet used. `AdmittedByAuthority` compares
every grant of `FinalizeCreate`, `Accept` and `Onboard` with who asked, what that
person may grant at that moment, and the account at the provider.

**Deliveries** has three machines that share their shape: a row, a claim under a
fence, a send that a transport outside the service carries out or not, and a
report. The wallet's also expand one event into deliveries and let finance ask
for another try, which is the only thing that may repeat an unknown one.

**SearchAdmission** follows each search from the queue of its router to the last
byte of its body, with the futures of the handler dropped at any await (`Cancelled`),
and the claims on the budgets of the actor and of each supplier in the order of
`search_controls.rs`. The budget lives in the database and is shared by the
routers; the slots live in each process.

**PortalDrafts** has requests in memory (`calls`), each with what its first lookup
found. The price check of a draft commits on a connection of its own while the
request holds the authority lock, so its revision stands even when the request
ends: `QuotePriced` and `QuoteSaved`. Where `HoldBooking` has the waits inside RePrice and Book, this
module has one step, and adds what happens around them.

**PortalImports** prepares, authorizes and imports bookings of other systems.
What the staff enters or a supplier returns is chosen anew at each look; the
authorization must find what the preparation found. Of the wallet it keeps what an
agency can spend and what imports captured.

**IdentityPapers** gives every person one thing read (`seen`), a paper with the
versions it had; every command acts on it at any later time. Uploads are the
two transactions `StartUpload` and the one that finishes it, with the outcome
reported, unknown or never.

**BusinessGate** is what lies between the admission of a command and its handler.
`execution[x]` is the task-local `CONTEXT`: the actor, the others it concerns, the
versions they were seen at and the clients that were pinned. `Admit` and `Recheck`
are the two transactions of `execute`, `Serve` the one of the handler, whose first
call is `begin`; people, agencies and clients change between them. A token of a
search session is found without the lock (`FindSession`), recognised under it
(`Authenticate`) and compared again where it accepts a price. What the handlers do
is in the modules of their components.

**Composition.** `WalletRequests` and `TicketIssue` extend the ledger, and
`IdentityAccounts` the registry, so their runs have the steps of both.
`TicketManagement`
rests on the promise. `PortalDrafts` and
`HoldBooking` are two views of one path and are not composed: the first takes
from the second that RePrice and Book are atomic towards each other. In
`MCService` the six modules of the last rows share no variable; `part` chooses
which one of their nine machines a behaviour runs, so the run is the union of
nine state spaces and not their product.

**IdentityEffects** models an effect row as a record; its place in the sequence
is the order of `portal_identity_effects.sequence`. `Claim` recovers what
expired, supersedes obsolete mirrors in order and takes the first effect that
is not blocked. `claims[w]` is what a worker holds in memory, `inFlight` the
requests that left and may be applied at any later time or never, `shown` the
effect whose data the provider has, `sessions` its sessions, each with the
number of effects queued before it began. Roles and authorization are left out;
the change is one of status. `SubsOf` gives the sub-users of an owner.

## 3. Runs

| Run | Instance | Shows |
|---|---|---|
| `ledger` | 2 accounts of 2 owners, 2 operations, 2 subjects, 2 request ids, amounts {1, 2}, limit 2, 7 postings | balances, operations and ledger agree; money conserved; a subject paid once; `WalletPromise` is implemented |
| `requests` | 4 requests, 8 kinds of deposits (four requests, or three beside a purchase: those in cash), 1 customer, 2 approvers, amount 1, limit 2 | approvals, one credit per payment in every channel, competing reversals within their deposit |
| `ticket_one` | 1 booking, 2 recovering requests, 2 reviewers, 2 proposals, 2 reads, 1 crash | dispatch, holds, charges and releases |
| `ticket_recovery` | 1 booking, 1 request, fair | proof reaches the wallet |
| `hold` | 1 offer, 2 bookings, 2 prices, 1 interruption, 2 reads, 1 crash | sold as accepted, uninterrupted, sent once, decided on what is known, newest read and deadline |
| `hold_context` | 1 booking, 2 contexts | **violated**, see below |
| `management` | 3 requests, 2 passengers, fees {0, 2}, differences {0, 1}, 2 quotes each, funds 2 | one request per ticket; the balance is what was agreed; what was agreed can be settled; settled as seen |
| `identity_agency` | owner and sub-user, 1 worker, 4 effects, 2 attempts, fair | order across operations, confirmation, nothing overwritten at the provider, the final mirror, no claim held for ever |
| `identity_sub_status` | owner and sub-user, 1 worker, 6 effects | **violated**, see below |
| `authority` | 2 superadmins, an owner, a sub-user, 2 operations | a superadmin remains, one change per version, agencies follow owners, denials last, deletions are complete |
| `accounts` | superadmin, admin, owner, 2 newcomers, 2 operations | safe to resend, agency limit, admission by authority |
| `service` | nine machines of six modules | nothing sent twice; budgets and slots; booked as priced; charged as reviewed; papers in order; acted by the authority of the moment |

Most properties have several conjuncts, one per way to go wrong; the comment
before each says which. A type invariant is the first conjunct of the
property that needs it: of `StartedInOrder` (`EffectsTypeOK`), `OneDispatch`,
`PostingsAreApproved`, `DispatchedOnce`, `OneRequestPerTicket`,
`OneChangePerVersion`, `SafeToResend`, the ledger's `MoneyConserved` and the six
of `service`.

**Bounds.** Two operations of two amounts reach the interesting cases of a
posting: exactly enough, too little, at the limit, two partial refunds, one too
many; a request id and a refund id share the set `Refs` but not their keys, so
two ids allow two credits and two refunds. `MaxPostings = 7` of both accounts are
enough to reserve, settle and refund with both ids. Three requests allow three deposits
that claim one payment; four allow a deposit, another credit and two competing
reversals, so that funds alone do not stop the second one. `MaxReads = 2` lets
a read be saved between a proposal and its approval and again after it; one
crash is enough because a crash loses all tasks and a second one finds none
that a later request did not start. Two bookings need no run of their own: they
share nothing but the account, whose operations are independent in `ledger`.

In `hold` two prices let one be superseded under the eyes of a waiting Book, two
keys compete for a direct offer, and two reads overlap; they are explored only
while there is one booking (`MCReadsOfOne`), as bookings share nothing but their
offer.

In `management` three requests are what it takes to refund a ticket that was
reissued, while another ticket of the same payment was refunded: the third
request comes only after two reissues and is that refund, and a second quote only for a reissue of
one ticket, whose price may go either way (`MCBound`).

In `identity_agency` four effects are two status changes of one user, or one of
the owner and what it queues for the sub-user, so that a mirror of the first is
obsolete, late or repeated against the second; `MaxAttempts = 2` stands for 5.
One worker is enough because what a stopped worker sent stays in flight while
its successor goes on. `MaxFence` bounds the reconciliations of one effect,
which the code repeats without limit. Each of the two has one session at a time,
and the owner signs in again after a change of its own (`MCBound`).

In `authority` two operations let two administrators act on each other, on one
person, or one of them delete what the other changes; versions up to 4 let one
change be seen and followed by another; one account is deleted at the provider
and only the owner's is reported, in either order of reports. In `accounts` one
newcomer is created or invited in every way and the second one only takes the
last place of the agency; claims of both operations together are three, because
a stale claim needs two and its effect on a second operation one more.

In `service`: two mails, notices and events, two tries each, two recipients, and
in the wallet's outbox one expansion with three sends or two with two; three
searches by two people over two routers of one slot and one place in the queue,
which arrive in a fixed order and may wait at will, two suppliers, two days, one
change of a limit, and only the first search asks both suppliers and may fail or be
lost; three prices of two clients; one offer, one draft, two requests at once, three
contexts of which the owner's programs know two; two bookings of which one is
entered by hand, two agencies, two prepared quotes, and beside them one of a freeze,
a lapse or funds of the second agency; one application with one document, or the
logo of an agency, two administrators of whom one reads once, and one thing that
changes beside; of the gate two requests and one search session of a superadmin, an
administrator, an owner and a sub-user, and either the agency changes and comes back
or one of the administrators changes. The comments of `MCService` name every
bound. Each instance contains the races of its hazards, which is what its
mutants show: every property has a mutant for each of its parts that a plausible
bug could break. The bounds keep every run at about a million states or fewer and about a
minute on two workers; the theorems of section 5 have none of them.

Symmetry is used only for ids, people and accounts with their owners, all of
which the properties quantify over, and never in a run with a liveness property.
Deadlock is not checked: a bounded instance stops when ids or bounds are used up.

**Finding (`hold_context`).** Book compares the price's audience and agent with
those its request was authenticated with (`booking.rs:542`). Under the lock it
reads the grant of the client again, because "authentication may predate a wait
on the authority barrier" (`booking.rs:499`), but on the API path not the
audience and the agent. A client whom an administrator moves to another agent
while its Book waits is booked at the price of the old one, whereas
`docs/BOOKING_API.md:44` says "Client audience/agent, current supplier
Search/booking enablement, availability epoch and currency must match".

**Finding (`identity_sub_status`).** A sub-user is suspended, and before the
mirror of that change is delivered its owner is suspended too. The owner's
change moves the `authorization_version` of the sub-user
(`agencies.rs:115-121`) and queues only a session revocation for it
(`operations.rs:366-377`), so `claim` supersedes the pending mirror as obsolete
(`effects.rs:200`). Every effect of the sub-user ends and the provider never
hears of its suspension, whereas `docs/RUST_IDENTITY_REQUIREMENTS_PLAN.md:130`
says that metadata of role and status changes are mirrored as tracked effects.
Local authority is not affected. With four effects the same property holds
(`identity_agency`): the case needs a mirror and a revocation of the sub-user,
then the mirror and the revocations of both, five in all.

## 4. Fairness

- `RequestsEnd` (ticketing): a request that reads the supplier or waits for a
  lock ends, because both have timeouts.
- `Recovery` (ticketing): clients and operators keep asking for the
  reconciliation of an issue whose ticket is proved, and not every one of those
  requests fails on a busy lock. Nothing in the code retries by itself, so the
  property is worth exactly this assumption: no state is reached from which
  asking cannot settle the wallet.
- `Ticking` (identity): a lease of thirty seconds ends, a provider call ends
  within ten, and `recovery::run` ticks every five seconds. Claims get strong
  fairness: a worker is again and again between two effects.
  The provider is not assumed to do anything.

## 5. Proofs

The theorems hold for every value of the constants: any number of people,
accounts, bookings, requests, workers, reads, retries and crashes. Every proof has
the same form. The property is not inductive as it stands, so the module names a
stronger invariant, made of parts; `Init` implies it, every action keeps it, one
lemma or step per action, and it implies the property. Each of these invariants was
checked by TLC on the instance of its run before it was proved. An action property
is proved from the invariant of the state the step begins in.

| Theorem | States |
|---|---|
| `WalletLedgerProofs` | |
| `TypeCorrect` | no balance is negative or beyond the limit |
| `HoldsCovered` | `HoldsMatchReservations` |
| `NothingPaidTwice` | `PaidOnce` |
| `MoneyIsConserved` | `MoneyConserved` |
| `LedgerIsComplete` | `LedgerExplains` |
| `PromiseIsKept` | `KeepsPromise`: `WalletLedger` implements `WalletPromise` |
| `LedgerUsersProofs` | |
| `RequestsImplementLedger`, `LedgerWholeWithRequests` | the composition implements the ledger, and has its theorems |
| `EveryPostingApproved` | `PostingsAreApproved` |
| `EveryPaymentOnce` | `PaymentCreditedOnce` |
| `ReversalsBounded` | `ReversalsWithinDeposit` |
| `TicketsImplementLedger`, `LedgerWholeWithTickets` | the same for the issue of tickets |
| `SupplierAskedOnce` | `OneDispatch` |
| `MoneyStaysHeld` | `UnknownStaysHeld` |
| `ChargedForTickets` | `ChargedOnlyIfTicketed` |
| `ReleasesApproved` | `ReleasedAsProposedAlways` |
| `HoldBookingProofs` | |
| `OneDispatch` | `DispatchedOnce` |
| `SoldAtNewestPrice` | `SoldAsAcceptedAlways` |
| `DecisionsStand` | `DecisionsStandAlways` |
| `ReadsStayInOrder` | `ReadsInOrderAlways` |
| `TicketManagementProofs` | |
| `TicketsHaveOneRequest` | `OneRequestPerTicket` |
| `AgreedIsPaid` | `BalanceIsAgreed` |
| `SettledWasSeen` | `SettledAsSeenAlways` |
| `AgreedIsPayable` | `AgreedCanSettle` |
| `OutboxProofs` | |
| `OutboxInvariant` | the inductive invariant itself |
| `EffectsInOrder` | `StartedInOrder` |
| `ConfirmedDidHappen` | `ConfirmedHappened` |
| `ProviderMovesOn` | `ProviderNeverGoesBackAlways` |
| `DeliveriesSentOnce` | `SentOnce` |
| `IdentityProofs` | |
| `SuperadminRemains` | `RootRemains` |
| `DecisionsAreOnCurrentRows` | `OneChangePerVersion` |
| `AgencyClosesWithOwner` | `AgencyNeedsOwner` |
| `DeniedStaysDenied` | `DeletionHolds` |
| `DeletionLeavesNothing` | `NothingLeftBehind` |
| `AuthorityStandsWithAccounts` | these five, while people are made, invited, sign up and are onboarded |
| `ResendsAreSafe` | `SafeToResend` |
| `AgenciesStayWithinLimit` | `AgencyWithinLimit` |
| `AdmissionsAreAuthorised` | `AdmittedByAuthorityAlways` |
| `ServiceProofs` | |
| `AuthorityIsCurrent` | `ActedByAuthorityAlways` |
| `DraftBookedAsPriced` | `BookedAsPricedAlways` |
| `PapersStayInOrder` | `PapersInOrderAlways` |
| `SearchesStayWithinBudget` | `WithinBudgetAlways` |
| `ImportsChargedAsReviewed` | `ChargedAsReviewedAlways` |

**The ledger.** `HoldInvariant`: a reservation adds the units of one new operation
to the live units of its account and a settlement removes those of the operation
it settles; the cardinality changes by exactly the amount that `ReservationAllows`
compares with the posting. `MoneyInvariant` adds that refunds stay within what was
captured and that the ledger is finite, so that the units credited, debited, kept
and held can be counted; `ExplainInvariant` says of each account that its entries
are numbered without a gap and end in its balances, and of each operation which
entries it has. The refinement maps each caller of `Post` to a step of
`WalletPromise` (`Reserve` holds, `Settle` charges or returns, `PostRefund`
refunds) or to a stutter, and needs `PromiseInvariant`: without `SubjectsOnce`, two
operations of one subject would be one purchase.

**Above the ledger.** `WalletRequests` and `TicketIssue` change the ledger's
variables only by its own actions. That each step of theirs is a step of the
ledger, or leaves it alone, makes `WalletSpec => Spec` and `TicketSpec => Spec`,
and every theorem of the ledger one of the composition. Their own invariants then
relate the two: `RequestsInvariant` says what an approved request posted and whose
deposit a reversal reverses; `TicketInvariant`, that every issue has its hold, an
issue excludes a cancellation, what names tickets was heard from the supplier, and
the payment follows the evidence (`PaymentFollows`).

**Holds.** `HoldInvariant` (of `HoldBooking`) says what the stored columns know of
the history that the properties speak of: an interrupted offer is behind its
connection, a refused price leaves an offer that must be priced again, a waiting
worker's booking was decided by nobody but the staff, what the staff has on its
screen is what is there as long as it is current, and the displayed read is the
newest one that was saved.

**Ticket management.** `DeskInvariant`: the tickets of open requests are exactly
what is claimed, and no two share one; an id is one ticket and a passenger has one
good one; an approved debit holds its own quotation; a screen with the version of
the row shows its quotation; and the balance is the funds less a sum over all
requests. The models sum with `MapThenSumSet`, which is defined by recursion over
sets, so `SumTheorems` has a small theory of such sums: that they exist, that two
functions that agree have one sum, that a change of one value changes the sum by
the difference, that a part is not more than the whole, that a sum may be taken
class by class, pair by pair or under other names, and what is taken from one amount
after the other until a sum is reached (`SumOfTaken`).

That what was agreed can be settled (`AgreedCanSettle`) needs the purchases, too.
`AgreedInvariant`: a ticket is worth what its slices are (`FundedRight`, which is why
`TICKET_ENTITLEMENT_CONFLICT` never stops a settlement); the tickets of an open
request are good (`SelectedRight`); an approved credit is no more than its tickets
cost, an approved debit is held, and a reissue asks for at least the differences its
new tickets are funded with (`ApprovedRight`); the balance and what the purchases
cost are all there ever was (`PurchasesRight`); and the slices of the good tickets
never exceed what their payments kept (`OwedRight`). The last is the heart: a refund
takes from a payment no more than the tickets that end had of it (`CreditsSplit`), so
what remains is enough for the other tickets; a reissue adds to a ticket what its
charged hold keeps for it (`SuccessorsPaid`).

**Provider outbox.** `EffectsInvariant` says, for each effect, what may still be on
its way: what waits is in nobody's hands and has left no trace at the provider
(`NotBegun`), an effect has one delivery at a time and sends at most one request
(`OneDelivery`), and what is confirmed has no request left that could arrive late
(`Confirmed`). Without the last two neither order nor "the provider never goes
back" is inductive.

**Deliveries.** `DeliveriesInOrder`: of the attempts of one mail or one notice all
but the last were refused, and the last is the one the state of the row tells of
(`Tried`, `LastAccepted`); a transport that was not started has no answer
(`Unstarted`). The wallet keeps all sends in one sequence, so the same is said of
the sends of one event, recipient and generation (`SendsInOrder`), and of the row
that its claim is the last of them (`Fits`); a generation is the number of times
somebody asked (`AskedAsOften`), which is why a new one has no sends yet.

**Identity.** `AuthorityInvariant`: what a transaction checked under the authority
lock is still so when it writes, because nobody else began one (`Ready`,
`ChangeReady`, `DeletionReady`); rows of the journal were made from versions that
are gone, each from another one (`Journal`); and a prepared deletion is of a person
who stays denied, whose request is on its way or was applied (`DeletionStands`),
and of whom no create or invitation is open (`WorkOf(t) = {}` in both). The first
five theorems are of authority alone (`SpecAuthority`);
`AuthorityStandsWithAccounts` proves the same five of the full specification, in
which people arrive meanwhile.

**Accounts.** `AccountsInvariant`, of the full specification: a row that may be sent
again has left no trace at the provider and has nothing on its way (`OpSafe`,
`Untouched`), and a request that would make something is on its way only while
nothing was made (`WireRight`), so that an answer "not sent" can be believed; what
the provider was seen to show stays so (`LooksRight`); one create or invitation is
open per person (`OnePerPerson`); and of no agency are there more people than
places, those on their way in counted (`PlacesRight`). That last part needs a
counting argument: `agency_scope` counts operations and not people, so the people
of open operations are the image of those operations (`PlacesLeft`). The steps of
authority keep all of this because they change no create and no invitation, make
nobody a user and bring nobody back (`AuthorityMoves`).

Neither invariant is inductive alone once both are in play, so `IdentityInvariant`
is the two together. A step of accounts may make somebody a user; that this brings
no deleted person back needs to know that whoever is registered has an account and
whoever is not is a plain customer (`WorldRight`), and that an account the provider
made for an unfinished operation belongs to somebody not yet registered
(`ArrivalsRight`). `ArrivalKeeps` is the one lemma on such a step, and
`IntakeRowMoves` the one on every step that only moves a create or an invitation.

**Business gate.** `GateInvariant`: versions only grow, so as long as the people and
clients a request remembers are at the versions it saw them at, its command may be
given (`Remembered`); that is why comparing versions in `begin` is enough.

**Drafts, papers, searches, imports.** These four invariants are what a step knows of
the state an earlier step of the same actor left. `DraftsInvariant`: what a request
found out of its draft, up to the point it has reached, is still so
(`RequestKnows`), because one transaction at a time changes a draft. `PapersInvariant`:
a paper somebody read, or began an upload over, is the one there is or an earlier
version of it (`PaperKnown`), so who names the present version has read the present
paper. `AdmissionInvariant`: what an open claim read and locked still allows its
dispatch (`ClaimAllowed`), because of two open claims neither needs what the other has
locked (`ClaimsApart`); every permit is free or held by one search (`PlacesKept`), and
the hits of a key, summed over the days, are the dispatches charged to it (`Counted`).
`ImportsInvariant`: every import is the answer of one request, its booking's only one,
and what an agency was charged is the sum of what its confirmed imports were quoted at
(`Captured`). The last two need `SumTheorems`: a step changes one term of a sum.

**Assumptions.** Each is in the module that declares the constants, and is what the
schema or the code guarantees: amounts lie in `1..MaxMinor`; ids of operations,
passengers and requests of one booking are finite sets, as is the set of an owner's
sub-users (a cardinality or a sum over them exists); an agency is within its limit
at the start; the `No...` values, the NULLs
of their columns, are not ids; a sub-user has no sub-users; there was a superadmin
at the start (`BootstrapAssumption`: `require_bootstrap` lets nothing change
before). The connections of a search are a sequence without repetitions, and searches
and days finite sets, as hits are counted over them (`AdmissionAssumption`); the
employer of a sub-user is an agency owner (`PapersAssumption`); offers and drafts have
distinct names (`DraftsAssumption`); the tables of an outbox are numbered by finite
sets and "nobody" is no recipient (`DeliveriesAssumption`). TLC evaluates all of them
in the runs.

**Only model-checked.**

- `ProofIsSettled` and `ClaimsEnd`: the prover does neither fairness nor `ENABLED`.
- `SettledIsMirrored`: `identity_sub_status` refutes it in general; it holds only of
  the four effects of `identity_agency`. `SoldInContextAlways` is refuted, too.

No module here uses a `RECURSIVE` operator.

## 6. Not modelled

The rows of the inventory without a module, and inside the modelled parts:
parsing and validation of fields, authorization below the level of who may
review, files, audit rows, rate limits, the text of notifications, what makes
an answer of a supplier a proof, and the ticketing deadline (it can only refuse
an issue). Requests that are repeated and answered from their journal change
nothing and are not steps. Besides:

- `HoldBooking`: what a fare and its passengers must satisfy.
- `TicketManagement`: notes and attachments, and routes.
- `IdentityAuthority`: the order of two events of one person by their time;
  hourly limits; the bootstrap of the first user; a rename is in
  `IdentityEffects`.
- `IdentityAccounts`: two people with one email.
- `PortalDrafts`: a client that books with the key of a draft on its own.
- `PortalImports`: refreshing an itinerary, correcting the cost of rows that older
  code wrote, references a booking of this service already has.
- `IdentityPapers`: staff records, branding, the format of fields and files.
- Settings of notifications (one versioned row), sign-in limits, rotation of
  credentials, rollout pins, the text of mails.
- Pure functions (`pricing`, `selection`, `tier`, `markup`, `projection`,
  `fare_breakdown`), supplier adapters, and the shell of the service.
- The order of row locks against the authority lock. Several paths take a row
  first (`booking.rs:1150` and those listed with its hazard), others the authority
  lock (`business.rs:115`); PostgreSQL breaks the cycle by aborting one
  transaction, or two seconds end the wait. The models have the outcome, a
  refused request or an answer that is not saved, and not the wait. That
  `portal_holds::prepare` holds the authority lock across a supplier call is in
  `PortalDrafts`, where it blocks every other transaction (`Unlocked`).

A pending issue whose worker died can be released by nobody when the
supplier shows no ticket; `docs/TICKET_NONISSUANCE_REVIEW.md:13` accepts that.

## 7. Plan

Every component with a protocol of its own has a module. What is left, in this
order:

| Work | Modules | To prove or check |
|---|---|---|
| Lock order | a module of locks and rows | that no wait is longer than one cycle |
| Pure functions | pricing and markup | bounds of rounding, against a reference definition |
