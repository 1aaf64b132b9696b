----------------------------- MODULE HoldBooking -----------------------------
(***************************************************************************)
(* From an offer to a booking, for one client: the availability snapshot   *)
(* an offer is found under (src/connections.rs, src/search.rs), the price   *)
(* revisions of src/reprice.rs, the reservation of src/booking.rs and the   *)
(* detached worker that sends Book once and saves what it hears (also       *)
(* src/booking/direct.rs), the reads of the supplier that follow, and the   *)
(* decision of the staff in src/admin_bookings.rs.                          *)
(*                                                                         *)
(* A database transaction is one action, except where it waits: RePrice    *)
(* keeps the offer row locked across its call of the supplier, and Book    *)
(* may have read its price before it got that row.  A booking is named by  *)
(* its idempotency key.  A replay of a key only reads.  What is compared   *)
(* with the fare (passengers, currency, itinerary, mode) can only refuse a *)
(* booking and is left out, as are expired offers that cleanup deletes.    *)
(***************************************************************************)
EXTENDS Naturals, FiniteSets, Sequences

CONSTANTS
    Offers,      \* flight_offers
    Keys,        \* idempotency keys of the client
    Readers,     \* requests that reconcile a booking
    Contexts,    \* audience and agent the client is priced under
    Settings,    \* what an administrator may enable: sets of capabilities
    MaxEpoch,    \* bound: interruptions of the supplier
    MaxVersions, \* bound: price revisions per offer
    MaxReads,    \* bound: reads of the supplier per booking
    MaxCrashes   \* bound: process crashes

Capabilities == {"search", "booking", "servicing", "ticketing"}

ASSUME SettingsAssumption == Settings \subseteq SUBSET Capabilities
ASSUME LimitsAssumption ==
    {MaxEpoch, MaxVersions, MaxReads, MaxCrashes} \subseteq Nat

VARIABLES
    client,        \* api_clients: the context, and whether the grant stands
    authenticated, \* contexts an unfinished request may have authenticated in
    connection,    \* supplier_connections: what is enabled, availability_epoch
    offers,        \* flight_offers, from the snapshot of their search on
    prices,        \* flight_reprices of an offer, by version
    repricing,     \* the RePrice request that holds an offer row
    call,          \* Book requests that hold the authority lock
    bookings,      \* flight_bookings, with their observations
    worker,        \* the detached task of a booking
    answer,        \* what it heard and has not saved
    reader,        \* reads of the supplier in flight
    view,          \* what the staff saw last of a booking
    interrupted,   \* history: offers whose search availability was broken
    refused,       \* history: offers whose last price the supplier refused
    sent,          \* at the supplier: Book requests received
    crashes

priceVars == <<client, authenticated, connection, offers, prices, interrupted,
               refused>>
taskVars == <<worker, answer, sent>>
holdVars == <<priceVars, repricing, call, bookings, taskVars, reader, view,
              crashes>>

Absent == [stage |-> "absent", epoch |-> 0, direct |-> FALSE,
           required |-> FALSE, expired |-> FALSE]
NoReprice == [offer |-> "none"]
NoCall == [at |-> "idle"]
NoBooking == [state |-> "none"]
NoRead == [at |-> 0]

HoldInit ==
    /\ \E c \in Contexts : /\ client = [context |-> c, granted |-> TRUE]
                           /\ authenticated = {c}
    /\ \E s \in Settings : connection = [enabled |-> s, epoch |-> 0]
    /\ offers = [o \in Offers |-> Absent]
    /\ prices = [o \in Offers |-> <<>>]
    /\ repricing = NoReprice
    /\ call = [k \in Keys |-> NoCall]
    /\ bookings = [k \in Keys |-> NoBooking]
    /\ worker = [k \in Keys |-> "none"]
    /\ answer = [k \in Keys |-> "nothing"]
    /\ reader = [r \in Readers |-> NoRead]
    /\ view = [k \in Keys |-> [current |-> FALSE, late |-> FALSE]]
    /\ interrupted = {}
    /\ refused = {}
    /\ sent = [k \in Keys |-> 0]
    /\ crashes = 0

Enabled(capability) == capability \in connection.enabled
Made(k) == bookings[k] # NoBooking
Locked(o) == repricing # NoReprice /\ repricing.offer = o

\* No Book is between its first read and its commit.
AuthorityFree == \A k \in Keys : call[k] = NoCall

-----------------------------------------------------------------------------
(* Administration and search *)

\* connections::update.  Disabling search starts a new availability epoch.
UpdateConnection(s) ==
    LET off == Enabled("search") /\ "search" \notin s
    IN  /\ s # connection.enabled
        /\ off => connection.epoch < MaxEpoch
        /\ connection' = [enabled |-> s,
                          epoch |-> connection.epoch + (IF off THEN 1 ELSE 0)]
        /\ interrupted' = IF off THEN {o \in Offers : offers[o] # Absent}
                          ELSE interrupted
        /\ UNCHANGED <<client, authenticated, offers, prices, refused,
                       repricing, call, bookings, taskVars, reader, view,
                       crashes>>

\* auth::update_client; the barrier trigger takes the authority lock.
UpdateClient(c, granted) ==
    /\ AuthorityFree
    /\ [context |-> c, granted |-> granted] # client
    /\ client' = [context |-> c, granted |-> granted]
    /\ authenticated' = IF granted THEN authenticated \cup {c} ELSE authenticated
    /\ UNCHANGED <<connection, offers, prices, interrupted, refused, repricing,
                   call, bookings, taskVars, reader, view, crashes>>

\* Search takes its snapshot of the connection before it calls the supplier.
StartSearch(o) ==
    /\ offers[o] = Absent
    /\ Enabled("search")
    /\ offers' = [offers EXCEPT ![o].stage = "searching",
                                ![o].epoch = connection.epoch]
    /\ UNCHANGED <<client, authenticated, connection, prices, interrupted,
                   refused, repricing, call, bookings, taskVars, reader, view,
                   crashes>>

\* The offer is saved with the epoch of the snapshot, without another look.
\* A fare that cannot be held is to be bought at once.
PublishOffer(o, direct) ==
    /\ offers[o].stage = "searching"
    /\ offers' = [offers EXCEPT ![o].stage = "ready", ![o].direct = direct]
    /\ UNCHANGED <<client, authenticated, connection, prices, interrupted,
                   refused, repricing, call, bookings, taskVars, reader, view,
                   crashes>>

\* Ten minutes pass; a price expires with its offer.
Expire(o) ==
    /\ offers[o].stage = "ready" /\ ~offers[o].expired
    /\ offers' = [offers EXCEPT ![o].expired = TRUE]
    /\ UNCHANGED <<client, authenticated, connection, prices, interrupted,
                   refused, repricing, call, bookings, taskVars, reader, view,
                   crashes>>

-----------------------------------------------------------------------------
(* Prices *)

\* What RePrice, acceptance and Book all ask of an offer.
Available(o) ==
    /\ offers[o].stage = "ready" /\ ~offers[o].expired
    /\ Enabled("search") /\ offers[o].epoch = connection.epoch

\* reprice, up to the call of the supplier: one request per client, and the
\* offer row is taken without waiting and kept.
StartReprice(o, c) ==
    /\ repricing = NoReprice
    /\ Available(o)
    /\ Len(prices[o]) < MaxVersions
    /\ repricing' = [offer |-> o, context |-> c]
    /\ UNCHANGED <<priceVars, call, bookings, taskVars, reader, view, crashes>>

\* A fare comes back, and the supplier was not switched off meanwhile.
SavePrice(o) ==
    /\ Locked(o)
    /\ Available(o)
    /\ prices' = [prices EXCEPT ![o] =
                    Append(@, [context |-> repricing.context, accepted |-> FALSE])]
    /\ offers' = [offers EXCEPT ![o].required = FALSE]
    /\ refused' = refused \ {o}
    /\ repricing' = NoReprice
    /\ UNCHANGED <<client, authenticated, connection, interrupted, call,
                   bookings, taskVars, reader, view, crashes>>

\* A refusal the supplier gives a reason for is saved at once, whatever
\* happened to the connection: the offer has to be priced again.
RefusePrice(o) ==
    /\ Locked(o)
    /\ offers' = [offers EXCEPT ![o].required = TRUE]
    /\ refused' = refused \cup {o}
    /\ repricing' = NoReprice
    /\ UNCHANGED <<client, authenticated, connection, prices, interrupted, call,
                   bookings, taskVars, reader, view, crashes>>

\* BUG: acceptance and Book do not look at reprice_required.
StandsAlways(o) == offers[o].stage = "ready"

\* No refusal of the supplier came after the last price.
Stands(o) == ~offers[o].required

\* A timeout, an invalid fare or a failed recheck rolls back.
FailReprice ==
    /\ repricing # NoReprice
    /\ repricing' = NoReprice
    /\ UNCHANGED <<priceVars, call, bookings, taskVars, reader, view, crashes>>

\* reprice::accept, under the authority lock and the offer row: the latest
\* price, in the context the request was authenticated in.
AcceptPrice(o, c) ==
    LET v == Len(prices[o])
    IN  /\ AuthorityFree /\ ~Locked(o)
        /\ v > 0
        /\ Stands(o) /\ Available(o)
        /\ prices[o][v].context = c
        /\ ~prices[o][v].accepted
        /\ prices' = [prices EXCEPT ![o][v].accepted = TRUE]
        /\ UNCHANGED <<client, authenticated, connection, offers, interrupted,
                       refused, repricing, call, bookings, taskVars, reader,
                       view, crashes>>

-----------------------------------------------------------------------------
(* Reserving a booking *)

\* book_owned, up to the wait for the offer row: under the authority lock the
\* key is new, the grant stands, and the statement reads the price.
Quote(k, o, v, c) ==
    /\ AuthorityFree
    /\ ~Made(k)
    /\ client.granted
    /\ v \in 1 .. Len(prices[o])
    /\ call' = [call EXCEPT ![k] =
                  [at |-> "quoted", offer |-> o, version |-> v, context |-> c,
                   accepted |-> prices[o][v].accepted,
                   latest |-> v = Len(prices[o])]]
    /\ UNCHANGED <<priceVars, repricing, bookings, taskVars, reader, view,
                   crashes>>

\* BUG: the price read before the wait for the offer row is believed.
QuotedFresh(k) == call[k].latest /\ call[k].accepted

\* The price is read again with the offer row in hand.
Fresh(k) ==
    LET q == call[k]
    IN  q.version = Len(prices[q.offer]) /\ prices[q.offer][q.version].accepted

\* BUG: any number of direct bookings of an offer.
DirectAlways(o) == {"servicing", "ticketing"} \subseteq connection.enabled

\* A direct booking buys the ticket: once per offer, however it ended.
DirectAllowed(o) ==
    /\ {"servicing", "ticketing"} \subseteq connection.enabled
    /\ \A k \in Keys : Made(k) => bookings[k].offer # o

\* The rest of book_owned, up to the commit; the worker is spawned after it.
Reserve(k) ==
    LET q == call[k]
        o == q.offer
    IN  /\ q # NoCall
        /\ ~Locked(o)
        /\ Available(o) /\ Stands(o)
        /\ q.accepted /\ q.latest
        /\ prices[o][q.version].context = q.context
        /\ Enabled("booking")
        /\ offers[o].direct => DirectAllowed(o)
        /\ Fresh(k)
        /\ bookings' = [bookings EXCEPT ![k] =
              [state |-> "pending", offer |-> o, version |-> q.version,
               aged |-> FALSE, response |-> "nothing", receipt |-> "none",
               late |-> FALSE, informed |-> FALSE,
               started |-> 0, observed |-> {}, shown |-> 0, limit |-> 0]]
        /\ worker' = [worker EXCEPT ![k] = "spawned"]
        /\ call' = [call EXCEPT ![k] = NoCall]
        /\ UNCHANGED <<priceVars, repricing, answer, sent, reader, view, crashes>>

\* Any check fails, or the offer row is not free in two seconds.
Refuse(k) ==
    /\ call[k] # NoCall
    /\ call' = [call EXCEPT ![k] = NoCall]
    /\ UNCHANGED <<priceVars, repricing, bookings, taskVars, reader, view,
                   crashes>>

-----------------------------------------------------------------------------
(* The worker of a booking *)

\* updated_at of a booking moves: what the staff saw is no longer current.
Touch(k) == view' = [view EXCEPT ![k].current = FALSE]

Send(k) ==
    /\ worker[k] = "spawned"
    /\ worker' = [worker EXCEPT ![k] = "calling"]
    /\ sent' = [sent EXCEPT ![k] = @ + 1]
    /\ UNCHANGED <<priceVars, repricing, call, bookings, answer, reader, view,
                   crashes>>

\* "nothing" is an error or a timeout; "refs" names the reservation and fails
\* held_response (or the receipt of a direct booking); "verified" passes it.
Hear(k) ==
    /\ worker[k] = "calling"
    /\ \E a \in {"nothing", "refs", "verified"} : answer' = [answer EXCEPT ![k] = a]
    /\ worker' = [worker EXCEPT ![k] = "answered"]
    /\ UNCHANGED <<priceVars, repricing, call, bookings, sent, reader, view,
                   crashes>>

Direct(k) == offers[bookings[k].offer].direct

\* The state an answer decides on a booking that still waits for it.
Outcome(k) ==
    IF answer[k] # "verified" THEN "outcome_unknown"
    ELSE IF Direct(k) THEN "issued" ELSE "held"

\* BUG: the answer itself is stored as its classification.
EvidenceRaw(k) == answer[k]

Evidence(k) == IF answer[k] = "nothing" THEN "nothing" ELSE "refs"

\* A direct booking brings its servicing receipt with it.
SaveInTime(k) ==
    [bookings[k] EXCEPT !.state = Outcome(k), !.response = Evidence(k),
                        !.receipt = IF Direct(k) THEN Outcome(k) ELSE "none"]

\* A decision came first: the answer is kept and the review is opened again.
\* Only a hold's evidence is merged into the booking.
SaveLate(k) ==
    [bookings[k] EXCEPT !.state = "outcome_unknown", !.late = TRUE,
                        !.response = IF Direct(k) \/ Evidence(k) = "nothing"
                                     THEN @ ELSE Evidence(k)]

\* BUG: the worker writes its outcome whatever the booking became.
SaveBlind(k) == SaveInTime(k)

Save(k) == IF bookings[k].state = "pending" THEN SaveInTime(k) ELSE SaveLate(k)

SaveOutcome(k) ==
    /\ worker[k] = "answered"
    /\ bookings' = [bookings EXCEPT ![k] = Save(k)]
    /\ worker' = [worker EXCEPT ![k] = "done"]
    /\ answer' = [answer EXCEPT ![k] = "nothing"]
    /\ Touch(k)
    /\ UNCHANGED <<priceVars, repricing, call, sent, reader, crashes>>

\* The barrier trigger of the update waits for the authority lock for two
\* seconds; then what the supplier said is lost and the booking stays pending.
LoseOutcome(k) ==
    /\ worker[k] = "answered"
    /\ worker' = [worker EXCEPT ![k] = "done"]
    /\ answer' = [answer EXCEPT ![k] = "nothing"]
    /\ UNCHANGED <<priceVars, repricing, call, bookings, sent, reader, view,
                   crashes>>

\* The process stops: its transactions roll back, its tasks are gone.
Crash ==
    /\ crashes < MaxCrashes
    /\ crashes' = crashes + 1
    /\ repricing' = NoReprice
    /\ call' = [k \in Keys |-> NoCall]
    /\ worker' = [k \in Keys |-> IF worker[k] = "none" THEN "none" ELSE "done"]
    /\ answer' = [k \in Keys |-> "nothing"]
    /\ reader' = [r \in Readers |-> NoRead]
    /\ UNCHANGED <<priceVars, bookings, sent, view>>

-----------------------------------------------------------------------------
(* Reading the supplier *)

\* reconcile_owned, up to the call: it needs the references of a saved answer
\* and takes the time of the database first.
StartRead(r, k) ==
    /\ reader[r] = NoRead
    /\ Made(k) /\ bookings[k].response = "refs"
    /\ Enabled("servicing")
    /\ bookings[k].started < MaxReads
    /\ bookings' = [bookings EXCEPT ![k].started = @ + 1]
    /\ reader' = [reader EXCEPT ![r] = [key |-> k, at |-> bookings[k].started + 1]]
    /\ UNCHANGED <<priceVars, repricing, call, taskVars, view, crashes>>

\* BUG: the last read to be saved is taken for the newest.
NewestSaved(k, at) == Made(k)

\* No read that started later has been saved.
Newest(k, at) == bookings[k].shown <= at

\* The read the ticketing deadline comes from; 0 is the answer to Book.
Deadline(k, at, verified) == IF verified THEN at ELSE bookings[k].limit

\* Every read is kept; only the newest one changes what is shown.
SaveRead(r, verified) ==
    LET k == reader[r].key
        at == reader[r].at
        kept == [bookings[k] EXCEPT
                    !.observed = @ \cup {[at |-> at, verified |-> verified]}]
    IN  /\ reader[r] # NoRead
        /\ reader' = [reader EXCEPT ![r] = NoRead]
        /\ \/ /\ Newest(k, at)
              /\ bookings' = [bookings EXCEPT ![k] =
                    [kept EXCEPT !.shown = at,
                                 !.limit = Deadline(k, at, verified)]]
              /\ Touch(k)
           \/ /\ ~Newest(k, at)
              /\ bookings' = [bookings EXCEPT ![k] = kept]
              /\ UNCHANGED view
        /\ UNCHANGED <<priceVars, repricing, call, taskVars, crashes>>

FailRead(r) ==
    /\ reader[r] # NoRead
    /\ reader' = [reader EXCEPT ![r] = NoRead]
    /\ UNCHANGED <<priceVars, repricing, call, bookings, taskVars, view, crashes>>

-----------------------------------------------------------------------------
(* The staff *)

\* Five minutes pass over a pending booking.
Age(k) ==
    /\ Made(k) /\ bookings[k].state = "pending" /\ ~bookings[k].aged
    /\ bookings' = [bookings EXCEPT ![k].aged = TRUE]
    /\ UNCHANGED <<priceVars, repricing, call, taskVars, reader, view, crashes>>

\* admin_bookings::detail
ViewBooking(k) ==
    /\ Made(k)
    /\ view' = [view EXCEPT ![k] = [current |-> TRUE, late |-> bookings[k].late]]
    /\ UNCHANGED <<priceVars, repricing, call, bookings, taskVars, reader, crashes>>

\* BUG: expected_updated_at is not compared.
SeenAtAll(k) == Made(k)

SeenCurrent(k) == view[k].current

\* admin_bookings::resolve
Resolve(k) ==
    /\ Made(k)
    /\ \/ bookings[k].state = "outcome_unknown"
       \/ bookings[k].state = "pending" /\ bookings[k].aged
    /\ SeenCurrent(k)
    /\ bookings' = [bookings EXCEPT ![k].state = "manually_resolved",
                                    ![k].informed = view[k].late]
    /\ Touch(k)
    /\ UNCHANGED <<priceVars, repricing, call, taskVars, reader, crashes>>

-----------------------------------------------------------------------------
HoldNext ==
    \/ \E s \in Settings : UpdateConnection(s)
    \/ \E c \in Contexts, granted \in BOOLEAN : UpdateClient(c, granted)
    \/ \E o \in Offers :
          \/ StartSearch(o)
          \/ \E direct \in BOOLEAN : PublishOffer(o, direct)
          \/ Expire(o)
          \/ \E c \in authenticated : StartReprice(o, c) \/ AcceptPrice(o, c)
          \/ SavePrice(o)
          \/ RefusePrice(o)
    \/ FailReprice
    \/ \E k \in Keys :
          \/ \E o \in Offers, v \in 1 .. MaxVersions, c \in authenticated :
                Quote(k, o, v, c)
          \/ Reserve(k)
          \/ Refuse(k)
          \/ Send(k) \/ Hear(k) \/ SaveOutcome(k) \/ LoseOutcome(k)
          \/ Age(k) \/ ViewBooking(k) \/ Resolve(k)
    \/ Crash
    \/ \E r \in Readers :
          \/ \E k \in Keys : StartRead(r, k)
          \/ \E verified \in BOOLEAN : SaveRead(r, verified)
          \/ FailRead(r)

HoldSpec == HoldInit /\ [][HoldNext]_holdVars

-----------------------------------------------------------------------------
(* Properties *)

BookingStates == {"pending", "held", "issued", "outcome_unknown",
                  "manually_resolved"}

BookingType ==
    [state: BookingStates, offer: Offers, version: 1 .. MaxVersions,
     aged: BOOLEAN, response: {"nothing", "refs"},
     receipt: {"none", "issued", "outcome_unknown"},
     late: BOOLEAN, informed: BOOLEAN,
     started: 0 .. MaxReads, shown: 0 .. MaxReads, limit: 0 .. MaxReads,
     observed: SUBSET [at: 1 .. MaxReads, verified: BOOLEAN]]

\* Every variable holds the values its column, lock or task can have.
HoldTypeOK ==
    /\ client \in [context: Contexts, granted: BOOLEAN]
    /\ authenticated \in SUBSET Contexts
    /\ connection \in [enabled: Settings, epoch: 0 .. MaxEpoch]
    /\ offers \in [Offers -> [stage: {"absent", "searching", "ready"},
                              epoch: 0 .. MaxEpoch, direct: BOOLEAN,
                              required: BOOLEAN, expired: BOOLEAN]]
    /\ \A o \in Offers :
          /\ Len(prices[o]) <= MaxVersions
          /\ \A v \in 1 .. Len(prices[o]) :
                prices[o][v] \in [context: Contexts, accepted: BOOLEAN]
    /\ repricing \in {NoReprice} \cup [offer: Offers, context: Contexts]
    /\ call \in [Keys -> {NoCall} \cup
                    [at: {"quoted"}, offer: Offers, version: 1 .. MaxVersions,
                     context: Contexts, accepted: BOOLEAN, latest: BOOLEAN]]
    /\ \A k \in Keys : Made(k) => bookings[k] \in BookingType
    /\ worker \in [Keys -> {"none", "spawned", "calling", "answered", "done"}]
    /\ answer \in [Keys -> {"nothing", "refs", "verified"}]
    /\ reader \in [Readers -> {NoRead} \cup [key: Keys, at: 1 .. MaxReads]]
    /\ view \in [Keys -> [current: BOOLEAN, late: BOOLEAN]]
    /\ interrupted \in SUBSET Offers /\ refused \in SUBSET Offers
    /\ sent \in [Keys -> Nat]
    /\ crashes \in 0 .. MaxCrashes

Sold(k) == bookings[k] = NoBooking /\ bookings'[k] # NoBooking

\* A booking is reserved at the newest price of its offer, which the client
\* accepted and the supplier has not refused since, even when Book waited for
\* a RePrice that held the offer row (the second read of book_owned); and
\* never once the search of the supplier was disabled after the snapshot of
\* the offer, although it may be enabled again (availability_epoch).
SoldAsAccepted ==
    \A k \in Keys : Sold(k) =>
        LET o == bookings'[k].offer
            v == bookings'[k].version
        IN  /\ v = Len(prices[o]) /\ prices[o][v].accepted
            /\ o \notin refused /\ o \notin interrupted
SoldAsAcceptedAlways == [][SoldAsAccepted]_holdVars

\* Book is sent at most once per reservation, whatever crashed or was lost,
\* and of all reservations of a direct offer only one is ever sent.
DispatchedOnce ==
    /\ HoldTypeOK
    /\ \A k \in Keys : sent[k] <= 1
    /\ \A o \in Offers : offers[o].direct =>
          Cardinality({k \in Keys : Made(k) /\ bookings[k].offer = o}) <= 1

\* What a verified answer decided stands, and a decision of the staff is left
\* only for an answer that came after it; ticketing relies on it when it takes
\* a held booking to stay held.
DecidedStands ==
    \A k \in Keys : Made(k) =>
        /\ bookings[k].state \in {"held", "issued"} =>
              bookings'[k].state = bookings[k].state
        /\ bookings[k].state = "manually_resolved"
              /\ bookings'[k].state # "manually_resolved" =>
              /\ bookings'[k].state = "outcome_unknown"
              /\ bookings'[k].late

\* A booking counts as decided only if who decided it last had seen every late
\* answer (expected_updated_at in admin_bookings::resolve).
DecidedInformed ==
    \A k \in Keys : Made(k) /\ bookings[k].state = "manually_resolved" =>
        bookings[k].informed = bookings[k].late

\* What was decided stands, and was decided on what was known.
DecisionsStandAlways ==
    DecidedInformed /\ [][DecidedInformed' /\ DecidedStands]_holdVars

\* The supplier status on display is that of the newest saved read, in the
\* order the reads began, and a verified read newer than the one the ticketing
\* deadline comes from was overtaken by a later failed one (reconcile_owned).
NewestRead ==
    \A k \in Keys : Made(k) =>
        LET b == bookings[k]
        IN  /\ \A r \in b.observed : r.at <= b.shown
            /\ b.shown = 0 \/ \E r \in b.observed : r.at = b.shown
            /\ \A r \in b.observed : r.verified /\ r.at > b.limit =>
                  \E s \in b.observed : s.at > r.at /\ ~s.verified

\* The deadline only moves on, to that of a read the supplier verified: a
\* failed read or an older one saved late never takes it back.
DeadlineKept ==
    \A k \in Keys : Made(k) /\ bookings'[k].limit # bookings[k].limit =>
        /\ bookings'[k].limit > bookings[k].limit
        /\ [at |-> bookings'[k].limit, verified |-> TRUE] \in bookings'[k].observed

\* The status and the deadline on display follow the order the reads began in.
ReadsInOrderAlways ==
    NewestRead /\ [][NewestRead' /\ DeadlineKept]_holdVars

\* A booking is reserved at a price of the client's current audience and
\* agent ("Client audience/agent ... must match", docs/BOOKING_API.md).
SoldInContext ==
    \A k \in Keys : Sold(k) =>
        prices[bookings'[k].offer][bookings'[k].version].context = client.context
SoldInContextAlways == [][SoldInContext]_holdVars

=============================================================================
