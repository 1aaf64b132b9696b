--------------------------- MODULE HoldBookingProofs ---------------------------
(***************************************************************************)
(* Theorems about HoldBooking, for any number of offers, bookings, readers  *)
(* and prices, and for any bounds: what is sold, what is sent to the        *)
(* supplier, what is decided and what is shown.                             *)
(***************************************************************************)
EXTENDS HoldBooking, FiniteSetTheorems, SequenceTheorems, TLAPS

-----------------------------------------------------------------------------
(* The inductive invariant *)

Price == [context : Contexts, accepted : BOOLEAN]

Types ==
    /\ HoldTypeOK
    /\ bookings \in [Keys -> BookingType \cup {NoBooking}]
    /\ prices \in [Offers -> Seq(Price)]
    /\ repricing # NoReprice => Len(prices[repricing.offer]) < MaxVersions

\* An offer is not ahead of its connection, is behind it once its search was
\* interrupted, and has to be priced again once a price was refused.
OfferKept(o) ==
    /\ offers[o].epoch <= connection.epoch
    /\ o \in interrupted => offers[o] # Absent /\ offers[o].epoch < connection.epoch
    /\ o \in refused => offers[o].required

Active(k) == worker[k] \in {"spawned", "calling", "answered"}

\* A key is reserved once, its worker is spawned with it and sends Book once,
\* and a booking that waits for its worker was decided by nobody else but the
\* staff.
DispatchKept(k) ==
    /\ call[k] # NoCall => ~Made(k)
    /\ ~Made(k) => worker[k] = "none"
    /\ worker[k] \in {"none", "spawned"} => sent[k] = 0
    /\ sent[k] <= 1
    /\ Active(k) => bookings[k].state \in {"pending", "manually_resolved"}

\* A booking is of an offer whose search has ended; of a direct one it is the
\* only one.
OfferSold(k) == Made(k) => offers[bookings[k].offer].stage = "ready"

DirectOnce(k, l) ==
    Made(k) /\ Made(l) /\ bookings[k].offer = bookings[l].offer
    /\ offers[bookings[k].offer].direct => k = l

\* What the staff saw, if it is current, is what there is.
ViewKept(k) ==
    /\ view[k].current => Made(k) /\ view[k].late = bookings[k].late
    /\ Made(k) /\ bookings[k].state = "manually_resolved" =>
          bookings[k].informed = bookings[k].late

\* What is displayed of a booking is the newest of what was read.
ReadsKept(b) ==
    /\ \A r \in b.observed : r.at <= b.shown
    /\ b.shown = 0 \/ \E r \in b.observed : r.at = b.shown
    /\ \A r \in b.observed : r.verified /\ r.at > b.limit =>
          \E s \in b.observed : s.at > r.at /\ ~s.verified
    /\ b.limit <= b.shown

HoldInvariant ==
    /\ Types
    /\ \A o \in Offers : OfferKept(o)
    /\ \A k \in Keys : DispatchKept(k) /\ OfferSold(k) /\ ViewKept(k)
    /\ \A k, l \in Keys : DirectOnce(k, l)
    /\ \A k \in Keys : Made(k) => ReadsKept(bookings[k])
    /\ \A r \in Readers : reader[r] # NoRead => Made(reader[r].key)

-----------------------------------------------------------------------------
(* Types *)

Offer == [stage : {"absent", "searching", "ready"}, epoch : 0 .. MaxEpoch,
          direct : BOOLEAN, required : BOOLEAN, expired : BOOLEAN]

Quoted == [at : {"quoted"}, offer : Offers, version : 1 .. MaxVersions,
           context : Contexts, accepted : BOOLEAN, latest : BOOLEAN]

\* The variables of offers and prices, and the request that holds an offer row.
PriceTypes ==
    /\ client \in [context : Contexts, granted : BOOLEAN]
    /\ authenticated \in SUBSET Contexts
    /\ connection \in [enabled : Settings, epoch : 0 .. MaxEpoch]
    /\ offers \in [Offers -> Offer]
    /\ prices \in [Offers -> Seq(Price)]
    /\ \A o \in Offers : Len(prices[o]) <= MaxVersions
    /\ repricing \in {NoReprice} \cup [offer : Offers, context : Contexts]
    /\ repricing # NoReprice => Len(prices[repricing.offer]) < MaxVersions
    /\ interrupted \in SUBSET Offers /\ refused \in SUBSET Offers

\* Those of bookings, their tasks and their readers.
BookingTypes ==
    /\ call \in [Keys -> {NoCall} \cup Quoted]
    /\ bookings \in [Keys -> BookingType \cup {NoBooking}]
    /\ worker \in [Keys -> {"none", "spawned", "calling", "answered", "done"}]
    /\ answer \in [Keys -> {"nothing", "refs", "verified"}]
    /\ reader \in [Readers -> {NoRead} \cup [key : Keys, at : 1 .. MaxReads]]
    /\ view \in [Keys -> [current : BOOLEAN, late : BOOLEAN]]
    /\ sent \in [Keys -> Nat]
    /\ crashes \in 0 .. MaxCrashes

LEMMA LimitTypes ==
    MaxEpoch \in Nat /\ MaxVersions \in Nat /\ MaxReads \in Nat /\ MaxCrashes \in Nat
  BY LimitsAssumption

\* The types of both parts are those of the whole.
LEMMA TypesInParts == Types <=> PriceTypes /\ BookingTypes
  <1>1. Types => PriceTypes /\ BookingTypes
    BY DEF Types, HoldTypeOK, PriceTypes, BookingTypes, Offer, Quoted
  <1>2. ASSUME PriceTypes, BookingTypes
        PROVE  Types
    <2>1. ASSUME NEW o \in Offers, NEW v \in 1 .. Len(prices[o])
          PROVE  prices[o][v] \in Price
      <3>1. prices[o] \in Seq(Price)
        BY <1>2 DEF PriceTypes
      <3> HIDE DEF Price
      <3> QED BY <3>1, ElementOfSeq
    <2>2. \A k \in Keys : Made(k) => bookings[k] \in BookingType
      BY <1>2 DEF BookingTypes, Made
    <2> QED BY <1>2, <2>1, <2>2
            DEF Types, HoldTypeOK, PriceTypes, BookingTypes, Offer, Quoted, Price
  <1> QED BY <1>1, <1>2

\* HoldNext in two: what changes offers and prices, and what changes bookings
\* and their tasks.
PriceAction ==
    \/ \E t \in Settings : UpdateConnection(t)
    \/ \E c \in Contexts, granted \in BOOLEAN : UpdateClient(c, granted)
    \/ \E o \in Offers :
          \/ StartSearch(o) \/ Expire(o) \/ SavePrice(o) \/ RefusePrice(o)
          \/ \E direct \in BOOLEAN : PublishOffer(o, direct)
          \/ \E c \in authenticated : StartReprice(o, c) \/ AcceptPrice(o, c)
    \/ FailReprice

BookingAction ==
    \/ \E k \in Keys :
          \/ \E o \in Offers, v \in 1 .. MaxVersions, c \in authenticated : Quote(k, o, v, c)
          \/ Reserve(k) \/ Refuse(k)
          \/ Send(k) \/ Hear(k) \/ SaveOutcome(k) \/ LoseOutcome(k)
          \/ Age(k) \/ ViewBooking(k) \/ Resolve(k)
    \/ Crash
    \/ \E r \in Readers :
          \/ \E k \in Keys : StartRead(r, k)
          \/ \E verified \in BOOLEAN : SaveRead(r, verified)
          \/ FailRead(r)

LEMMA Actions ==
    ASSUME [HoldNext]_holdVars
    PROVE  PriceAction \/ BookingAction \/ UNCHANGED holdVars
  BY DEF HoldNext, PriceAction, BookingAction

bookingVars == <<call, bookings, taskVars, reader, view, crashes>>

LEMMA PriceActionKeeps ==
    ASSUME PriceAction
    PROVE  UNCHANGED bookingVars
  <1> USE DEF bookingVars
  <1>1. ASSUME NEW t \in Settings, UpdateConnection(t)
        PROVE  UNCHANGED bookingVars
    BY <1>1 DEF UpdateConnection
  <1>2. ASSUME NEW c, NEW granted, UpdateClient(c, granted)
        PROVE  UNCHANGED bookingVars
    BY <1>2 DEF UpdateClient
  <1>3. ASSUME NEW o \in Offers, StartSearch(o) \/ Expire(o)
        PROVE  UNCHANGED bookingVars
    BY <1>3 DEF StartSearch, Expire
  <1>4. ASSUME NEW o \in Offers, SavePrice(o) \/ RefusePrice(o)
        PROVE  UNCHANGED bookingVars
    BY <1>4 DEF SavePrice, RefusePrice
  <1>5. ASSUME NEW o \in Offers, NEW direct, PublishOffer(o, direct)
        PROVE  UNCHANGED bookingVars
    BY <1>5 DEF PublishOffer
  <1>6. ASSUME NEW o \in Offers, NEW c, StartReprice(o, c) \/ AcceptPrice(o, c)
        PROVE  UNCHANGED bookingVars
    BY <1>6 DEF StartReprice, AcceptPrice
  <1>7. ASSUME FailReprice
        PROVE  UNCHANGED bookingVars
    BY <1>7 DEF FailReprice
  <1> HIDE DEF bookingVars
  <1> QED BY <1>1, <1>2, <1>3, <1>4, <1>5, <1>6, <1>7 DEF PriceAction

LEMMA BookingActionKeeps ==
    ASSUME BookingAction
    PROVE  UNCHANGED priceVars /\ repricing' \in {repricing, NoReprice}
  <1> DEFINE Kept == UNCHANGED priceVars /\ repricing' \in {repricing, NoReprice}
  <1>1. ASSUME NEW k, NEW o, NEW v, NEW c, Quote(k, o, v, c)
        PROVE  Kept
    BY <1>1 DEF Quote
  <1>2. ASSUME NEW k, Reserve(k) \/ Refuse(k) \/ Send(k) \/ Hear(k)
        PROVE  Kept
    BY <1>2 DEF Reserve, Refuse, Send, Hear
  <1>3. ASSUME NEW k, SaveOutcome(k) \/ LoseOutcome(k) \/ Age(k) \/ ViewBooking(k) \/ Resolve(k)
        PROVE  Kept
    BY <1>3 DEF SaveOutcome, LoseOutcome, Age, ViewBooking, Resolve
  <1>4. ASSUME Crash
        PROVE  Kept
    BY <1>4 DEF Crash
  <1>5. ASSUME NEW r, NEW k, StartRead(r, k)
        PROVE  Kept
    BY <1>5 DEF StartRead
  <1>6. ASSUME NEW r, NEW verified, SaveRead(r, verified)
        PROVE  Kept
    BY <1>6 DEF SaveRead
  <1>7. ASSUME NEW r, FailRead(r)
        PROVE  Kept
    BY <1>7 DEF FailRead
  <1> HIDE DEF Kept
  <1>8. Kept
    BY <1>1, <1>2, <1>3, <1>4, <1>5, <1>6, <1>7 DEF BookingAction
  <1> QED BY <1>8 DEF Kept

\* An offer row stays an offer row; once searched, it keeps its epoch, and once
\* ready it stays ready and of its kind.
LEMMA OfferRows ==
    ASSUME PriceTypes, [HoldNext]_holdVars
    PROVE  /\ offers' \in [Offers -> Offer]
           /\ \A p \in Offers :
                 /\ offers[p] # Absent => offers'[p] # Absent
                                          /\ offers'[p].epoch = offers[p].epoch
                 /\ offers'[p].epoch \in {offers[p].epoch, connection.epoch}
                 /\ offers[p].stage = "ready" =>
                       offers'[p].stage = "ready" /\ offers'[p].direct = offers[p].direct
  <1> DEFINE Rows == /\ offers' \in [Offers -> Offer]
                     /\ \A p \in Offers :
                           /\ offers[p] # Absent => offers'[p] # Absent
                                                    /\ offers'[p].epoch = offers[p].epoch
                           /\ offers'[p].epoch \in {offers[p].epoch, connection.epoch}
                           /\ offers[p].stage = "ready" =>
                                 offers'[p].stage = "ready" /\ offers'[p].direct = offers[p].direct
  <1>0. offers \in [Offers -> Offer] /\ connection.epoch \in 0 .. MaxEpoch
    BY DEF PriceTypes
  <1>1. ASSUME NEW o \in Offers, NEW now \in Offer,
               offers' = [offers EXCEPT ![o] = now],
               offers[o] # Absent => now # Absent /\ now.epoch = offers[o].epoch,
               now.epoch \in {offers[o].epoch, connection.epoch},
               offers[o].stage = "ready" => now.stage = "ready" /\ now.direct = offers[o].direct
        PROVE  Rows
    BY <1>0, <1>1
  <1> HIDE DEF Rows
  <1>2. ASSUME NEW o \in Offers, NEW now \in Offer,
               offers' = [offers EXCEPT ![o] = now],
               now.stage # "absent", now.epoch = offers[o].epoch,
               offers[o].stage = "ready" => now.stage = "ready" /\ now.direct = offers[o].direct
        PROVE  Rows
    <2>1. now # Absent
      BY <1>2 DEF Absent
    <2> QED BY <1>1, <1>2, <2>1
  <1>3. ASSUME NEW o \in Offers, StartSearch(o)
        PROVE  Rows
    <2> DEFINE now == [offers[o] EXCEPT !.stage = "searching", !.epoch = connection.epoch]
    <2>1. /\ now \in Offer /\ now.epoch = connection.epoch /\ offers[o] = Absent
          /\ offers' = [offers EXCEPT ![o] = now]
      BY <1>0, <1>3 DEF StartSearch, Offer
    <2>2. offers[o].stage # "ready"
      BY <2>1 DEF Absent
    <2> HIDE DEF now
    <2> QED BY <1>1, <2>1, <2>2
  <1>4. ASSUME NEW o \in Offers, NEW direct \in BOOLEAN, PublishOffer(o, direct)
        PROVE  Rows
    <2> DEFINE now == [offers[o] EXCEPT !.stage = "ready", !.direct = direct]
    <2>1. /\ now \in Offer /\ now.epoch = offers[o].epoch /\ now.stage = "ready"
          /\ offers[o].stage = "searching"
          /\ offers' = [offers EXCEPT ![o] = now]
      BY <1>0, <1>4 DEF PublishOffer, Offer
    <2> HIDE DEF now
    <2> QED BY <1>2, <2>1
  <1>5. ASSUME NEW o \in Offers, Expire(o)
        PROVE  Rows
    <2> DEFINE now == [offers[o] EXCEPT !.expired = TRUE]
    <2>1. /\ now \in Offer /\ now.epoch = offers[o].epoch /\ now.stage = "ready"
          /\ now.direct = offers[o].direct
          /\ offers' = [offers EXCEPT ![o] = now]
      BY <1>0, <1>5 DEF Expire, Offer
    <2> HIDE DEF now
    <2> QED BY <1>2, <2>1
  <1>6. ASSUME NEW o \in Offers, SavePrice(o)
        PROVE  Rows
    <2> DEFINE now == [offers[o] EXCEPT !.required = FALSE]
    <2>1. /\ now \in Offer /\ now.epoch = offers[o].epoch /\ now.stage = "ready"
          /\ now.direct = offers[o].direct
          /\ offers' = [offers EXCEPT ![o] = now]
      BY <1>0, <1>6 DEF SavePrice, Available, Offer
    <2> HIDE DEF now
    <2> QED BY <1>2, <2>1
  <1>7. ASSUME NEW o \in Offers, RefusePrice(o)
        PROVE  Rows
    <2> DEFINE now == [offers[o] EXCEPT !.required = TRUE]
    <2>1. /\ now \in Offer /\ now.epoch = offers[o].epoch /\ now.stage = offers[o].stage
          /\ now.direct = offers[o].direct /\ now.required = TRUE
          /\ offers' = [offers EXCEPT ![o] = now]
      BY <1>0, <1>7 DEF RefusePrice, Offer
    <2>2. now # Absent
      BY <2>1 DEF Absent
    <2> HIDE DEF now
    <2> QED BY <1>1, <2>1, <2>2
  <1>8. ASSUME offers' = offers
        PROVE  Rows
    BY <1>0, <1>8 DEF Rows
  <1>9. Rows
    <2>1. ASSUME \/ \E t \in Settings : UpdateConnection(t)
                 \/ \E c \in Contexts, granted \in BOOLEAN : UpdateClient(c, granted)
                 \/ \E o \in Offers, c \in authenticated : StartReprice(o, c) \/ AcceptPrice(o, c)
                 \/ FailReprice
          PROVE  offers' = offers
      BY <2>1 DEF UpdateConnection, UpdateClient, StartReprice, AcceptPrice, FailReprice, priceVars
    <2>2. ASSUME PriceAction
          PROVE  Rows
      BY <1>3, <1>4, <1>5, <1>6, <1>7, <1>8, <2>1, <2>2 DEF PriceAction
    <2>3. ASSUME BookingAction \/ UNCHANGED holdVars
          PROVE  Rows
      BY <1>8, <2>3, BookingActionKeeps DEF priceVars, holdVars
    <2> QED BY <2>2, <2>3, Actions
  <1> QED BY <1>9 DEF Rows

\* Prices are appended and accepted; there are never more than the bound.
LEMMA PriceRows ==
    ASSUME PriceTypes, [HoldNext]_holdVars
    PROVE  /\ prices' \in [Offers -> Seq(Price)]
           /\ \A o \in Offers : Len(prices'[o]) <= MaxVersions
           /\ repricing' # NoReprice => Len(prices'[repricing'.offer]) < MaxVersions
           /\ repricing' \in {NoReprice} \cup [offer : Offers, context : Contexts]
  <1> DEFINE Rows == /\ prices' \in [Offers -> Seq(Price)]
                     /\ \A o \in Offers : Len(prices'[o]) <= MaxVersions
                     /\ repricing' # NoReprice => Len(prices'[repricing'.offer]) < MaxVersions
                     /\ repricing' \in {NoReprice} \cup [offer : Offers, context : Contexts]
  <1>0. /\ prices \in [Offers -> Seq(Price)]
        /\ \A o \in Offers : Len(prices[o]) <= MaxVersions
        /\ repricing \in {NoReprice} \cup [offer : Offers, context : Contexts]
        /\ repricing # NoReprice => Len(prices[repricing.offer]) < MaxVersions
        /\ authenticated \in SUBSET Contexts
        /\ MaxVersions \in Nat
    BY LimitTypes DEF PriceTypes
  <1>1. ASSUME prices' = prices, repricing' \in {repricing, NoReprice}
        PROVE  Rows
    BY <1>0, <1>1
  <1>2. ASSUME NEW o \in Offers, NEW c \in authenticated, StartReprice(o, c)
        PROVE  Rows
    <2>1. /\ repricing' = [offer |-> o, context |-> c] /\ prices' = prices
          /\ Len(prices[o]) < MaxVersions
      BY <1>2 DEF StartReprice, priceVars
    <2> QED BY <1>0, <2>1
  <1>3. ASSUME NEW o \in Offers, SavePrice(o)
        PROVE  Rows
    <2> DEFINE now == [context |-> repricing.context, accepted |-> FALSE]
    <2>1. /\ prices' = [prices EXCEPT ![o] = Append(prices[o], now)]
          /\ repricing' = NoReprice /\ repricing # NoReprice /\ repricing.offer = o
      BY <1>3 DEF SavePrice, Locked
    <2>2. now \in Price
      BY <1>0, <2>1 DEF Price
    <2>3. prices[o] \in Seq(Price) /\ Len(prices[o]) < MaxVersions
      BY <1>0, <2>1
    <2> HIDE DEF now
    <2>4. /\ Append(prices[o], now) \in Seq(Price)
          /\ Len(Append(prices[o], now)) = Len(prices[o]) + 1
      BY <2>2, <2>3, AppendProperties
    <2>5. Len(prices[o]) \in Nat
      BY <2>3, LenProperties
    <2> QED BY <1>0, <2>1, <2>3, <2>4, <2>5
  <1>4. ASSUME NEW o \in Offers, NEW c \in authenticated, AcceptPrice(o, c)
        PROVE  Rows
    <2> DEFINE v == Len(prices[o])
               now == [prices[o][v] EXCEPT !.accepted = TRUE]
    <2>1. /\ v > 0 /\ repricing' = repricing
          /\ prices' = [prices EXCEPT ![o] = [prices[o] EXCEPT ![v] = now]]
      BY <1>4 DEF AcceptPrice
    <2>2. prices[o] \in Seq(Price) /\ v \in Nat /\ v \in 1 .. Len(prices[o])
      BY <1>0, <2>1, LenProperties
    <2>3. prices[o][v] \in Price
      BY <2>2, ElementOfSeq
    <2>4. now \in Price
      BY <2>3 DEF Price
    <2> HIDE DEF now, v
    <2>5. [prices[o] EXCEPT ![v] = now] \in Seq(Price)
          /\ Len([prices[o] EXCEPT ![v] = now]) = Len(prices[o])
      BY <2>2, <2>4, ExceptSeq
    <2> QED BY <1>0, <2>1, <2>5
  <1> HIDE DEF Rows
  <1>6. Rows
    <2>1. ASSUME \/ \E t \in Settings : UpdateConnection(t)
                 \/ \E c \in Contexts, granted \in BOOLEAN : UpdateClient(c, granted)
                 \/ \E o \in Offers : StartSearch(o) \/ Expire(o) \/ RefusePrice(o)
                 \/ \E o \in Offers, direct \in BOOLEAN : PublishOffer(o, direct)
                 \/ FailReprice
          PROVE  prices' = prices /\ repricing' \in {repricing, NoReprice}
      BY <2>1 DEF UpdateConnection, UpdateClient, StartSearch, Expire, RefusePrice,
                  PublishOffer, FailReprice, priceVars
    <2>2. ASSUME PriceAction
          PROVE  Rows
      BY <1>1, <1>2, <1>3, <1>4, <2>1, <2>2 DEF PriceAction
    <2>3. ASSUME BookingAction \/ UNCHANGED holdVars
          PROVE  Rows
      BY <1>1, <2>3, BookingActionKeeps DEF priceVars, holdVars
    <2> QED BY <2>2, <2>3, Actions
  <1> QED BY <1>6 DEF Rows

LEMMA PriceTypesStep ==
    ASSUME PriceTypes, [HoldNext]_holdVars
    PROVE  PriceTypes'
  <1> DEFINE Rest == /\ client' \in [context : Contexts, granted : BOOLEAN]
                     /\ authenticated' \in SUBSET Contexts
                     /\ connection' \in [enabled : Settings, epoch : 0 .. MaxEpoch]
                     /\ interrupted' \in SUBSET Offers /\ refused' \in SUBSET Offers
  <1>0. /\ client \in [context : Contexts, granted : BOOLEAN]
        /\ authenticated \in SUBSET Contexts
        /\ connection \in [enabled : Settings, epoch : 0 .. MaxEpoch]
        /\ interrupted \in SUBSET Offers /\ refused \in SUBSET Offers
        /\ MaxEpoch \in Nat
    BY LimitTypes DEF PriceTypes
  <1>1. ASSUME UNCHANGED <<client, authenticated, connection, interrupted>>,
               refused' \in SUBSET Offers
        PROVE  Rest
    BY <1>0, <1>1
  <1>2. ASSUME NEW t \in Settings, UpdateConnection(t)
        PROVE  Rest
    BY <1>0, <1>2 DEF UpdateConnection
  <1>3. ASSUME NEW c \in Contexts, NEW granted \in BOOLEAN, UpdateClient(c, granted)
        PROVE  Rest
    BY <1>0, <1>3 DEF UpdateClient
  <1>4. ASSUME NEW o \in Offers, StartSearch(o) \/ Expire(o) \/ SavePrice(o) \/ RefusePrice(o)
        PROVE  UNCHANGED <<client, authenticated, connection, interrupted>>
               /\ refused' \in SUBSET Offers
    BY <1>0, <1>4 DEF StartSearch, Expire, SavePrice, RefusePrice
  <1>5. ASSUME \/ \E o \in Offers, direct \in BOOLEAN : PublishOffer(o, direct)
               \/ \E o \in Offers, c \in authenticated : StartReprice(o, c) \/ AcceptPrice(o, c)
               \/ FailReprice
        PROVE  UNCHANGED <<client, authenticated, connection, interrupted>>
               /\ refused' \in SUBSET Offers
    BY <1>0, <1>5 DEF PublishOffer, StartReprice, AcceptPrice, FailReprice, priceVars
  <1>6. ASSUME BookingAction \/ UNCHANGED holdVars
        PROVE  UNCHANGED <<client, authenticated, connection, interrupted>>
               /\ refused' \in SUBSET Offers
    BY <1>0, <1>6, BookingActionKeeps DEF priceVars, holdVars
  <1> HIDE DEF Rest
  <1>7. ASSUME PriceAction
        PROVE  Rest
    BY <1>1, <1>2, <1>3, <1>4, <1>5, <1>7 DEF PriceAction
  <1>8. Rest
    BY <1>1, <1>6, <1>7, Actions
  <1> QED BY <1>8, OfferRows, PriceRows DEF Rest, PriceTypes

-----------------------------------------------------------------------------
(* What each step makes of a booking *)

SameSale(a, b) == a.offer = b.offer /\ a.version = b.version
SameDecision(a, b) == a.state = b.state /\ a.late = b.late /\ a.informed = b.informed
SameReads(a, b) == a.observed = b.observed /\ a.shown = b.shown /\ a.limit = b.limit

\* The step makes this of the booking, and leaves the others as they are.
Becomes(k, now) == now \in BookingType /\ bookings' = [bookings EXCEPT ![k] = now]

LEMMA BookingKinds ==
    ASSUME BookingTypes, NEW k \in Keys
    PROVE  /\ bookings[k] \in BookingType \cup {NoBooking}
           /\ Made(k) <=> bookings[k] \in BookingType
  <1>1. \A b \in BookingType : b # NoBooking
    BY DEF BookingType, BookingStates, NoBooking
  <1> QED BY <1>1 DEF BookingTypes, Made

LEMMA ReserveBooking ==
    ASSUME PriceTypes, BookingTypes, NEW k \in Keys, Reserve(k)
    PROVE  \E now : /\ Becomes(k, now)
                    /\ now.offer = call[k].offer /\ now.version = call[k].version
                    /\ now.state = "pending"
                    /\ now.late = FALSE /\ now.informed = FALSE
                    /\ now.observed = {} /\ now.shown = 0 /\ now.limit = 0
  <1> DEFINE now == [state |-> "pending", offer |-> call[k].offer, version |-> call[k].version,
                     aged |-> FALSE, response |-> "nothing", receipt |-> "none",
                     late |-> FALSE, informed |-> FALSE,
                     started |-> 0, observed |-> {}, shown |-> 0, limit |-> 0]
  <1>1. call[k] \in Quoted
    BY DEF Reserve, BookingTypes
  <1>2. now \in BookingType
    BY <1>1, LimitTypes DEF Quoted, BookingType, BookingStates
  <1>3. bookings' = [bookings EXCEPT ![k] = now]
    BY DEF Reserve
  <1>4. /\ now.offer = call[k].offer /\ now.version = call[k].version
        /\ now.state = "pending"
        /\ now.late = FALSE /\ now.informed = FALSE
        /\ now.observed = {} /\ now.shown = 0 /\ now.limit = 0
    OBVIOUS
  <1> HIDE DEF now
  <1> QED BY <1>2, <1>3, <1>4 DEF Becomes

\* The worker's answer decides a booking that waits for it, and reopens one
\* that was decided without it.
LEMMA SaveBooking ==
    ASSUME BookingTypes, NEW k \in Keys, Made(k), SaveOutcome(k)
    PROVE  \E now : /\ Becomes(k, now)
                    /\ SameSale(now, bookings[k]) /\ SameReads(now, bookings[k])
                    /\ now.state \in {"held", "issued", "outcome_unknown"}
                    /\ bookings[k].state # "pending" =>
                          now.state = "outcome_unknown" /\ now.late = TRUE
  <1> DEFINE b == bookings[k]
  <1>1. b \in BookingType
    BY BookingKinds
  <1>2. bookings' = [bookings EXCEPT ![k] = Save(k)]
    BY DEF SaveOutcome
  <1>3. CASE b.state = "pending"
    <2>1. Outcome(k) \in {"held", "issued", "outcome_unknown"}
          /\ (Direct(k) => Outcome(k) \in {"issued", "outcome_unknown"})
      BY DEF Outcome
    <2>2. Evidence(k) \in {"nothing", "refs"}
      BY DEF Evidence
    <2> DEFINE now == [b EXCEPT !.state = Outcome(k), !.response = Evidence(k),
                                !.receipt = IF Direct(k) THEN Outcome(k) ELSE "none"]
    <2>3. now \in BookingType
      BY <1>1, <2>1, <2>2, ZenonT(90) DEF BookingType, BookingStates
    <2>4. SameSale(now, b) /\ SameReads(now, b) /\ now.state = Outcome(k)
      BY <1>1 DEF SameSale, SameReads, BookingType
    <2>5. Save(k) = now
      BY <1>3 DEF Save, SaveInTime
    <2> HIDE DEF now
    <2> QED BY <1>2, <1>3, <2>1, <2>3, <2>4, <2>5 DEF Becomes
  <1>4. CASE b.state # "pending"
    <2> DEFINE now == [b EXCEPT !.state = "outcome_unknown", !.late = TRUE,
                                !.response = IF Direct(k) \/ Evidence(k) = "nothing"
                                             THEN @ ELSE Evidence(k)]
    <2>2. Evidence(k) \in {"nothing", "refs"}
      BY DEF Evidence
    <2>3. now \in BookingType
      BY <1>1, <2>2 DEF BookingType, BookingStates
    <2>4. SameSale(now, b) /\ SameReads(now, b) /\ now.state = "outcome_unknown" /\ now.late = TRUE
      BY <1>1 DEF SameSale, SameReads, BookingType
    <2>5. Save(k) = now
      BY <1>4 DEF Save, SaveLate
    <2> HIDE DEF now
    <2> QED BY <1>2, <1>4, <2>3, <2>4, <2>5 DEF Becomes
  <1> QED BY <1>3, <1>4

LEMMA StartReadBooking ==
    ASSUME BookingTypes, NEW k \in Keys, NEW r \in Readers, StartRead(r, k)
    PROVE  /\ \E now : /\ Becomes(k, now)
                       /\ SameSale(now, bookings[k]) /\ SameDecision(now, bookings[k])
                       /\ SameReads(now, bookings[k])
           /\ Made(k)
           /\ \E at \in 1 .. MaxReads : reader' = [reader EXCEPT ![r] = [key |-> k, at |-> at]]
  <1> DEFINE b == bookings[k]
             now == [b EXCEPT !.started = b.started + 1]
  <1>1. Made(k) /\ b.started < MaxReads /\ bookings' = [bookings EXCEPT ![k] = now]
        /\ reader' = [reader EXCEPT ![r] = [key |-> k, at |-> b.started + 1]]
    BY DEF StartRead
  <1>2. b \in BookingType
    BY <1>1, BookingKinds
  <1>3. now \in BookingType /\ b.started + 1 \in 1 .. MaxReads
    BY <1>1, <1>2, LimitTypes DEF BookingType
  <1>4. SameSale(now, b) /\ SameDecision(now, b) /\ SameReads(now, b)
    BY <1>2 DEF SameSale, SameDecision, SameReads, BookingType
  <1> HIDE DEF now
  <1> QED BY <1>1, <1>3, <1>4 DEF Becomes

LEMMA AgeBooking ==
    ASSUME BookingTypes, NEW k \in Keys, Age(k)
    PROVE  /\ \E now : /\ Becomes(k, now)
                       /\ SameSale(now, bookings[k]) /\ SameDecision(now, bookings[k])
                       /\ SameReads(now, bookings[k])
           /\ Made(k)
  <1> DEFINE b == bookings[k]
             now == [b EXCEPT !.aged = TRUE]
  <1>1. Made(k) /\ bookings' = [bookings EXCEPT ![k] = now]
    BY DEF Age
  <1>2. b \in BookingType
    BY <1>1, BookingKinds
  <1>3. now \in BookingType
    BY <1>2 DEF BookingType
  <1>4. SameSale(now, b) /\ SameDecision(now, b) /\ SameReads(now, b)
    BY <1>2 DEF SameSale, SameDecision, SameReads, BookingType
  <1> HIDE DEF now
  <1> QED BY <1>1, <1>3, <1>4 DEF Becomes

LEMMA ResolveBooking ==
    ASSUME BookingTypes, NEW k \in Keys, Resolve(k)
    PROVE  /\ \E now : /\ Becomes(k, now)
                       /\ SameSale(now, bookings[k]) /\ SameReads(now, bookings[k])
                       /\ now.state = "manually_resolved" /\ now.informed = view[k].late
                       /\ now.late = bookings[k].late
           /\ Made(k) /\ view[k].current
           /\ bookings[k].state \in {"outcome_unknown", "pending"}
  <1> DEFINE b == bookings[k]
             now == [b EXCEPT !.state = "manually_resolved", !.informed = view[k].late]
  <1>1. /\ Made(k) /\ bookings' = [bookings EXCEPT ![k] = now]
        /\ view[k].current /\ b.state \in {"outcome_unknown", "pending"}
    BY DEF Resolve, SeenCurrent
  <1>2. b \in BookingType /\ view[k].late \in BOOLEAN
    BY <1>1, BookingKinds DEF BookingTypes
  <1>3. now \in BookingType
    BY <1>2 DEF BookingType, BookingStates
  <1>4. SameSale(now, b) /\ SameReads(now, b) /\ now.state = "manually_resolved"
        /\ now.informed = view[k].late /\ now.late = b.late
    BY <1>2 DEF SameSale, SameReads, BookingType
  <1> HIDE DEF now
  <1> QED BY <1>1, <1>3, <1>4 DEF Becomes

\* A read is kept, and shown if none that began later has been.
LEMMA SaveReadBooking ==
    ASSUME BookingTypes, NEW r \in Readers, NEW verified \in BOOLEAN,
           Made(reader[r].key), SaveRead(r, verified)
    PROVE  /\ \E k \in Keys, at \in 1 .. MaxReads : \E now :
                 /\ k = reader[r].key
                 /\ Becomes(k, now)
                 /\ SameSale(now, bookings[k]) /\ SameDecision(now, bookings[k])
                 /\ now.observed = bookings[k].observed
                                   \cup {[at |-> at, verified |-> verified]}
                 /\ \/ /\ bookings[k].shown <= at /\ now.shown = at
                       /\ now.limit = IF verified THEN at ELSE bookings[k].limit
                    \/ /\ bookings[k].shown > at /\ now.shown = bookings[k].shown
                       /\ now.limit = bookings[k].limit
           /\ reader' = [reader EXCEPT ![r] = NoRead]
  <1>0. reader[r] # NoRead /\ reader' = [reader EXCEPT ![r] = NoRead]
    BY DEF SaveRead
  <1>1. PICK k \in Keys, at \in 1 .. MaxReads : reader[r] = [key |-> k, at |-> at]
    BY <1>0 DEF BookingTypes
  <1> DEFINE b == bookings[k]
             o == b.observed \cup {[at |-> at, verified |-> verified]}
             l == IF verified THEN at ELSE b.limit
             kept == [b EXCEPT !.observed = o]
             newest == [kept EXCEPT !.shown = at, !.limit = l]
  <1>2. Made(k) /\ b \in BookingType
    BY <1>1, BookingKinds
  <1>3. o \in SUBSET [at : 1 .. MaxReads, verified : BOOLEAN] /\ l \in 0 .. MaxReads
        /\ b.shown \in Nat
    BY <1>2, LimitTypes DEF BookingType
  <1>4. reader[r].key = k /\ reader[r].at = at
    BY <1>1
  <1>5. \/ b.shown <= at /\ bookings' = [bookings EXCEPT ![k] = newest]
        \/ ~(b.shown <= at) /\ bookings' = [bookings EXCEPT ![k] = kept]
    BY <1>4 DEF SaveRead, Newest, Deadline
  <1> HIDE DEF o, l
  <1>6. /\ kept \in BookingType
        /\ SameSale(kept, b) /\ SameDecision(kept, b)
        /\ kept.observed = o /\ kept.shown = b.shown /\ kept.limit = b.limit
    BY <1>2, <1>3 DEF BookingType, SameSale, SameDecision
  <1> HIDE DEF kept
  <1>7. /\ newest \in BookingType
        /\ SameSale(newest, b) /\ SameDecision(newest, b)
        /\ newest.observed = o /\ newest.shown = at /\ newest.limit = l
    <2>1. at \in 0 .. MaxReads
      BY LimitTypes
    <2> QED BY <1>3, <1>6, <2>1 DEF BookingType, SameSale, SameDecision
  <1> HIDE DEF newest
  <1>8. CASE b.shown <= at
    <2>1. bookings' = [bookings EXCEPT ![k] = newest]
      BY <1>5, <1>8
    <2> QED BY <1>0, <1>4, <1>7, <1>8, <2>1 DEF Becomes, o, l
  <1>9. CASE ~(b.shown <= at)
    <2>1. bookings' = [bookings EXCEPT ![k] = kept] /\ b.shown > at
      BY <1>3, <1>5, <1>9
    <2> QED BY <1>0, <1>4, <1>6, <2>1 DEF Becomes, o
  <1> QED BY <1>8, <1>9

\* What the steps assume of what came before them.
WorkersKept == \A k \in Keys : DispatchKept(k)
ReadersKept == \A r \in Readers : reader[r] # NoRead => Made(reader[r].key)

\* Who changes a booking.
Changes(k) ==
    \/ Reserve(k) \/ Age(k) \/ Resolve(k)
    \/ SaveOutcome(k) /\ Made(k)
    \/ \E r \in Readers : StartRead(r, k)
    \/ \E r \in Readers, verified \in BOOLEAN :
          SaveRead(r, verified) /\ reader[r].key = k /\ Made(k)

LEMMA BookingChange ==
    ASSUME PriceTypes, BookingTypes, WorkersKept, NEW k \in Keys, Changes(k)
    PROVE  \E now : Becomes(k, now) /\ (Made(k) => SameSale(now, bookings[k]))
  <1>1. CASE Reserve(k)
    <2>1. ~Made(k)
      BY <1>1 DEF Reserve, WorkersKept, DispatchKept
    <2>2. \E now : Becomes(k, now)
      BY <1>1, ReserveBooking
    <2> QED BY <2>1, <2>2
  <1>2. CASE Age(k)
    BY <1>2, AgeBooking
  <1>3. CASE Resolve(k)
    BY <1>3, ResolveBooking
  <1>4. CASE SaveOutcome(k) /\ Made(k)
    BY <1>4, SaveBooking
  <1>5. ASSUME NEW r \in Readers, StartRead(r, k)
        PROVE  \E now : Becomes(k, now) /\ (Made(k) => SameSale(now, bookings[k]))
    BY <1>5, StartReadBooking
  <1>6. ASSUME NEW r \in Readers, NEW verified \in BOOLEAN,
               SaveRead(r, verified), reader[r].key = k, Made(k)
        PROVE  \E now : Becomes(k, now) /\ (Made(k) => SameSale(now, bookings[k]))
    <2>1. \E l \in Keys : \E now : l = reader[r].key /\ Becomes(l, now) /\ SameSale(now, bookings[l])
      BY <1>6, SaveReadBooking
    <2> QED BY <1>6, <2>1
  <1> QED BY <1>1, <1>2, <1>3, <1>4, <1>5, <1>6 DEF Changes

\* A step changes one booking, in one of these ways, or none.
LEMMA BookingCases ==
    ASSUME BookingTypes, WorkersKept, ReadersKept, [HoldNext]_holdVars
    PROVE  bookings' = bookings \/ \E k \in Keys : Changes(k)
  <1> DEFINE Goal == bookings' = bookings \/ \E k \in Keys : Changes(k)
  <1>1. ASSUME NEW k \in Keys, Reserve(k) \/ Age(k) \/ Resolve(k)
        PROVE  Goal
    BY <1>1 DEF Changes
  <1>2. ASSUME NEW k \in Keys, SaveOutcome(k)
        PROVE  Goal
    <2>1. worker[k] = "answered"
      BY <1>2 DEF SaveOutcome
    <2>2. Made(k)
      BY <2>1 DEF WorkersKept, DispatchKept
    <2> QED BY <1>2, <2>2 DEF Changes
  <1>3. ASSUME NEW r \in Readers, NEW k \in Keys, StartRead(r, k)
        PROVE  Goal
    BY <1>3 DEF Changes
  <1>4. ASSUME NEW r \in Readers, NEW verified \in BOOLEAN, SaveRead(r, verified)
        PROVE  Goal
    <2>1. reader[r] # NoRead
      BY <1>4 DEF SaveRead
    <2>2. reader[r] \in [key : Keys, at : 1 .. MaxReads]
      BY <2>1 DEF BookingTypes
    <2>3. reader[r].key \in Keys /\ Made(reader[r].key)
      BY <2>1, <2>2 DEF ReadersKept
    <2> QED BY <1>4, <2>3 DEF Changes
  <1>5. ASSUME NEW k \in Keys, NEW o, NEW v, NEW c, Quote(k, o, v, c)
        PROVE  Goal
    BY <1>5 DEF Quote
  <1>6. ASSUME NEW k \in Keys, Refuse(k) \/ Send(k) \/ Hear(k) \/ LoseOutcome(k) \/ ViewBooking(k)
        PROVE  Goal
    BY <1>6 DEF Refuse, Send, Hear, LoseOutcome, ViewBooking
  <1>7. ASSUME Crash \/ \E r \in Readers : FailRead(r)
        PROVE  Goal
    BY <1>7 DEF Crash, FailRead
  <1>8. ASSUME PriceAction \/ UNCHANGED holdVars
        PROVE  Goal
    BY <1>8, PriceActionKeeps DEF bookingVars, holdVars
  <1> HIDE DEF Goal
  <1>9. ASSUME BookingAction
        PROVE  Goal
    BY <1>1, <1>2, <1>3, <1>4, <1>5, <1>6, <1>7, <1>9 DEF BookingAction
  <1>10. Goal
    BY <1>8, <1>9, Actions
  <1> QED BY <1>10 DEF Goal

\* A booking is never unmade, and stays what it sells.
LEMMA BookingRows ==
    ASSUME PriceTypes, BookingTypes, WorkersKept, ReadersKept, [HoldNext]_holdVars
    PROVE  /\ bookings' \in [Keys -> BookingType \cup {NoBooking}]
           /\ \A k \in Keys :
                 /\ Made(k) => Made(k)' /\ SameSale(bookings'[k], bookings[k])
                 /\ bookings'[k] # bookings[k] => Changes(k)
  <1>0. bookings \in [Keys -> BookingType \cup {NoBooking}]
    BY DEF BookingTypes
  <1>1. \A b \in BookingType : b # NoBooking
    BY DEF BookingType, BookingStates, NoBooking
  <1>2. ASSUME NEW k \in Keys, Changes(k)
        PROVE  /\ bookings' \in [Keys -> BookingType \cup {NoBooking}]
               /\ \A l \in Keys :
                     /\ Made(l) => Made(l)' /\ SameSale(bookings'[l], bookings[l])
                     /\ bookings'[l] # bookings[l] => Changes(l)
    <2>1. PICK now : Becomes(k, now) /\ (Made(k) => SameSale(now, bookings[k]))
      BY <1>2, BookingChange
    <2>2. now \in BookingType /\ bookings' = [bookings EXCEPT ![k] = now]
      BY <2>1 DEF Becomes
    <2>3. bookings'[k] = now /\ \A l \in Keys : l # k => bookings'[l] = bookings[l]
      BY <1>0, <2>2
    <2>4. bookings' \in [Keys -> BookingType \cup {NoBooking}]
      BY <1>0, <2>2
    <2>5. ASSUME NEW l \in Keys
          PROVE  /\ Made(l) => Made(l)' /\ SameSale(bookings'[l], bookings[l])
                 /\ bookings'[l] # bookings[l] => Changes(l)
      <3>1. CASE l = k
        BY <1>1, <1>2, <2>1, <2>2, <2>3, <3>1 DEF Made
      <3>2. CASE l # k
        BY <2>3, <3>2 DEF Made, SameSale
      <3> QED BY <3>1, <3>2
    <2> QED BY <2>4, <2>5
  <1>3. CASE bookings' = bookings
    BY <1>0, <1>3 DEF Made, SameSale
  <1> QED BY <1>2, <1>3, BookingCases

TaskTypes ==
    /\ call \in [Keys -> {NoCall} \cup Quoted]
    /\ worker \in [Keys -> {"none", "spawned", "calling", "answered", "done"}]
    /\ answer \in [Keys -> {"nothing", "refs", "verified"}]
    /\ reader \in [Readers -> {NoRead} \cup [key : Keys, at : 1 .. MaxReads]]
    /\ view \in [Keys -> [current : BOOLEAN, late : BOOLEAN]]
    /\ sent \in [Keys -> Nat]
    /\ crashes \in 0 .. MaxCrashes

\* A change of a booking only makes what the staff saw out of date.
LEMMA TouchedView ==
    ASSUME view \in [Keys -> [current : BOOLEAN, late : BOOLEAN]], NEW k \in Keys, Touch(k)
    PROVE  /\ view' \in [Keys -> [current : BOOLEAN, late : BOOLEAN]]
           /\ ~view'[k].current
           /\ \A l \in Keys : l # k => view'[l] = view[l]
  <1> DEFINE now == [view[k] EXCEPT !.current = FALSE]
  <1>1. now \in [current : BOOLEAN, late : BOOLEAN] /\ now.current = FALSE
    OBVIOUS
  <1>2. view' = [view EXCEPT ![k] = now]
    BY DEF Touch
  <1> HIDE DEF now
  <1> QED BY <1>1, <1>2

LEMMA TaskTypesStep ==
    ASSUME PriceTypes, BookingTypes, WorkersKept, ReadersKept, [HoldNext]_holdVars
    PROVE  TaskTypes'
  <1>0. TaskTypes /\ authenticated \in SUBSET Contexts
    BY DEF BookingTypes, TaskTypes, PriceTypes
  <1>1. ASSUME UNCHANGED <<call, worker, answer, reader, view, sent, crashes>>
        PROVE  TaskTypes'
    BY <1>0, <1>1 DEF TaskTypes
  <1>2. ASSUME NEW k \in Keys, NEW o \in Offers, NEW v \in 1 .. MaxVersions,
               NEW c \in Contexts, Quote(k, o, v, c)
        PROVE  TaskTypes'
    <2> DEFINE now == [at |-> "quoted", offer |-> o, version |-> v, context |-> c,
                       accepted |-> prices[o][v].accepted,
                       latest |-> v = Len(prices[o])]
    <2>1. v \in 1 .. Len(prices[o]) /\ call' = [call EXCEPT ![k] = now]
          /\ UNCHANGED <<worker, answer, reader, view, sent, crashes>>
      BY <1>2 DEF Quote, taskVars
    <2>2. prices[o] \in Seq(Price)
      BY DEF PriceTypes
    <2>3. prices[o][v] \in Price
      BY <2>1, <2>2, ElementOfSeq
    <2>4. prices[o][v].accepted \in BOOLEAN
      BY <2>3 DEF Price
    <2>5. now \in Quoted
      BY <2>4 DEF Quoted
    <2> HIDE DEF now
    <2> QED BY <1>0, <2>1, <2>5 DEF TaskTypes
  <1>3. ASSUME NEW k \in Keys, Reserve(k) \/ Refuse(k)
        PROVE  TaskTypes'
    BY <1>0, <1>3 DEF Reserve, Refuse, TaskTypes, taskVars
  <1>4. ASSUME NEW k \in Keys, Send(k)
        PROVE  TaskTypes'
    <2>1. sent[k] + 1 \in Nat
      BY <1>0 DEF TaskTypes
    <2> QED BY <1>0, <1>4, <2>1 DEF Send, TaskTypes
  <1>5. ASSUME NEW k \in Keys, Hear(k)
        PROVE  TaskTypes'
    BY <1>0, <1>5 DEF Hear, TaskTypes
  <1>6. ASSUME NEW k \in Keys, SaveOutcome(k) \/ LoseOutcome(k)
        PROVE  TaskTypes'
    <2>1. /\ worker' = [worker EXCEPT ![k] = "done"]
          /\ answer' = [answer EXCEPT ![k] = "nothing"]
          /\ UNCHANGED <<call, reader, sent, crashes>>
          /\ Touch(k) \/ UNCHANGED view
      BY <1>6 DEF SaveOutcome, LoseOutcome
    <2>2. view' \in [Keys -> [current : BOOLEAN, late : BOOLEAN]]
      BY <1>0, <2>1, TouchedView DEF TaskTypes
    <2> QED BY <1>0, <2>1, <2>2 DEF TaskTypes
  <1>7. ASSUME NEW k \in Keys, Age(k) \/ Resolve(k)
        PROVE  TaskTypes'
    <2>1. UNCHANGED <<call, worker, answer, reader, sent, crashes>>
          /\ (Touch(k) \/ UNCHANGED view)
      BY <1>7 DEF Age, Resolve, taskVars
    <2>2. view' \in [Keys -> [current : BOOLEAN, late : BOOLEAN]]
      BY <1>0, <2>1, TouchedView DEF TaskTypes
    <2> QED BY <1>0, <2>1, <2>2 DEF TaskTypes
  <1>8. ASSUME NEW k \in Keys, ViewBooking(k)
        PROVE  TaskTypes'
    <2>1. Made(k) /\ view' = [view EXCEPT ![k] = [current |-> TRUE, late |-> bookings[k].late]]
          /\ UNCHANGED <<call, worker, answer, reader, sent, crashes>>
      BY <1>8 DEF ViewBooking, taskVars
    <2>2. bookings[k].late \in BOOLEAN
      BY <2>1, BookingKinds DEF BookingType
    <2> QED BY <1>0, <2>1, <2>2 DEF TaskTypes
  <1>9. ASSUME Crash
        PROVE  TaskTypes'
    <2>1. crashes' \in 0 .. MaxCrashes
      BY <1>0, <1>9, LimitTypes DEF Crash, TaskTypes
    <2> QED BY <1>0, <1>9, <2>1 DEF Crash, TaskTypes
  <1>10. ASSUME NEW r \in Readers, NEW k \in Keys, StartRead(r, k)
         PROVE  TaskTypes'
    <2>1. \E at \in 1 .. MaxReads : reader' = [reader EXCEPT ![r] = [key |-> k, at |-> at]]
      BY <1>10, StartReadBooking
    <2>2. UNCHANGED <<call, worker, answer, view, sent, crashes>>
      BY <1>10 DEF StartRead, taskVars
    <2> QED BY <1>0, <2>1, <2>2 DEF TaskTypes
  <1>11. ASSUME NEW r \in Readers, NEW verified \in BOOLEAN, SaveRead(r, verified)
         PROVE  TaskTypes'
    <2>1. reader[r] # NoRead /\ reader' = [reader EXCEPT ![r] = NoRead]
          /\ UNCHANGED <<call, worker, answer, sent, crashes>>
          /\ (Touch(reader[r].key) \/ UNCHANGED view)
      BY <1>11 DEF SaveRead, taskVars
    <2>2. reader[r].key \in Keys
      BY <1>0, <2>1 DEF TaskTypes
    <2>3. view' \in [Keys -> [current : BOOLEAN, late : BOOLEAN]]
      BY <1>0, <2>1, <2>2, TouchedView DEF TaskTypes
    <2> QED BY <1>0, <2>1, <2>3 DEF TaskTypes
  <1>12. ASSUME NEW r \in Readers, FailRead(r)
         PROVE  TaskTypes'
    BY <1>0, <1>12 DEF FailRead, TaskTypes, taskVars
  <1>13. ASSUME BookingAction
         PROVE  TaskTypes'
    BY <1>0, <1>2, <1>3, <1>4, <1>5, <1>6, <1>7, <1>8, <1>9, <1>10, <1>11, <1>12, <1>13
       DEF BookingAction
  <1>14. ASSUME PriceAction \/ UNCHANGED holdVars
         PROVE  TaskTypes'
    BY <1>1, <1>14, PriceActionKeeps DEF bookingVars, holdVars, taskVars
  <1> QED BY <1>13, <1>14, Actions

LEMMA TypesStep ==
    ASSUME Types, WorkersKept, ReadersKept, [HoldNext]_holdVars
    PROVE  Types'
  <1>1. PriceTypes /\ BookingTypes
    BY TypesInParts
  <1>2. PriceTypes'
    BY <1>1, PriceTypesStep
  <1>3. BookingTypes'
    BY <1>1, TaskTypesStep, BookingRows DEF TaskTypes, BookingTypes
  <1>4. (PriceTypes /\ BookingTypes => Types)'
    BY TypesInParts, PTL
  <1> QED BY <1>2, <1>3, <1>4

-----------------------------------------------------------------------------
(* The parts of the invariant *)

\* A new epoch leaves the offers behind that were searched before it.
LEMMA OfferKeptStep ==
    ASSUME PriceTypes, \A o \in Offers : OfferKept(o), [HoldNext]_holdVars
    PROVE  \A o \in Offers : OfferKept(o)'
  <1> SUFFICES ASSUME NEW p \in Offers PROVE OfferKept(p)'
    OBVIOUS
  <1>0. /\ offers \in [Offers -> Offer] /\ connection.epoch \in Nat
        /\ \A o \in Offers : offers[o].epoch \in Nat
    <2>1. \A e \in 0 .. MaxEpoch : e \in Nat
      BY LimitTypes
    <2> QED BY <2>1 DEF PriceTypes, Offer
  <1>1. /\ offers[p] # Absent => offers'[p] # Absent /\ offers'[p].epoch = offers[p].epoch
        /\ offers'[p].epoch \in {offers[p].epoch, connection.epoch}
    BY OfferRows
  <1>2. OfferKept(p)
    OBVIOUS
  <1>3. ASSUME connection' = connection, interrupted' = interrupted,
               p \in refused' => offers'[p].required
        PROVE  OfferKept(p)'
    BY <1>0, <1>1, <1>2, <1>3 DEF OfferKept
  <1>4. ASSUME NEW t \in Settings, UpdateConnection(t)
        PROVE  OfferKept(p)'
    <2>1. /\ offers' = offers /\ refused' = refused
          /\ \/ connection'.epoch = connection.epoch /\ interrupted' = interrupted
             \/ /\ connection'.epoch = connection.epoch + 1
                /\ interrupted' = {o \in Offers : offers[o] # Absent}
      BY <1>0, <1>4 DEF UpdateConnection
    <2> QED BY <1>0, <1>2, <2>1 DEF OfferKept
  <1>5. ASSUME NEW o \in Offers, StartSearch(o) \/ Expire(o) \/ SavePrice(o) \/ RefusePrice(o)
        PROVE  connection' = connection /\ interrupted' = interrupted
               /\ (p \in refused' => offers'[p].required)
    <2>1. connection' = connection /\ interrupted' = interrupted
      BY <1>5 DEF StartSearch, Expire, SavePrice, RefusePrice
    <2>2. p \in refused' => offers'[p].required
      <3>1. CASE StartSearch(o) \/ Expire(o)
        BY <1>0, <1>2, <3>1 DEF StartSearch, Expire, OfferKept, Offer
      <3>2. CASE SavePrice(o)
        BY <1>0, <1>2, <3>2 DEF SavePrice, OfferKept, Offer
      <3>3. CASE RefusePrice(o)
        BY <1>0, <1>2, <3>3 DEF RefusePrice, OfferKept, Offer
      <3> QED BY <1>5, <3>1, <3>2, <3>3
    <2> QED BY <2>1, <2>2
  <1>6. ASSUME NEW o \in Offers, NEW direct, PublishOffer(o, direct)
        PROVE  connection' = connection /\ interrupted' = interrupted
               /\ (p \in refused' => offers'[p].required)
    BY <1>0, <1>2, <1>6 DEF PublishOffer, OfferKept, Offer
  <1>7. ASSUME \/ \E c \in Contexts, granted \in BOOLEAN : UpdateClient(c, granted)
               \/ \E o \in Offers, c \in authenticated : StartReprice(o, c) \/ AcceptPrice(o, c)
               \/ FailReprice \/ BookingAction \/ UNCHANGED holdVars
        PROVE  connection' = connection /\ interrupted' = interrupted
               /\ (p \in refused' => offers'[p].required)
    <2>1. UNCHANGED <<connection, interrupted, refused, offers>>
      BY <1>7, BookingActionKeeps
         DEF UpdateClient, StartReprice, AcceptPrice, FailReprice, priceVars, holdVars
    <2> QED BY <1>2, <2>1 DEF OfferKept
  <1>8. ASSUME PriceAction
        PROVE  OfferKept(p)'
    BY <1>3, <1>4, <1>5, <1>6, <1>7, <1>8 DEF PriceAction
  <1> QED BY <1>3, <1>7, <1>8, Actions

\* A booking comes from nothing only when it is reserved.
LEMMA NewBooking ==
    ASSUME PriceTypes, BookingTypes, WorkersKept, ReadersKept,
           NEW k \in Keys, ~Made(k), Made(k)', [HoldNext]_holdVars
    PROVE  Reserve(k)
  <1>1. Changes(k)
    BY BookingRows DEF Made
  <1> QED BY <1>1, AgeBooking, ResolveBooking, StartReadBooking DEF Changes

\* An offer is sold ready, and stays so.
LEMMA OfferSoldStep ==
    ASSUME PriceTypes, BookingTypes, WorkersKept, ReadersKept,
           NEW k \in Keys, OfferSold(k), [HoldNext]_holdVars
    PROVE  OfferSold(k)'
  <1> SUFFICES ASSUME Made(k)'
               PROVE  offers'[bookings'[k].offer].stage = "ready"
    BY DEF OfferSold
  <1>1. CASE Made(k)
    <2>1. bookings'[k].offer = bookings[k].offer
      BY <1>1, BookingRows DEF SameSale
    <2>2. bookings[k].offer \in Offers
      BY <1>1, BookingKinds DEF BookingType
    <2> QED BY <1>1, <2>1, <2>2, OfferRows DEF OfferSold
  <1>2. CASE ~Made(k)
    <2>1. Reserve(k)
      BY <1>2, NewBooking
    <2>2. PICK now : Becomes(k, now) /\ now.offer = call[k].offer
      BY <2>1, ReserveBooking
    <2>3. bookings'[k] = now
      BY <2>2 DEF Becomes, BookingTypes
    <2>4. offers[call[k].offer].stage = "ready" /\ offers' = offers
      BY <2>1 DEF Reserve, Available, priceVars
    <2> QED BY <2>2, <2>3, <2>4
  <1> QED BY <1>1, <1>2

\* A direct offer is sold to one booking only: it is looked for, under the
\* authority lock, in the step that reserves.
LEMMA DirectOnceStep ==
    ASSUME PriceTypes, BookingTypes, WorkersKept, ReadersKept,
           NEW k \in Keys, NEW l \in Keys, DirectOnce(k, l), OfferSold(k), OfferSold(l),
           [HoldNext]_holdVars
    PROVE  DirectOnce(k, l)'
  <1> SUFFICES ASSUME Made(k)', Made(l)', bookings'[k].offer = bookings'[l].offer,
                      offers'[bookings'[k].offer].direct, k # l
               PROVE  FALSE
    BY DEF DirectOnce
  <1>1. ASSUME NEW a \in Keys, NEW b \in Keys, a # b, Reserve(a), Made(b)',
               bookings'[a].offer = bookings'[b].offer, offers'[bookings'[a].offer].direct
        PROVE  FALSE
    <2>1. PICK now : Becomes(a, now) /\ now.offer = call[a].offer
      BY <1>1, ReserveBooking
    <2>2. bookings'[a] = now /\ bookings'[b] = bookings[b]
      BY <1>1, <2>1 DEF Becomes, BookingTypes
    <2>3. Made(b) /\ bookings[b].offer = call[a].offer /\ offers'[call[a].offer].direct
      BY <1>1, <2>1, <2>2 DEF Made
    <2>4. /\ offers' = offers
          /\ offers[call[a].offer].direct => DirectAllowed(call[a].offer)
      BY <1>1 DEF Reserve, priceVars
    <2> QED BY <2>3, <2>4 DEF DirectAllowed
  <1>2. CASE Made(k) /\ Made(l)
    <2>1. bookings'[k].offer = bookings[k].offer /\ bookings'[l].offer = bookings[l].offer
      BY <1>2, BookingRows DEF SameSale
    <2>2. bookings[k].offer \in Offers
      BY <1>2, BookingKinds DEF BookingType
    <2>3. offers'[bookings[k].offer].direct = offers[bookings[k].offer].direct
      BY <1>2, <2>2, OfferRows DEF OfferSold
    <2> QED BY <1>2, <2>1, <2>3 DEF DirectOnce
  <1>3. CASE ~Made(k)
    BY <1>1, <1>3, NewBooking
  <1>4. CASE ~Made(l)
    BY <1>1, <1>4, NewBooking
  <1> QED BY <1>2, <1>3, <1>4

\* Only the worker and the staff decide.
LEMMA DecisionRows ==
    ASSUME PriceTypes, BookingTypes, WorkersKept, ReadersKept,
           NEW k \in Keys, Made(k), [HoldNext]_holdVars
    PROVE  SameDecision(bookings'[k], bookings[k]) \/ SaveOutcome(k) \/ Resolve(k)
  <1>0. \A now : Becomes(k, now) => bookings'[k] = now
    BY DEF Becomes, BookingTypes
  <1>1. CASE bookings'[k] = bookings[k]
    BY <1>1 DEF SameDecision
  <1>2. ASSUME Changes(k)
        PROVE  SameDecision(bookings'[k], bookings[k]) \/ SaveOutcome(k) \/ Resolve(k)
    <2>1. CASE Reserve(k)
      BY <2>1 DEF Reserve, WorkersKept, DispatchKept
    <2>2. CASE Age(k)
      BY <1>0, <2>2, AgeBooking
    <2>3. ASSUME NEW r \in Readers, StartRead(r, k)
          PROVE  SameDecision(bookings'[k], bookings[k])
      BY <1>0, <2>3, StartReadBooking
    <2>4. ASSUME NEW r \in Readers, NEW verified \in BOOLEAN,
                 SaveRead(r, verified), reader[r].key = k
          PROVE  SameDecision(bookings'[k], bookings[k])
      <3>1. \E l \in Keys : \E now : l = reader[r].key /\ Becomes(l, now)
                                 /\ SameDecision(now, bookings[l])
        BY <2>4, SaveReadBooking
      <3> QED BY <1>0, <2>4, <3>1
    <2> QED BY <1>2, <2>1, <2>2, <2>3, <2>4 DEF Changes
  <1> QED BY <1>1, <1>2, BookingRows

\* Only a read that is saved changes what is displayed.
LEMMA ReadRows ==
    ASSUME PriceTypes, BookingTypes, WorkersKept, ReadersKept,
           NEW k \in Keys, Made(k), [HoldNext]_holdVars
    PROVE  \/ SameReads(bookings'[k], bookings[k])
           \/ \E r \in Readers, verified \in BOOLEAN :
                 SaveRead(r, verified) /\ reader[r].key = k
  <1>0. \A now : Becomes(k, now) => bookings'[k] = now
    BY DEF Becomes, BookingTypes
  <1>1. CASE bookings'[k] = bookings[k]
    BY <1>1 DEF SameReads
  <1>2. CASE Reserve(k)
    BY <1>2 DEF Reserve, WorkersKept, DispatchKept
  <1>3. CASE Age(k)
    BY <1>0, <1>3, AgeBooking
  <1>4. CASE Resolve(k)
    BY <1>0, <1>4, ResolveBooking
  <1>5. CASE SaveOutcome(k)
    BY <1>0, <1>5, SaveBooking
  <1>6. ASSUME NEW r \in Readers, StartRead(r, k)
        PROVE  SameReads(bookings'[k], bookings[k])
    BY <1>0, <1>6, StartReadBooking
  <1> QED BY <1>1, <1>2, <1>3, <1>4, <1>5, <1>6, BookingRows DEF Changes

\* What a step does to the Book request and to the worker of a booking: it is
\* spawned by the reservation, sends once and ends.
WorkerMoves(p) ==
    \/ worker'[p] = worker[p] /\ sent'[p] = sent[p]
    \/ Reserve(p) /\ worker'[p] = "spawned" /\ sent'[p] = sent[p]
    \/ worker[p] = "spawned" /\ worker'[p] = "calling" /\ sent'[p] = sent[p] + 1
    \/ worker[p] = "calling" /\ worker'[p] = "answered" /\ sent'[p] = sent[p]
    \/ worker[p] # "none" /\ worker'[p] = "done" /\ sent'[p] = sent[p]

LEMMA WorkerRows ==
    ASSUME BookingTypes, [HoldNext]_holdVars, NEW p \in Keys
    PROVE  /\ WorkerMoves(p)
           /\ call'[p] # NoCall => ~Reserve(p) /\ (call[p] # NoCall \/ ~Made(p))
           /\ SaveOutcome(p) => worker'[p] = "done"
  <1> DEFINE Moves == /\ WorkerMoves(p)
                      /\ call'[p] # NoCall => ~Reserve(p) /\ (call[p] # NoCall \/ ~Made(p))
  <1>0. /\ call \in [Keys -> {NoCall} \cup Quoted]
        /\ worker \in [Keys -> {"none", "spawned", "calling", "answered", "done"}]
        /\ sent \in [Keys -> Nat]
    BY DEF BookingTypes
  <1>1. SaveOutcome(p) => worker'[p] = "done"
    BY <1>0 DEF SaveOutcome
  <1>2. Reserve(p) => call'[p] = NoCall
    BY <1>0 DEF Reserve
  <1>3. ASSUME call'[p] \in {call[p], NoCall}, WorkerMoves(p)
        PROVE  Moves
    BY <1>2, <1>3
  <1>4. ASSUME call' = call, worker' = worker, sent' = sent
        PROVE  Moves
    BY <1>3, <1>4 DEF WorkerMoves
  <1>5. ASSUME NEW k \in Keys, NEW o, NEW v, NEW c, Quote(k, o, v, c)
        PROVE  Moves
    BY <1>0, <1>2, <1>5 DEF Quote, WorkerMoves, taskVars
  <1>6. ASSUME NEW k \in Keys, Reserve(k)
        PROVE  Moves
    <2>1. /\ worker' = [worker EXCEPT ![k] = "spawned"]
          /\ call' = [call EXCEPT ![k] = NoCall] /\ sent' = sent
      BY <1>6 DEF Reserve
    <2>2. WorkerMoves(p)
      BY <1>0, <1>6, <2>1 DEF WorkerMoves
    <2> QED BY <1>0, <1>2, <2>1, <2>2
  <1>7. ASSUME NEW k \in Keys, Refuse(k)
        PROVE  Moves
    BY <1>0, <1>2, <1>7 DEF Refuse, WorkerMoves, taskVars
  <1>8. ASSUME NEW k \in Keys, Send(k)
        PROVE  Moves
    BY <1>0, <1>2, <1>8 DEF Send, WorkerMoves
  <1>9. ASSUME NEW k \in Keys, Hear(k)
        PROVE  Moves
    BY <1>0, <1>2, <1>9 DEF Hear, WorkerMoves
  <1>10. ASSUME NEW k \in Keys, SaveOutcome(k) \/ LoseOutcome(k)
         PROVE  Moves
    <2>1. worker[k] = "answered" /\ worker' = [worker EXCEPT ![k] = "done"]
          /\ UNCHANGED <<call, sent>>
      BY <1>10 DEF SaveOutcome, LoseOutcome
    <2> QED BY <1>0, <1>2, <2>1 DEF WorkerMoves
  <1>11. ASSUME Crash
         PROVE  Moves
    BY <1>0, <1>2, <1>11 DEF Crash, WorkerMoves
  <1>12. ASSUME \/ \E k \in Keys : Age(k) \/ ViewBooking(k) \/ Resolve(k)
                \/ \E r \in Readers, k \in Keys : StartRead(r, k)
                \/ \E r \in Readers, verified \in BOOLEAN : SaveRead(r, verified)
                \/ \E r \in Readers : FailRead(r)
         PROVE  Moves
    <2>1. UNCHANGED <<call, worker, sent>>
      BY <1>12 DEF Age, ViewBooking, Resolve, StartRead, SaveRead, FailRead, taskVars
    <2> QED BY <1>4, <2>1, SMTT(60)
  <1>13. ASSUME PriceAction \/ UNCHANGED holdVars
         PROVE  Moves
    BY <1>4, <1>13, PriceActionKeeps DEF bookingVars, holdVars, taskVars
  <1> HIDE DEF Moves
  <1>14. ASSUME BookingAction
         PROVE  Moves
    BY <1>5, <1>6, <1>7, <1>8, <1>9, <1>10, <1>11, <1>12, <1>14 DEF BookingAction
  <1>15. Moves
    BY <1>13, <1>14, Actions
  <1> QED BY <1>1, <1>15 DEF Moves

LEMMA DispatchKeptStep ==
    ASSUME PriceTypes, BookingTypes, WorkersKept, ReadersKept,
           NEW p \in Keys, [HoldNext]_holdVars
    PROVE  DispatchKept(p)'
  <1>0. DispatchKept(p) /\ sent[p] \in Nat
        /\ worker[p] \in {"none", "spawned", "calling", "answered", "done"}
    BY DEF WorkersKept, BookingTypes
  <1>1. /\ WorkerMoves(p)
        /\ call'[p] # NoCall => ~Reserve(p) /\ (call[p] # NoCall \/ ~Made(p))
        /\ SaveOutcome(p) => worker'[p] = "done"
    BY WorkerRows
  <1>2. Reserve(p) => ~Made(p) /\ bookings'[p].state = "pending" /\ Made(p)'
    <2> SUFFICES ASSUME Reserve(p) PROVE ~Made(p) /\ bookings'[p].state = "pending" /\ Made(p)'
      OBVIOUS
    <2>1. PICK now : Becomes(p, now) /\ now.state = "pending"
      BY ReserveBooking
    <2>2. bookings'[p] = now
      BY <2>1 DEF Becomes, BookingTypes
    <2> QED BY <1>0, <2>1, <2>2 DEF Reserve, DispatchKept, Made, NoBooking
  <1>3. Made(p) => Made(p)'
    BY BookingRows
  <1>4. ~Made(p) /\ Made(p)' => Reserve(p)
    BY NewBooking
  <1>5. /\ call'[p] # NoCall => ~Made(p)'
        /\ ~Made(p)' => worker'[p] = "none"
        /\ worker'[p] \in {"none", "spawned"} => sent'[p] = 0
        /\ sent'[p] <= 1
    BY <1>0, <1>1, <1>2, <1>3, <1>4 DEF DispatchKept, WorkerMoves
  <1>6. Active(p)' => bookings'[p].state \in {"pending", "manually_resolved"}
    <2> SUFFICES ASSUME Active(p)'
                 PROVE  bookings'[p].state \in {"pending", "manually_resolved"}
      OBVIOUS
    <2>1. CASE Reserve(p)
      BY <1>2, <2>1
    <2>2. CASE ~Reserve(p)
      <3>1. Active(p)
        BY <1>1, <2>2 DEF Active, WorkerMoves
      <3>2. Made(p) /\ bookings[p].state \in {"pending", "manually_resolved"}
        BY <1>0, <3>1 DEF Active, DispatchKept
      <3>3. ~SaveOutcome(p)
        BY <1>1 DEF Active
      <3>4. CASE Resolve(p)
        <4>1. \E now : Becomes(p, now) /\ now.state = "manually_resolved"
          BY <3>4, ResolveBooking
        <4> QED BY <4>1 DEF Becomes, BookingTypes
      <3>5. CASE SameDecision(bookings'[p], bookings[p])
        BY <3>2, <3>5 DEF SameDecision
      <3> QED BY <3>2, <3>3, <3>4, <3>5, DecisionRows
    <2> QED BY <2>1, <2>2
  <1> QED BY <1>5, <1>6 DEF DispatchKept

\* A reader reads a booking that was made.
LEMMA ReadersKeptStep ==
    ASSUME PriceTypes, BookingTypes, WorkersKept, ReadersKept, [HoldNext]_holdVars
    PROVE  ReadersKept'
  <1>0. reader \in [Readers -> {NoRead} \cup [key : Keys, at : 1 .. MaxReads]]
        /\ \A k \in Keys : Made(k) => Made(k)'
    BY BookingRows DEF BookingTypes
  <1>1. ASSUME NEW r \in Readers, reader' = [reader EXCEPT ![r] = NoRead] \/ reader' = reader
        PROVE  ReadersKept'
    BY <1>0, <1>1 DEF ReadersKept, NoRead
  <1>2. ASSUME NEW r \in Readers, NEW k \in Keys, StartRead(r, k)
        PROVE  ReadersKept'
    <2>1. PICK at \in 1 .. MaxReads : reader' = [reader EXCEPT ![r] = [key |-> k, at |-> at]]
      BY <1>2, StartReadBooking
    <2>2. Made(k)'
      BY <1>0, <1>2 DEF StartRead
    <2> QED BY <1>0, <2>1, <2>2 DEF ReadersKept, NoRead
  <1>3. ASSUME reader' = reader \/ reader' = [r \in Readers |-> NoRead]
        PROVE  ReadersKept'
    BY <1>0, <1>3, SMTT(60) DEF ReadersKept, NoRead
  <1>4. ASSUME \/ \E k \in Keys : \/ Reserve(k) \/ Refuse(k) \/ Send(k) \/ Hear(k)
                                  \/ SaveOutcome(k) \/ LoseOutcome(k) \/ Age(k)
                                  \/ ViewBooking(k) \/ Resolve(k)
               \/ \E k \in Keys, o \in Offers, v \in 1 .. MaxVersions, c \in authenticated :
                     Quote(k, o, v, c)
        PROVE  reader' = reader
    BY <1>4, ZenonT(90) DEF Reserve, Refuse, Send, Hear, SaveOutcome, LoseOutcome, Age, ViewBooking,
                Resolve, Quote
  <1>5. ASSUME NEW r \in Readers, FailRead(r) \/ \E verified \in BOOLEAN : SaveRead(r, verified)
        PROVE  reader' = [reader EXCEPT ![r] = NoRead]
    BY <1>5 DEF FailRead, SaveRead
  <1>6. ASSUME Crash
        PROVE  reader' = [r \in Readers |-> NoRead]
    BY <1>6 DEF Crash
  <1>7. ASSUME BookingAction
        PROVE  ReadersKept'
    BY <1>1, <1>2, <1>3, <1>4, <1>5, <1>6, <1>7 DEF BookingAction
  <1>8. ASSUME PriceAction \/ UNCHANGED holdVars
        PROVE  reader' = reader
    BY <1>8, PriceActionKeeps DEF bookingVars, holdVars
  <1> QED BY <1>3, <1>7, <1>8, Actions

\* What the staff saw is out of date once a booking was decided.
LEMMA ViewRows ==
    ASSUME BookingTypes, ReadersKept, [HoldNext]_holdVars, NEW p \in Keys
    PROVE  /\ \/ view'[p] = view[p]
              \/ ~view'[p].current
              \/ view'[p].late = bookings[p].late /\ Made(p) /\ bookings' = bookings
           /\ SaveOutcome(p) \/ Resolve(p) => ~view'[p].current
  <1> DEFINE Seen == \/ view'[p] = view[p]
                     \/ ~view'[p].current
                     \/ view'[p].late = bookings[p].late /\ Made(p) /\ bookings' = bookings
  <1>0. view \in [Keys -> [current : BOOLEAN, late : BOOLEAN]]
        /\ reader \in [Readers -> {NoRead} \cup [key : Keys, at : 1 .. MaxReads]]
    BY DEF BookingTypes
  <1>1. ASSUME NEW k \in Keys, Touch(k)
        PROVE  Seen
    BY <1>0, <1>1, TouchedView
  <1>2. ASSUME NEW k \in Keys, ViewBooking(k)
        PROVE  Seen
    BY <1>0, <1>2 DEF ViewBooking
  <1>3. ASSUME view' = view
        PROVE  Seen
    BY <1>3
  <1> HIDE DEF Seen
  <1>4. ASSUME NEW k \in Keys, SaveOutcome(k) \/ Resolve(k)
        PROVE  Touch(k)
    BY <1>4 DEF SaveOutcome, Resolve
  <1>5. ASSUME NEW r \in Readers, NEW verified \in BOOLEAN, SaveRead(r, verified)
        PROVE  Seen
    <2>1. reader[r] # NoRead /\ (Touch(reader[r].key) \/ view' = view)
      BY <1>5 DEF SaveRead
    <2>2. reader[r].key \in Keys
      BY <1>0, <2>1, SMTT(60)
    <2> QED BY <1>1, <1>3, <2>1, <2>2
  <1>6. ASSUME \/ \E k \in Keys : \/ Reserve(k) \/ Refuse(k) \/ Send(k) \/ Hear(k)
                                  \/ LoseOutcome(k) \/ Age(k)
               \/ \E k \in Keys, o \in Offers, v \in 1 .. MaxVersions, c \in authenticated :
                     Quote(k, o, v, c)
               \/ Crash
               \/ \E r \in Readers : FailRead(r) \/ \E k \in Keys : StartRead(r, k)
        PROVE  view' = view
    BY <1>6 DEF Reserve, Refuse, Send, Hear, LoseOutcome, Age, Quote, Crash, FailRead, StartRead
  <1>7. ASSUME BookingAction
        PROVE  Seen
    BY <1>1, <1>2, <1>3, <1>4, <1>5, <1>6, <1>7 DEF BookingAction
  <1>8. ASSUME PriceAction \/ UNCHANGED holdVars
        PROVE  Seen
    BY <1>3, <1>8, PriceActionKeeps DEF bookingVars, holdVars
  <1>9. Seen
    BY <1>7, <1>8, Actions
  <1>10. SaveOutcome(p) \/ Resolve(p) => ~view'[p].current
    BY <1>0, <1>4, TouchedView
  <1> QED BY <1>9, <1>10 DEF Seen

LEMMA ViewKeptStep ==
    ASSUME PriceTypes, BookingTypes, WorkersKept, ReadersKept,
           NEW p \in Keys, ViewKept(p), [HoldNext]_holdVars
    PROVE  ViewKept(p)'
  <1>0. \A now : Becomes(p, now) => bookings'[p] = now
    BY DEF Becomes, BookingTypes
  <1>1. /\ \/ view'[p] = view[p]
           \/ ~view'[p].current
           \/ view'[p].late = bookings[p].late /\ Made(p) /\ bookings' = bookings
        /\ SaveOutcome(p) \/ Resolve(p) => ~view'[p].current
    BY ViewRows
  <1>2. CASE ~Made(p) /\ ~Made(p)'
    BY <1>1, <1>2 DEF ViewKept
  <1>3. CASE ~Made(p) /\ Made(p)'
    <2>1. Reserve(p)
      BY <1>3, NewBooking
    <2>2. bookings'[p].state = "pending"
      BY <1>0, <2>1, ReserveBooking
    <2>3. view' = view
      BY <2>1 DEF Reserve
    <2> QED BY <1>3, <2>2, <2>3 DEF ViewKept
  <1>4. CASE Made(p) /\ SameDecision(bookings'[p], bookings[p])
    <2>1. Made(p)'
      BY <1>4, BookingRows
    <2> QED BY <1>1, <1>4, <2>1 DEF ViewKept, SameDecision
  <1>5. CASE Made(p) /\ SaveOutcome(p)
    <2>1. bookings'[p].state \in {"held", "issued", "outcome_unknown"}
      BY <1>0, <1>5, SaveBooking
    <2> QED BY <1>1, <1>5, <2>1 DEF ViewKept
  <1>6. CASE Made(p) /\ Resolve(p)
    <2>1. /\ bookings'[p].informed = view[p].late /\ bookings'[p].late = bookings[p].late
          /\ view[p].current
      BY <1>0, <1>6, ResolveBooking
    <2> QED BY <1>1, <1>6, <2>1 DEF ViewKept
  <1> QED BY <1>2, <1>3, <1>4, <1>5, <1>6, DecisionRows

\* A read that is saved leaves the newest on display, and the deadline of the
\* newest that was verified since the last failed one.
LEMMA ReadsKeptStep ==
    ASSUME PriceTypes, BookingTypes, WorkersKept, ReadersKept,
           NEW k \in Keys, Made(k), ReadsKept(bookings[k]), [HoldNext]_holdVars
    PROVE  /\ ReadsKept(bookings'[k])
           /\ bookings'[k].limit # bookings[k].limit =>
                 /\ bookings'[k].limit > bookings[k].limit
                 /\ [at |-> bookings'[k].limit, verified |-> TRUE] \in bookings'[k].observed
  <1> DEFINE b == bookings[k]
             Kept(now) == /\ ReadsKept(now)
                          /\ now.limit # b.limit =>
                                /\ now.limit > b.limit
                                /\ [at |-> now.limit, verified |-> TRUE] \in now.observed
  <1>0. /\ b.observed \in SUBSET [at : 1 .. MaxReads, verified : BOOLEAN]
        /\ b.shown \in Nat /\ b.limit \in Nat /\ MaxReads \in Nat
    BY BookingKinds, LimitTypes DEF BookingType
  <1>1. \A now : Becomes(k, now) => bookings'[k] = now
    BY DEF Becomes, BookingTypes
  <1>2. CASE SameReads(bookings'[k], b)
    <2>1. ReadsKept(bookings'[k])
      BY <1>2 DEF SameReads, ReadsKept
    <2> QED BY <1>2, <2>1 DEF SameReads
  <1>3. ASSUME NEW r \in Readers, NEW verified \in BOOLEAN,
               SaveRead(r, verified), reader[r].key = k
        PROVE  Kept(bookings'[k])
    <2>0. PICK l \in Keys, at \in 1 .. MaxReads : \E now :
             /\ l = reader[r].key
             /\ Becomes(l, now)
             /\ now.observed = bookings[l].observed \cup {[at |-> at, verified |-> verified]}
             /\ \/ /\ bookings[l].shown <= at /\ now.shown = at
                   /\ now.limit = IF verified THEN at ELSE bookings[l].limit
                \/ /\ bookings[l].shown > at /\ now.shown = bookings[l].shown
                   /\ now.limit = bookings[l].limit
      BY <1>3, SaveReadBooking
    <2>1. PICK now :
             /\ l = reader[r].key
             /\ Becomes(l, now)
             /\ now.observed = bookings[l].observed \cup {[at |-> at, verified |-> verified]}
             /\ \/ /\ bookings[l].shown <= at /\ now.shown = at
                   /\ now.limit = IF verified THEN at ELSE bookings[l].limit
                \/ /\ bookings[l].shown > at /\ now.shown = bookings[l].shown
                   /\ now.limit = bookings[l].limit
      BY <2>0
    <2> DEFINE read == [at |-> at, verified |-> verified]
    <2>2. /\ bookings'[k] = now
          /\ now.observed = b.observed \cup {read}
          /\ \/ /\ b.shown <= at /\ now.shown = at
                /\ now.limit = IF verified THEN at ELSE b.limit
             \/ b.shown > at /\ now.shown = b.shown /\ now.limit = b.limit
      BY <1>1, <1>3, <2>1
    <2>3. /\ read.at = at /\ read.verified = verified /\ at \in Nat /\ at > 0
          /\ \A x \in b.observed : x.at \in Nat
      BY <1>0
    <2>4. /\ \A x \in b.observed : x.at <= b.shown
          /\ b.shown = 0 \/ \E x \in b.observed : x.at = b.shown
          /\ \A x \in b.observed : x.verified /\ x.at > b.limit =>
                \E y \in b.observed : y.at > x.at /\ ~y.verified
          /\ b.limit <= b.shown
      BY DEF ReadsKept
    <2> HIDE DEF read
    <2>5. CASE b.shown <= at /\ now.shown = at /\ now.limit = IF verified THEN at ELSE b.limit
      <3>1. \A x \in now.observed : x.at <= now.shown
        BY <1>0, <2>2, <2>3, <2>4, <2>5
      <3>2. \E x \in now.observed : x.at = now.shown
        BY <2>2, <2>3, <2>5
      <3>3. ASSUME NEW x \in now.observed, x.verified, x.at > now.limit
            PROVE  \E y \in now.observed : y.at > x.at /\ ~y.verified
        <4>1. CASE verified
          BY <1>0, <2>2, <2>3, <2>4, <2>5, <3>3, <4>1
        <4>2. CASE ~verified
          BY <1>0, <2>2, <2>3, <2>4, <2>5, <3>3, <4>2
        <4> QED BY <4>1, <4>2
      <3>4. now.limit <= now.shown
        BY <1>0, <2>3, <2>4, <2>5
      <3>5. now.limit # b.limit =>
               /\ now.limit > b.limit
               /\ [at |-> now.limit, verified |-> TRUE] \in now.observed
        <4> SUFFICES ASSUME now.limit # b.limit
                     PROVE  /\ now.limit > b.limit
                            /\ [at |-> now.limit, verified |-> TRUE] \in now.observed
          OBVIOUS
        <4>1. verified = TRUE /\ now.limit = at
          BY <2>5
        <4>2. read = [at |-> now.limit, verified |-> TRUE]
          BY <4>1 DEF read
        <4>3. now.limit > b.limit
          BY <1>0, <2>3, <2>4, <2>5, <4>1
        <4> QED BY <2>2, <4>2, <4>3
      <3> QED BY <2>2, <3>1, <3>2, <3>3, <3>4, <3>5 DEF ReadsKept
    <2>6. CASE b.shown > at /\ now.shown = b.shown /\ now.limit = b.limit
      <3>1. \A x \in now.observed : x.at <= now.shown
        BY <1>0, <2>2, <2>3, <2>4, <2>6
      <3>2. PICK s \in b.observed : s.at = b.shown
        BY <1>0, <2>3, <2>4, <2>6
      <3>3. ASSUME NEW x \in now.observed, x.verified, x.at > now.limit
            PROVE  \E y \in now.observed : y.at > x.at /\ ~y.verified
        <4>1. CASE x \in b.observed
          BY <2>2, <2>4, <2>6, <3>3, <4>1
        <4>2. CASE x = read
          <5>1. CASE ~s.verified
            BY <2>2, <2>3, <2>6, <3>2, <4>2, <5>1
          <5>2. CASE s.verified
            <6>1. s.at > x.at /\ s.at > b.limit /\ s.at \in Nat /\ x.at \in Nat
              BY <1>0, <2>3, <2>6, <3>2, <3>3, <4>2
            <6>2. PICK y \in b.observed : y.at > s.at /\ ~y.verified
              BY <2>4, <5>2, <6>1
            <6> QED BY <2>2, <2>3, <6>1, <6>2
          <5> QED BY <5>1, <5>2
        <4> QED BY <2>2, <4>1, <4>2
      <3> QED BY <2>2, <2>4, <2>6, <3>1, <3>2, <3>3 DEF ReadsKept
    <2> QED BY <2>2, <2>5, <2>6
  <1> QED BY <1>2, <1>3, ReadRows, ZenonT(90)

-----------------------------------------------------------------------------
(* The invariant *)

LEMMA HoldInvariantInit == HoldInit => HoldInvariant
  <1> SUFFICES ASSUME HoldInit PROVE HoldInvariant
    OBVIOUS
  <1>0. PICK c \in Contexts, t \in Settings :
             client = [context |-> c, granted |-> TRUE] /\ authenticated = {c}
             /\ connection = [enabled |-> t, epoch |-> 0]
    BY DEF HoldInit
  <1>1. \A k \in Keys : ~Made(k) /\ ~view[k].current /\ worker[k] = "none" /\ sent[k] = 0
                        /\ call[k] = NoCall
    BY DEF HoldInit, Made
  <1>2. /\ offers = [o \in Offers |-> Absent] /\ Absent \in Offer
    BY LimitTypes DEF HoldInit, Absent, Offer
  <1>3. /\ prices \in [Offers -> Seq(Price)]
        /\ \A o \in Offers : Len(prices[o]) = 0
    <2>1. << >> \in Seq(Price) /\ Len(<< >>) = 0
      BY EmptySeq
    <2>2. prices = [o \in Offers |-> << >>]
      BY DEF HoldInit
    <2> QED BY <2>1, <2>2
  <1>4. PriceTypes
    BY <1>0, <1>2, <1>3, LimitTypes DEF HoldInit, PriceTypes
  <1>5. BookingTypes
    BY LimitTypes DEF HoldInit, BookingTypes
  <1>6. Types
    BY <1>4, <1>5, TypesInParts
  <1>7. \A o \in Offers : OfferKept(o)
    BY <1>0, <1>2 DEF HoldInit, OfferKept, Absent
  <1>8. \A k \in Keys : DispatchKept(k) /\ OfferSold(k) /\ ViewKept(k)
    BY <1>1 DEF DispatchKept, OfferSold, ViewKept, Active
  <1>9. \A k, l \in Keys : DirectOnce(k, l)
    BY <1>1 DEF DirectOnce
  <1>10. \A r \in Readers : reader[r] = NoRead
    BY DEF HoldInit
  <1> QED BY <1>1, <1>6, <1>7, <1>8, <1>9, <1>10 DEF HoldInvariant

LEMMA HoldInvariantStep == HoldInvariant /\ [HoldNext]_holdVars => HoldInvariant'
  <1> SUFFICES ASSUME HoldInvariant, [HoldNext]_holdVars PROVE HoldInvariant'
    OBVIOUS
  <1>1. Types /\ PriceTypes /\ BookingTypes /\ WorkersKept /\ ReadersKept
    BY TypesInParts DEF HoldInvariant, WorkersKept, ReadersKept
  <1>2. Types'
    BY <1>1, TypesStep
  <1>3. \A o \in Offers : OfferKept(o)'
    BY <1>1, OfferKeptStep DEF HoldInvariant
  <1>4. ASSUME NEW k \in Keys
        PROVE  DispatchKept(k)' /\ OfferSold(k)' /\ ViewKept(k)'
    BY <1>1, DispatchKeptStep, OfferSoldStep, ViewKeptStep DEF HoldInvariant
  <1>5. ASSUME NEW k \in Keys, NEW l \in Keys
        PROVE  DirectOnce(k, l)'
    <2>1. DirectOnce(k, l) /\ OfferSold(k) /\ OfferSold(l)
      BY DEF HoldInvariant
    <2> QED BY <1>1, <2>1, DirectOnceStep
  <1>6. ASSUME NEW k \in Keys, Made(k)'
        PROVE  ReadsKept(bookings'[k])
    <2>1. CASE Made(k)
      <3>1. ReadsKept(bookings[k])
        BY <2>1 DEF HoldInvariant
      <3> QED BY <1>1, <2>1, <3>1, ReadsKeptStep
    <2>2. CASE ~Made(k)
      <3>1. Reserve(k)
        BY <1>1, <1>6, <2>2, NewBooking
      <3>2. PICK now : Becomes(k, now) /\ now.observed = {} /\ now.shown = 0 /\ now.limit = 0
        BY <1>1, <3>1, ReserveBooking
      <3>3. bookings'[k] = now
        BY <1>1, <3>2 DEF Becomes, BookingTypes
      <3> QED BY <3>2, <3>3 DEF ReadsKept
    <2> QED BY <2>1, <2>2
  <1>7. ReadersKept'
    BY <1>1, ReadersKeptStep
  <1> QED BY <1>2, <1>3, <1>4, <1>5, <1>6, <1>7 DEF HoldInvariant, ReadersKept

LEMMA HoldInvariantHolds == HoldSpec => []HoldInvariant
  BY HoldInvariantInit, HoldInvariantStep, PTL DEF HoldSpec

-----------------------------------------------------------------------------
(* Theorems *)

\* Book is sent at most once for a reservation, whatever crashed or was lost,
\* and a direct offer has at most one booking: it is spawned with the commit of
\* book_owned, which looks for another under the authority lock.
THEOREM OneDispatch == HoldSpec => []DispatchedOnce
  <1>1. ASSUME HoldInvariant
        PROVE  DispatchedOnce
    <2>1. HoldTypeOK /\ \A k \in Keys : sent[k] <= 1
      BY <1>1 DEF HoldInvariant, Types, DispatchKept
    <2>2. ASSUME NEW o \in Offers, offers[o].direct
          PROVE  Cardinality({k \in Keys : Made(k) /\ bookings[k].offer = o}) <= 1
      <3> DEFINE S == {k \in Keys : Made(k) /\ bookings[k].offer = o}
      <3>1. \A k, l \in S : k = l
        BY <1>1, <2>2 DEF HoldInvariant, DirectOnce
      <3>2. CASE S = {}
        <4>1. Cardinality(S) = 0
          BY <3>2, FS_EmptySet
        <4> QED BY <4>1
      <3>3. CASE S # {}
        <4>1. PICK k \in S : TRUE
          BY <3>3
        <4>2. S = {k}
          BY <3>1, <4>1
        <4>3. Cardinality({k}) = 1
          BY FS_Singleton
        <4> HIDE DEF S
        <4>4. Cardinality(S) = 1
          BY <4>2, <4>3
        <4> QED BY <4>4 DEF S
      <3> QED BY <3>2, <3>3
    <2> QED BY <2>1, <2>2 DEF DispatchedOnce
  <1> QED BY <1>1, HoldInvariantHolds, PTL

\* What is sold is the newest price of its offer, which was accepted and not
\* refused since, under a search that was never switched off after it: Book
\* asks again with the offer row in hand, and the epoch of the snapshot tells.
THEOREM SoldAtNewestPrice == HoldSpec => SoldAsAcceptedAlways
  <1>1. ASSUME HoldInvariant, [HoldNext]_holdVars
        PROVE  SoldAsAccepted
    <2> SUFFICES ASSUME NEW k \in Keys, Sold(k)
                 PROVE  /\ bookings'[k].version = Len(prices[bookings'[k].offer])
                        /\ prices[bookings'[k].offer][bookings'[k].version].accepted
                        /\ bookings'[k].offer \notin refused
                        /\ bookings'[k].offer \notin interrupted
      BY DEF SoldAsAccepted
    <2>1. PriceTypes /\ BookingTypes /\ WorkersKept /\ ReadersKept
      BY <1>1, TypesInParts DEF HoldInvariant, WorkersKept, ReadersKept
    <2>2. Reserve(k)
      BY <1>1, <2>1, NewBooking DEF Sold, Made
    <2>3. PICK now : Becomes(k, now) /\ now.offer = call[k].offer /\ now.version = call[k].version
      BY <2>1, <2>2, ReserveBooking
    <2>4. bookings'[k] = now
      BY <2>1, <2>3 DEF Becomes, BookingTypes
    <2> DEFINE o == call[k].offer
               v == call[k].version
    <2>5. /\ v = Len(prices[o]) /\ prices[o][v].accepted
          /\ Stands(o) /\ offers[o].epoch = connection.epoch
          /\ call[k] # NoCall
      BY <2>2 DEF Reserve, Fresh, Available
    <2>6. o \in Offers
      BY <2>1, <2>5 DEF BookingTypes, Quoted
    <2>7. OfferKept(o) /\ connection.epoch \in Nat
      <3>1. \A e \in 0 .. MaxEpoch : e \in Nat
        BY LimitTypes
      <3> QED BY <1>1, <2>1, <2>6, <3>1 DEF HoldInvariant, PriceTypes
    <2>8. o \notin refused /\ o \notin interrupted
      BY <2>5, <2>7 DEF OfferKept, Stands
    <2> QED BY <2>3, <2>4, <2>5, <2>8
  <1>2. HoldInvariant /\ [HoldNext]_holdVars => [SoldAsAccepted]_holdVars
    BY <1>1
  <1> QED BY <1>2, HoldInvariantHolds, PTL DEF HoldSpec, SoldAsAcceptedAlways

\* What a verified answer decided stands; what the staff decided stands until
\* an answer they had not seen, and they had seen all there were: resolve
\* compares expected_updated_at, and every save moves it.
THEOREM DecisionsStand == HoldSpec => DecisionsStandAlways
  <1>1. HoldInvariant => DecidedInformed
    BY DEF HoldInvariant, ViewKept, DecidedInformed
  <1>2. ASSUME HoldInvariant, [HoldNext]_holdVars
        PROVE  DecidedStands
    <2> SUFFICES ASSUME NEW k \in Keys, Made(k)
                 PROVE  /\ bookings[k].state \in {"held", "issued"} =>
                              bookings'[k].state = bookings[k].state
                        /\ bookings[k].state = "manually_resolved"
                              /\ bookings'[k].state # "manually_resolved" =>
                              /\ bookings'[k].state = "outcome_unknown"
                              /\ bookings'[k].late
      BY DEF DecidedStands
    <2>1. PriceTypes /\ BookingTypes /\ WorkersKept /\ ReadersKept
      BY <1>2, TypesInParts DEF HoldInvariant, WorkersKept, ReadersKept
    <2>2. \A now : Becomes(k, now) => bookings'[k] = now
      BY <2>1 DEF Becomes, BookingTypes
    <2>3. CASE SameDecision(bookings'[k], bookings[k])
      BY <2>3 DEF SameDecision
    <2>4. CASE SaveOutcome(k)
      <3>1. bookings[k].state \in {"pending", "manually_resolved"}
        BY <2>1, <2>4 DEF SaveOutcome, WorkersKept, DispatchKept, Active
      <3>2. bookings[k].state # "pending" =>
               bookings'[k].state = "outcome_unknown" /\ bookings'[k].late = TRUE
        BY <2>1, <2>2, <2>4, SaveBooking
      <3> QED BY <3>1, <3>2
    <2>5. CASE Resolve(k)
      BY <2>1, <2>5, ResolveBooking
    <2> QED BY <1>2, <2>1, <2>3, <2>4, <2>5, DecisionRows
  <1>3. HoldInvariant /\ HoldInvariant' /\ [HoldNext]_holdVars
        => [DecidedInformed' /\ DecidedStands]_holdVars
    <2>1. (HoldInvariant => DecidedInformed)'
      BY <1>1, PTL
    <2> QED BY <1>2, <2>1
  <1> QED BY <1>1, <1>3, HoldInvariantHolds, PTL DEF HoldSpec, DecisionsStandAlways

\* The status and the ticketing deadline on display follow the order in which
\* the reads of the supplier began, however late each is saved.
THEOREM ReadsStayInOrder == HoldSpec => ReadsInOrderAlways
  <1>1. HoldInvariant => NewestRead
    BY DEF HoldInvariant, ReadsKept, NewestRead
  <1>2. ASSUME HoldInvariant, [HoldNext]_holdVars
        PROVE  DeadlineKept
    <2> SUFFICES ASSUME NEW k \in Keys, Made(k), bookings'[k].limit # bookings[k].limit
                 PROVE  /\ bookings'[k].limit > bookings[k].limit
                        /\ [at |-> bookings'[k].limit, verified |-> TRUE]
                              \in bookings'[k].observed
      BY DEF DeadlineKept
    <2>1. PriceTypes /\ BookingTypes /\ WorkersKept /\ ReadersKept
      BY <1>2, TypesInParts DEF HoldInvariant, WorkersKept, ReadersKept
    <2>2. ReadsKept(bookings[k])
      BY <1>2 DEF HoldInvariant
    <2> QED BY <1>2, <2>1, <2>2, ReadsKeptStep
  <1>3. HoldInvariant /\ HoldInvariant' /\ [HoldNext]_holdVars
        => [NewestRead' /\ DeadlineKept]_holdVars
    <2>1. (HoldInvariant => NewestRead)'
      BY <1>1, PTL
    <2> QED BY <1>2, <2>1
  <1> QED BY <1>1, <1>3, HoldInvariantHolds, PTL DEF HoldSpec, ReadsInOrderAlways

=============================================================================
