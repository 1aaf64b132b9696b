--------------------------- MODULE SearchAdmission ---------------------------
(***************************************************************************)
(* What a flight search has to pass before it costs anything, and what it  *)
(* gives back:                                                             *)
(*                                                                         *)
(*   places    the two semaphores of a router (search_admission.rs), held  *)
(*             until the last byte of the answer is gone;                  *)
(*   budgets   daily hits of the actor and of the supplier, reserved in    *)
(*             the database before each dispatch (search_controls.rs);     *)
(*   repricing one price check per client and a few per process            *)
(*             (reprice_admission.rs).                                     *)
(*                                                                         *)
(* A search is the handler of search.rs: its futures may be dropped at any *)
(* await, by a client that goes away or a process that ends.  Suppliers    *)
(* are asked by tasks that run beside the handler and end with it.         *)
(***************************************************************************)
EXTENDS Naturals, Sequences, FiniteSets, FiniteSetsExt

CONSTANTS
    Searches,       \* search requests
    ActorOf,        \* [Searches -> Actors]: who is charged for the search
    RouterOf,       \* [Searches -> Routers]: the process that serves it
    Connections,    \* the active suppliers, in the order they are asked
    MaxActive,      \* searches at work in one router (4 in the code)
    MaxQueued,      \* searches that wait for a place (8 in the code)
    Days,           \* calendar days in Dhaka, 1..n
    UserLimits,     \* daily limits an administrator may give a user
    SupplierLimits, \* daily limits for a supplier
    MaxVersion,     \* bound: changes of one control
    Prices,         \* price checks
    ClientOf,       \* [Prices -> Clients]
    MaxPrices       \* price checks at work in the process (min(pool/2, 4))

Actors == {ActorOf[s] : s \in Searches}
Routers == {RouterOf[s] : s \in Searches}
Suppliers == {Connections[i] : i \in DOMAIN Connections}
Keys == Actors \cup Suppliers

ASSUME AdmissionAssumption ==
    /\ MaxActive \in Nat \ {0} /\ MaxQueued \in Nat /\ MaxPrices \in Nat
    /\ Days \subseteq Nat \ {0} /\ 1 \in Days
    /\ Connections \in Seq(Suppliers) /\ Connections # << >>
    /\ \A i, j \in DOMAIN Connections : Connections[i] = Connections[j] => i = j
    /\ Actors \cap Suppliers = {}
    /\ IsFiniteSet(Searches) /\ IsFiniteSet(Days)
    /\ UserLimits \subseteq Nat \ {0} /\ SupplierLimits \subseteq Nat

VARIABLES
    phase,      \* of each search: how far its handler is
    outcome,    \* search_usage.outcome, or "none" before the row
    asked,      \* how many connections a search has claimed or skipped
    usage,      \* search_supplier_usage of each search and supplier
    claiming,   \* a claim's open transaction: what it read, and its locks
    hits,       \* search_daily_hits
    today,      \* the day in Dhaka
    control,    \* search_user_controls: enabled, limit; version 0 is no row
    budget,     \* search_supplier_limits: limit, version
    free,       \* permits each router has left: active and total
    pricing,    \* price checks at work
    ACTIVE      \* clients the process has a price check for

dayVars == <<today, hits>>
controls == <<control, budget>>
searchVars == <<phase, outcome, asked, usage, claiming, free>>
admissionVars == <<searchVars, dayVars, controls, pricing, ACTIVE>>

-----------------------------------------------------------------------------
(* Places.                                                                 *)

Working == {"working", "answering"}

\* What a search holds of a router in a phase: a waiting one its place in the
\* queue, one at work or whose answer is still being sent both permits.
Places(ph) ==
    [active |-> IF ph \in Working THEN 1 ELSE 0,
     total |-> IF ph = "queued" \/ ph \in Working THEN 1 ELSE 0]

\* BUG: the permit goes with the handler, before its answer was sent.
GivenBackEarly(s, from, to) ==
    LET r == RouterOf[s] IN
    [free EXCEPT ![r].active = @ + (IF from = "working" /\ to # "working" THEN 1 ELSE 0)
                                 - (IF to = "working" THEN 1 ELSE 0),
                 ![r].total = @ + Places(from).total - Places(to).total]

\* The permits of a router when a search moves between two phases: dropping
\* the last holder of a permit returns it.
Moved(s, from, to) ==
    LET r == RouterOf[s] IN
    [free EXCEPT ![r].active = @ + Places(from).active - Places(to).active,
                 ![r].total = @ + Places(from).total - Places(to).total]

Step(s, to) ==
    /\ phase' = [phase EXCEPT ![s] = to]
    /\ free' = Moved(s, phase[s], to)

Finished(s, result) == outcome' = [outcome EXCEPT ![s] = result]

-----------------------------------------------------------------------------
(* Budgets.                                                                *)

NoClaim == [supplier |-> "none", day |-> 0, code |-> "none"]

Within(count, limit) == \A n \in limit : count < n

\* BUG: claims of one actor do not wait for one another.
ActorUnlocked(a) == TRUE

\* pg_advisory_xact_lock on the actor: no claim of the actor is open.
ActorFree(a) == \A s \in Searches : ActorOf[s] = a => claiming[s] = NoClaim

\* BUG: the limit of the supplier is read without its row lock.
SupplierUnlocked(c) == TRUE

\* The supplier's row lock.
SupplierFree(c) == \A s \in Searches : claiming[s].supplier # c

\* BUG: the hits of the day the search started on are looked at.
YesterdaysCode(s, c) ==
    IF ~control[ActorOf[s]].enabled THEN "disabled"
    ELSE IF ~Within(hits[1][ActorOf[s]], control[ActorOf[s]].limit) THEN "user limit"
    ELSE IF ~Within(hits[1][c], budget[c].limit) THEN "supplier limit"
    ELSE "none"

\* What refuses a dispatch today, if anything.
RefusalCode(s, c) ==
    IF ~control[ActorOf[s]].enabled THEN "disabled"
    ELSE IF ~Within(hits[today][ActorOf[s]], control[ActorOf[s]].limit) THEN "user limit"
    ELSE IF ~Within(hits[today][c], budget[c].limit) THEN "supplier limit"
    ELSE "none"

\* claim, up to its reads: the actor's lock, the control, the supplier's lock
\* and limit, the day once both locks are held, and the hits.
ReadBudget(s) ==
    LET c == Connections[asked[s] + 1] IN
    /\ phase[s] = "working" /\ claiming[s] = NoClaim /\ asked[s] < Len(Connections)
    /\ ActorFree(ActorOf[s]) /\ SupplierFree(c)
    /\ claiming' = [claiming EXCEPT ![s] =
          [supplier |-> c, day |-> today, code |-> RefusalCode(s, c)]]
    /\ UNCHANGED <<phase, outcome, asked, usage, free, dayVars, controls, pricing, ACTIVE>>

\* A dispatch costs its actor and its supplier one hit each, a refusal nothing.
Cost(claim, key) == IF claim.code = "none" THEN 1 ELSE 0

\* claim, its writes and its commit; the handler then starts the task, or goes
\* on with the next supplier.
WriteBudget(s) ==
    LET claim == claiming[s] IN
    /\ claim # NoClaim
    /\ usage' = [usage EXCEPT ![s][claim.supplier] =
          IF claim.code = "none" THEN "pending" ELSE "blocked"]
    /\ hits' = [hits EXCEPT ![claim.day] = [k \in Keys |->
          @[k] + IF k \in {ActorOf[s], claim.supplier} THEN Cost(claim, k) ELSE 0]]
    /\ claiming' = [claiming EXCEPT ![s] = NoClaim]
    /\ asked' = [asked EXCEPT ![s] = @ + 1]
    /\ UNCHANGED <<phase, outcome, free, today, controls, pricing, ACTIVE>>

\* Administrators change a control they saw the present version of.
SetSupplier(c, limit, expected) ==
    /\ SupplierFree(c) /\ budget[c].version = expected
    /\ budget' = [budget EXCEPT ![c] = [limit |-> limit, version |-> expected + 1]]
    /\ UNCHANGED <<searchVars, dayVars, control, pricing, ACTIVE>>

SetUser(a, enabled, limit, expected) ==
    /\ ActorFree(a) /\ control[a].version = expected
    /\ control' = [control EXCEPT ![a] =
          [enabled |-> enabled, limit |-> limit, version |-> expected + 1]]
    /\ UNCHANGED <<searchVars, dayVars, budget, pricing, ACTIVE>>

Midnight ==
    /\ today + 1 \in Days
    /\ today' = today + 1
    /\ UNCHANGED <<searchVars, hits, controls, pricing, ACTIVE>>

-----------------------------------------------------------------------------
(* A search.                                                               *)

Start(s) ==
    /\ phase[s] = "new"
    /\ Step(s, "started") /\ Finished(s, "pending")
    /\ UNCHANGED <<asked, usage, claiming, dayVars, controls, pricing, ACTIVE>>

\* check_user, and a place in the queue if there is one.
Arrive(s) ==
    /\ phase[s] = "started" /\ control[ActorOf[s]].enabled
    /\ free[RouterOf[s]].total > 0
    /\ Step(s, "queued")
    /\ UNCHANGED <<outcome, asked, usage, claiming, dayVars, controls, pricing, ACTIVE>>

Refuse(s) ==
    /\ phase[s] = "started"
    /\ control[ActorOf[s]].enabled => free[RouterOf[s]].total = 0
    /\ Step(s, "over") /\ Finished(s, "blocked")
    /\ UNCHANGED <<asked, usage, claiming, dayVars, controls, pricing, ACTIVE>>

\* An active permit within the time a search may wait, or SEARCH_BUSY.
Admitted(s) ==
    /\ phase[s] = "queued" /\ free[RouterOf[s]].active > 0
    /\ Step(s, "working")
    /\ UNCHANGED <<outcome, asked, usage, claiming, dayVars, controls, pricing, ACTIVE>>

WaitedTooLong(s) ==
    /\ phase[s] = "queued"
    /\ Step(s, "over") /\ Finished(s, "blocked")
    /\ UNCHANGED <<asked, usage, claiming, dayVars, controls, pricing, ACTIVE>>

\* A task has its answer, an error or no answer in time, and records it.
SupplierFinished(s, c, success) ==
    /\ phase[s] = "working" /\ usage[s][c] = "pending"
    /\ usage' = [usage EXCEPT ![s][c] = IF success THEN "success" ELSE "failed"]
    /\ UNCHANGED <<phase, outcome, asked, claiming, free, dayVars, controls, pricing, ACTIVE>>

\* Everyone was asked, and every task has ended.
Gathered(s) ==
    /\ phase[s] = "working" /\ claiming[s] = NoClaim /\ asked[s] = Len(Connections)
    /\ \A c \in Suppliers : usage[s][c] # "pending"

Successes(s) == {c \in Suppliers : usage[s][c] = "success"}

\* What was found is priced and saved, and the answer takes the permits along.
Answer(s) ==
    /\ Gathered(s) /\ Successes(s) # {}
    /\ Step(s, "answering") /\ Finished(s, "success")
    /\ UNCHANGED <<asked, usage, claiming, dayVars, controls, pricing, ACTIVE>>

\* Nobody could be asked, which is a refusal, or nobody succeeded.
NoAnswer(s) ==
    /\ Gathered(s) /\ Successes(s) = {}
    /\ Step(s, "over")
    /\ Finished(s, IF \A c \in Suppliers : usage[s][c] = "blocked"
                   THEN "blocked" ELSE "failed")
    /\ UNCHANGED <<asked, usage, claiming, dayVars, controls, pricing, ACTIVE>>

\* An error on the way fails the search; its tasks and its open transaction end
\* with it, and what was reserved stays reserved.
Fail(s) ==
    /\ phase[s] = "working"
    /\ Step(s, "over") /\ Finished(s, "failed")
    /\ claiming' = [claiming EXCEPT ![s] = NoClaim]
    /\ UNCHANGED <<asked, usage, dayVars, controls, pricing, ACTIVE>>

\* The client goes away, or the process ends: the same without a record.
Cancelled(s) ==
    /\ phase[s] \in {"started", "queued", "working"}
    /\ Step(s, "over")
    /\ claiming' = [claiming EXCEPT ![s] = NoClaim]
    /\ UNCHANGED <<outcome, asked, usage, dayVars, controls, pricing, ACTIVE>>

\* The body ends, fails or is dropped.
BodyEnds(s) ==
    /\ phase[s] = "answering"
    /\ Step(s, "over")
    /\ UNCHANGED <<outcome, asked, usage, claiming, dayVars, controls, pricing, ACTIVE>>

-----------------------------------------------------------------------------
(* Price checks.                                                           *)

\* Permit::acquire.
PriceAllowed(p) == Cardinality(ACTIVE) < MaxPrices /\ ClientOf[p] \notin ACTIVE

PriceStarts(p) ==
    /\ p \notin pricing /\ PriceAllowed(p)
    /\ pricing' = pricing \cup {p}
    /\ ACTIVE' = ACTIVE \cup {ClientOf[p]}
    /\ UNCHANGED <<searchVars, dayVars, controls>>

\* Permit::drop, however the check ends.
PriceEnds(p) ==
    /\ p \in pricing
    /\ pricing' = pricing \ {p}
    /\ ACTIVE' = ACTIVE \ {ClientOf[p]}
    /\ UNCHANGED <<searchVars, dayVars, controls>>

-----------------------------------------------------------------------------

AdmissionInit ==
    /\ phase = [s \in Searches |-> "new"]
    /\ outcome = [s \in Searches |-> "none"]
    /\ asked = [s \in Searches |-> 0]
    /\ usage = [s \in Searches |-> [c \in Suppliers |-> "none"]]
    /\ claiming = [s \in Searches |-> NoClaim]
    /\ hits = [d \in Days |-> [k \in Keys |-> 0]]
    /\ today = 1
    /\ control = [a \in Actors |-> [enabled |-> TRUE, limit |-> {}, version |-> 0]]
    /\ budget = [c \in Suppliers |-> [limit |-> {}, version |-> 1]]
    /\ free = [r \in Routers |-> [active |-> MaxActive, total |-> MaxActive + MaxQueued]]
    /\ pricing = {} /\ ACTIVE = {}

SearchNext ==
    \/ Midnight
    \/ \E s \in Searches :
          \/ Start(s) \/ Arrive(s) \/ Refuse(s) \/ Admitted(s) \/ WaitedTooLong(s)
          \/ ReadBudget(s) \/ WriteBudget(s)
          \/ \E c \in Suppliers, success \in BOOLEAN : SupplierFinished(s, c, success)
          \/ Answer(s) \/ NoAnswer(s) \/ Fail(s) \/ Cancelled(s) \/ BodyEnds(s)
    \/ \E c \in Suppliers, limit \in {{}} \cup {{n} : n \in SupplierLimits} :
          \E expected \in 1..MaxVersion : SetSupplier(c, limit, expected)
    \/ \E a \in Actors, enabled \in BOOLEAN, limit \in {{}} \cup {{n} : n \in UserLimits} :
          \E expected \in 0..(MaxVersion - 1) : SetUser(a, enabled, limit, expected)

PriceNext == \E p \in Prices : PriceStarts(p) \/ PriceEnds(p)

AdmissionNext == SearchNext \/ PriceNext

AdmissionSpec == AdmissionInit /\ [][AdmissionNext]_admissionVars

-----------------------------------------------------------------------------
(* Properties.                                                             *)

AdmissionTypeOK ==
    /\ phase \in [Searches ->
          {"new", "started", "queued", "working", "answering", "over"}]
    /\ outcome \in [Searches -> {"none", "pending", "success", "failed", "blocked"}]
    /\ usage \in [Searches -> [Suppliers ->
          {"none", "pending", "success", "failed", "blocked"}]]
    /\ hits \in [Days -> [Keys -> Nat]]
    /\ free \in [Routers -> [active : 0..MaxActive, total : 0..(MaxActive + MaxQueued)]]
    /\ pricing \subseteq Prices

\* The dispatches that somebody or some supplier was charged for.
ChargedTo(k) ==
    {sc \in Searches \X Suppliers :
        /\ usage[sc[1]][sc[2]] \in {"pending", "success", "failed"}
        /\ k \in {ActorOf[sc[1]], sc[2]}}

\* No place is lost or lent twice: what a router has not lent is held by a
\* search of its own that waits, works or still sends its answer.  No hit is
\* lost or invented, whichever searches fail or are cut off.  And a client has
\* at most one price check at work.
Conserved ==
    /\ \A r \in Routers :
          LET here == {s \in Searches : RouterOf[s] = r} IN
          /\ free[r].active + Cardinality({s \in here : phase[s] \in Working}) = MaxActive
          /\ free[r].total + Cardinality({s \in here : phase[s] = "queued" \/ phase[s] \in Working})
                = MaxActive + MaxQueued
    /\ \A k \in Keys :
          MapThenSumSet(LAMBDA d : hits[d][k], Days) = Cardinality(ChargedTo(k))
    /\ \A p, q \in pricing : ClientOf[p] = ClientOf[q] => p = q
    /\ ACTIVE = {ClientOf[p] : p \in pricing}

\* A supplier is asked only by a search that holds a place, and within what the
\* actor and the supplier have left of the day it is charged to, by the limits
\* in force at that moment, with any number of processes reserving at once
\* (claim, docs/SEARCH_CONTROLS.md:12).
Dispatches(s, c) == usage[s][c] = "none" /\ usage'[s][c] = "pending"

WithinBudget ==
    /\ AdmissionTypeOK'
    /\ Conserved'
    /\ \A s \in Searches, c \in Suppliers : Dispatches(s, c) =>
          /\ phase[s] = "working"
          /\ control[ActorOf[s]].enabled
          /\ \E d \in Days : \A k \in {ActorOf[s], c} :
                /\ hits'[d][k] = hits[d][k] + 1
                /\ Within(hits[d][k], IF k = c THEN budget[c].limit
                                      ELSE control[ActorOf[s]].limit)

WithinBudgetAlways == [][WithinBudget]_admissionVars

=============================================================================
