---------------------------- MODULE PortalDrafts ----------------------------
(***************************************************************************)
(* Holds booked through the portal (src/portal_holds.rs), and the cleanup  *)
(* of offers nobody needs any more (src/cleanup.rs).                       *)
(*                                                                         *)
(* A draft copies the offer it was made from, has the copy priced once, is *)
(* accepted and submitted.  Every request first looks up, without a lock,  *)
(* who the owner is and what it is priced by; it acts on that later, under *)
(* the authority lock.  The price check of a draft runs while the request  *)
(* holds that lock and commits on a connection of its own.                 *)
(*                                                                         *)
(* HoldBooking has the locks within RePrice and Book, and what follows a   *)
(* reservation; here each is one step.  A request may be dropped at any    *)
(* await, refused, or end with its process: the same step.                 *)
(***************************************************************************)
EXTENDS Naturals, Sequences, FiniteSets

CONSTANTS
    Sources,     \* offers the portal searched
    Drafts,      \* drafts; a draft also names its copy and its booking key
    Calls,       \* requests at work
    Contexts,    \* what an owner is priced by: [tier, agent]; tier is the tier
                 \* with the share it earns
    MaxQuotes    \* bound: price versions of one offer

Stored == Sources \cup Drafts

ASSUME DraftsAssumption ==
    /\ Sources \cap Drafts = {} /\ "none" \notin Sources
    /\ \A c \in Contexts : c = [tier |-> c.tier, agent |-> c.agent]
    /\ MaxQuotes \in Nat

VARIABLES
    owner,      \* api_clients: the context, and whether it is still granted
    seenIn,     \* contexts the owner's own programs have authenticated in
    rows,       \* flight_offers and expired_flight_offers, by offer
    quotes,     \* flight_reprices of an offer, by version
    drafts,     \* portal_hold_drafts: source and price_id (0 is NULL)
    calls,      \* requests of the portal at work
    reserved,   \* flight_bookings by draft: the version they were made with
    sweep       \* offers in the snapshot of a cleanup batch

draftsVars == <<owner, seenIn, rows, quotes, drafts, calls, reserved, sweep>>

NoDraft == [source |-> "none", quote |-> 0]
NoRequest == [at |-> "idle"]

Exists(d) == drafts[d] # NoDraft

\* A request in its transaction holds the authority lock, and the share lock
\* of the source while it copies.
InTransaction == {k \in Calls : calls[k].at \in {"copying", "pricing", "priced"}}
Unlocked == InTransaction = {}

Advance(k, call) == calls' = [calls EXCEPT ![k] = call]
Ends(k) == Advance(k, NoRequest)

-----------------------------------------------------------------------------
(* The owner, and the clock.                                               *)

\* An administrator changes the client: its barrier trigger takes the lock.
ChangeOwner(c, granted) ==
    /\ Unlocked /\ [context |-> c, granted |-> granted] # owner
    /\ owner' = [context |-> c, granted |-> granted]
    /\ seenIn' = IF granted THEN seenIn \cup {c} ELSE seenIn
    /\ UNCHANGED <<rows, quotes, drafts, calls, reserved, sweep>>

\* A copy has the expiry of its source.
ExpireOffer(s) ==
    /\ rows[s] = "fresh"
    /\ rows' = [o \in Stored |->
          IF rows[o] = "fresh" /\ (o = s \/ (o \in Drafts /\ drafts[o].source = s))
          THEN "expired" ELSE rows[o]]
    /\ UNCHANGED <<owner, seenIn, quotes, drafts, calls, reserved, sweep>>

-----------------------------------------------------------------------------
(* Cleanup.                                                                *)

\* BUG: the database does not know what a draft refers to.
Priced(o) == quotes[o] # << >>

\* The foreign keys of flight_reprices and portal_hold_drafts.
Referenced(o) ==
    \/ quotes[o] # << >>
    \/ \E d \in Drafts : Exists(d) /\ o \in {d, drafts[d].source}

\* A batch, one at a time (advisory lock), looks for what expired unused.
SweepLook ==
    /\ sweep = {}
    /\ \E old \in SUBSET {o \in Stored : rows[o] = "expired" /\ ~Referenced(o)} :
          old # {} /\ sweep' = old
    /\ UNCHANGED <<owner, seenIn, rows, quotes, drafts, calls, reserved>>

\* It passes over rows that are locked by now and deletes the rest, with a
\* marker for each; one that came into use since its look fails the batch.
SweepDelete ==
    LET held == {calls[k].source : k \in {j \in Calls : calls[j].at = "copying"}}
        gone == sweep \ held
    IN /\ sweep # {}
       /\ sweep' = {}
       /\ rows' = IF \E o \in gone : Referenced(o) THEN rows
                  ELSE [o \in Stored |-> IF o \in gone THEN "expired marker" ELSE rows[o]]
       /\ UNCHANGED <<owner, seenIn, quotes, drafts, calls, reserved>>

\* A marker is kept for a day: OFFER_EXPIRED until then, NOT_FOUND after it.
ForgetMarker(o) ==
    /\ rows[o] = "expired marker"
    /\ rows' = [rows EXCEPT ![o] = "absent"]
    /\ UNCHANGED <<owner, seenIn, quotes, drafts, calls, reserved, sweep>>

-----------------------------------------------------------------------------
(* Prices, by the portal and by the owner's own programs.                  *)

NewQuote(o, c) ==
    quotes' = [quotes EXCEPT ![o] = Append(@, [context |-> c, accepted |-> FALSE])]

\* reprice, with the token of the owner.
ApiReprice(o, c) ==
    /\ c \in seenIn /\ rows[o] = "fresh" /\ Len(quotes[o]) < MaxQuotes
    /\ NewQuote(o, c)
    /\ UNCHANGED <<owner, seenIn, rows, drafts, calls, reserved, sweep>>

\* reprice::accept: the latest price that is valid, in the audience and agent
\* of who accepts.
Acceptable(o, v, c) ==
    /\ Unlocked /\ rows[o] = "fresh" /\ v = Len(quotes[o])
    /\ quotes[o][v].context.agent = c.agent
    /\ quotes' = [quotes EXCEPT ![o][v].accepted = TRUE]

ApiAccept(o, c) ==
    /\ c \in seenIn /\ quotes[o] # << >> /\ Acceptable(o, Len(quotes[o]), c)
    /\ UNCHANGED <<owner, seenIn, rows, drafts, calls, reserved, sweep>>

-----------------------------------------------------------------------------
(* Requests of the portal.                                                 *)

\* authority: what the request will go by, read without a lock.
Authorized(k, d, s) ==
    /\ calls[k] = NoRequest /\ owner.granted
    /\ Advance(k, [at |-> "authorized", draft |-> d, source |-> s,
                   machine |-> owner.context, quote |-> 0])
    /\ UNCHANGED <<owner, seenIn, rows, quotes, drafts, reserved, sweep>>

Dropped(k) ==
    /\ calls[k] # NoRequest
    /\ Ends(k)
    /\ UNCHANGED <<owner, seenIn, rows, quotes, drafts, reserved, sweep>>

\* prepare: a draft that is there must be the same one; otherwise its source
\* must still be valid.
OpenDraft(k) ==
    LET call == calls[k] IN
    /\ call.at = "authorized" /\ Unlocked
    /\ IF Exists(call.draft)
       THEN drafts[call.draft].source = call.source /\ Advance(k, [call EXCEPT !.at = "drafted"])
       ELSE rows[call.source] = "fresh" /\ Advance(k, [call EXCEPT !.at = "copying"])
    /\ UNCHANGED <<owner, seenIn, rows, quotes, drafts, reserved, sweep>>

\* The copies of the search and the offer, and the draft, are committed.
CopyOffer(k) ==
    LET call == calls[k] IN
    /\ call.at = "copying"
    /\ rows' = [rows EXCEPT ![call.draft] = rows[call.source]]
    /\ drafts' = [drafts EXCEPT ![call.draft] = [source |-> call.source, quote |-> 0]]
    /\ Advance(k, [call EXCEPT !.at = "drafted"])
    /\ UNCHANGED <<owner, seenIn, quotes, reserved, sweep>>

\* BUG: a draft is priced as often as it is prepared.
UnquotedAlways(d) == Exists(d)

\* A completed quote is never silently refreshed.
Unquoted(d) == drafts[d].quote = 0

\* The second transaction, with the draft's row locked.
OpenQuote(k) ==
    LET call == calls[k] IN
    /\ call.at = "drafted" /\ Unlocked
    /\ IF Unquoted(call.draft) THEN Advance(k, [call EXCEPT !.at = "pricing"]) ELSE Ends(k)
    /\ UNCHANGED <<owner, seenIn, rows, quotes, drafts, reserved, sweep>>

\* reprice commits, as the owner the request authorized.
QuotePriced(k) ==
    LET call == calls[k] IN
    /\ call.at = "pricing"
    /\ rows[call.draft] = "fresh" /\ Len(quotes[call.draft]) < MaxQuotes
    /\ NewQuote(call.draft, call.machine)
    /\ Advance(k, [call EXCEPT !.at = "priced", !.quote = Len(quotes[call.draft]) + 1])
    /\ UNCHANGED <<owner, seenIn, rows, drafts, reserved, sweep>>

\* Then the draft is given the price; a request dropped before leaves a version
\* that no draft has.
QuoteSaved(k) ==
    LET call == calls[k] IN
    /\ call.at = "priced"
    /\ drafts' = [drafts EXCEPT ![call.draft].quote = call.quote]
    /\ Ends(k)
    /\ UNCHANGED <<owner, seenIn, rows, quotes, reserved, sweep>>

\* BUG: the tier and share of the price are not compared.
AnyPrice(d, machine) == drafts[d].quote # 0

\* price_context: the draft's price was made for the tier and the share the
\* request found.
PriceContext(d, machine) ==
    /\ drafts[d].quote # 0
    /\ quotes[d][drafts[d].quote].context.tier = machine.tier

\* accept: the draft's own price, reviewed as it was saved.
AcceptDraft(k) ==
    LET call == calls[k] IN
    /\ call.at = "authorized" /\ PriceContext(call.draft, call.machine)
    /\ Acceptable(call.draft, drafts[call.draft].quote, call.machine)
    /\ Ends(k)
    /\ UNCHANGED <<owner, seenIn, rows, drafts, reserved, sweep>>

\* submit: a reserved draft is replayed, whatever became of its price.
SubmitDraft(k) ==
    LET call == calls[k] IN
    /\ call.at = "authorized"
    /\ Exists(call.draft)
    /\ reserved[call.draft] = 0 => PriceContext(call.draft, call.machine)
    /\ Advance(k, [call EXCEPT !.at = "checked", !.quote = drafts[call.draft].quote])
    /\ UNCHANGED <<owner, seenIn, rows, quotes, drafts, reserved, sweep>>

\* BUG: the context the request found is believed.
AsAuthorized(machine) == TRUE

\* book_owned, under the lock: the owner is still priced as the request found.
StillOwner(machine) == owner.context = machine

\* book_owned with the draft's id as its key.
BookDraft(k) ==
    LET call == calls[k] IN
    /\ call.at = "checked" /\ Unlocked /\ owner.granted
    /\ \/ reserved[call.draft] # 0 /\ UNCHANGED reserved
       \/ /\ reserved[call.draft] = 0
          /\ StillOwner(call.machine)
          /\ rows[call.draft] = "fresh" /\ call.quote = Len(quotes[call.draft])
          /\ quotes[call.draft][call.quote].accepted
          /\ quotes[call.draft][call.quote].context.agent = call.machine.agent
          /\ reserved' = [reserved EXCEPT ![call.draft] = call.quote]
    /\ Ends(k)
    /\ UNCHANGED <<owner, seenIn, rows, quotes, drafts, sweep>>

-----------------------------------------------------------------------------

DraftsInit ==
    /\ \E c \in Contexts : owner = [context |-> c, granted |-> TRUE] /\ seenIn = {c}
    /\ rows = [o \in Stored |-> IF o \in Sources THEN "fresh" ELSE "absent"]
    /\ quotes = [o \in Stored |-> << >>]
    /\ drafts = [d \in Drafts |-> NoDraft]
    /\ calls = [k \in Calls |-> NoRequest]
    /\ reserved = [d \in Drafts |-> 0]
    /\ sweep = {}

DraftsNext ==
    \/ \E c \in Contexts, granted \in BOOLEAN : ChangeOwner(c, granted)
    \/ \E s \in Sources : ExpireOffer(s)
    \/ SweepLook \/ SweepDelete
    \/ \E o \in Stored : \/ ForgetMarker(o)
                         \/ \E c \in Contexts : ApiReprice(o, c) \/ ApiAccept(o, c)
    \/ \E k \in Calls :
          \/ \E d \in Drafts, s \in Sources : Authorized(k, d, s)
          \/ Dropped(k)
          \/ OpenDraft(k) \/ CopyOffer(k)
          \/ OpenQuote(k) \/ QuotePriced(k) \/ QuoteSaved(k)
          \/ AcceptDraft(k) \/ SubmitDraft(k) \/ BookDraft(k)

DraftsSpec == DraftsInit /\ [][DraftsNext]_draftsVars

-----------------------------------------------------------------------------
(* Properties.                                                             *)

\* The value space of the tables.
DraftsTypeOK ==
    /\ owner \in [context : Contexts, granted : BOOLEAN] /\ seenIn \subseteq Contexts
    /\ rows \in [Stored -> {"fresh", "expired", "expired marker", "absent"}]
    /\ drafts \in [Drafts -> [source : Sources, quote : 0..MaxQuotes] \cup {NoDraft}]
    /\ reserved \in [Drafts -> 0..MaxQuotes]

\* What a draft was made from and what it has priced stay stored, whatever
\* cleanup saw before the draft was committed; its booking was made with its
\* price, which somebody accepted.
DraftsKept ==
    /\ \A d \in Drafts : Exists(d) => {rows[d], rows[drafts[d].source]} \subseteq {"fresh", "expired"}
    /\ \A d \in Drafts : reserved[d] # 0 =>
          drafts[d].quote = reserved[d] /\ quotes[d][reserved[d]].accepted

\* A draft is given one price and one booking, for ever.  It is booked at that
\* price only while the price is the offer's latest, and only as its owner is
\* priced at that moment: nobody books with the tier, share or agent he had
\* when the draft was priced, when the request began, or when it was checked,
\* although all three are read without a lock (prepare, price_context, submit;
\* docs/PORTAL_HOLDS.md, Booking behavior).
BookedAsPriced ==
    /\ DraftsTypeOK' /\ DraftsKept'
    /\ \A d \in Drafts :
          /\ Exists(d) => drafts'[d].source = drafts[d].source
          /\ drafts[d].quote # 0 => drafts'[d] = drafts[d]
          /\ reserved[d] # 0 => reserved'[d] = reserved[d]
          /\ (reserved[d] = 0 /\ reserved'[d] # 0) =>
                /\ owner = [context |-> quotes[d][reserved'[d]].context, granted |-> TRUE]
                /\ reserved'[d] = Len(quotes[d]) /\ rows[d] = "fresh"

BookedAsPricedAlways == [][BookedAsPriced]_draftsVars

=============================================================================
