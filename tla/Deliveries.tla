----------------------------- MODULE Deliveries -----------------------------
(***************************************************************************)
(* The three outboxes the service keeps for people, and the workers that   *)
(* empty them:                                                             *)
(*                                                                         *)
(*   mail     identity mail (identity/mail.rs): claimed under a fence and a*)
(*            lease, sent by a receiver that must first start the transport*)
(*            in this database;                                            *)
(*   wallet   wallet notifications (wallet/notifications.rs): an event is  *)
(*            expanded into one delivery per recipient, each delivery is   *)
(*            claimed and reported, finance may ask for another try;       *)
(*   notices  booking, ticket and role notices (identity/notifications.rs).*)
(*                                                                         *)
(* The providers, the receiver and the workers around the claims are       *)
(* external: "transport" records what a provider really did with an        *)
(* attempt, and a report may be late, lost or repeated.  Clocks are        *)
(* abstracted: a row that waits may be due or not, a row being sent may be *)
(* stale or not, whenever somebody looks.                                  *)
(***************************************************************************)
EXTENDS Naturals, Sequences, FiniteSets, FiniteSetsExt

CONSTANTS
    Mails,          \* identity mail jobs, numbered in their sequence
    MailAttempts,   \* tries of one mail (5 in the code)
    Notes,          \* slots for wallet events, 1..n in order of creation
    People,         \* recipient keys a wallet event may be expanded to
    Requester,      \* the one whose decision mail can be asked for again
    Plans,          \* expansions: [People -> {"absent", "address", "none"}]
    EventAttempts,  \* expansions tried without a person (3 in the code)
    SendAttempts,   \* tries within one generation (3 in the code)
    Asks,           \* operation ids of finance's requests to send again
    Notices,        \* booking, ticket and role notices, in order of creation
    NoticeAttempts  \* tries of a notice (3 in the code)

ASSUME DeliveriesAssumption ==
    /\ Mails \subseteq Nat /\ Notices \subseteq Nat
    /\ MailAttempts \in Nat \ {0} /\ EventAttempts \in Nat \ {0}
    /\ SendAttempts \in Nat \ {0} /\ NoticeAttempts \in Nat \ {0}
    /\ Notes \subseteq Nat /\ IsFiniteSet(Notes)
    /\ Requester \in People /\ "nobody" \notin People
    /\ Plans \subseteq [People -> {"absent", "address", "none"}]

VARIABLES
    mail,       \* portal_identity_mail: state and what is left of the lease
    tries,      \* portal_identity_mail_attempts of each mail, by fence
    posted,     \* <<mail, fence>> handed to the receiver; may arrive again
    wanted,     \* mails whose invitation or user still makes them eligible
    wallet,     \* the wallet outbox: events, deliveries, attempts, actions
    notices,    \* portal_notification_deliveries: state of each notice
    efforts,    \* portal_notification_attempts of each notice
    reachable   \* notices whose recipient is active and keeps this address

mailVars == <<mail, tries, posted, wanted>>
noticeVars == <<notices, efforts, reachable>>
deliveriesVars == <<mailVars, wallet, noticeVars>>

\* A claimed attempt: whether the receiver started a transport for it (mail
\* only), what was recorded of it, and what the provider really did: the
\* copies it took, and its answer to the last try.
Attempt ==
    [started : BOOLEAN, copies : Nat, answer : {"no", "accepted", "refused"},
     outcome : {"none", "sent", "not_sent", "failed", "unknown"}]

Fresh == [started |-> FALSE, copies |-> 0, answer |-> "no", outcome |-> "none"]

\* The provider takes what it is handed, or refuses it.
Handed(a, answer) ==
    [a EXCEPT !.answer = answer, !.copies = @ + (IF answer = "accepted" THEN 1 ELSE 0)]

\* What a worker can truthfully say of an attempt; it may always say unknown.
Tellable(a, outcome) ==
    \/ outcome = "sent" /\ a.answer = "accepted"
    \/ outcome \in {"failed", "not_sent"} /\ a.answer = "refused"
    \/ outcome = "unknown"

Copies(attempts) == MapThenSumSet(LAMBDA i : attempts[i].copies, DOMAIN attempts)

-----------------------------------------------------------------------------
(* Identity mail.                                                          *)

MailRows ==
    [state : {"absent", "pending", "sending", "sent", "unknown", "blocked"},
     lease : {"none", "ample", "short", "over"}]

\* A job is written with what it is about, once: ON CONFLICT DO NOTHING.
MailEnqueue(m) ==
    /\ mail[m].state = "absent"
    /\ mail' = [mail EXCEPT ![m].state = "pending"]
    /\ UNCHANGED <<tries, posted, wanted, wallet, noticeVars>>

\* The invitation is revoked, the user suspended, or the opposite.
MailWorld(m) ==
    /\ wanted' = (wanted \ {m}) \cup ({m} \ wanted)
    /\ UNCHANGED <<mail, tries, posted, wallet, noticeVars>>

\* Less than the 45 seconds a transport needs are left; then none are.
MailLease(m) ==
    /\ mail[m].lease \in {"ample", "short"}
    /\ mail' = [mail EXCEPT ![m].lease = IF @ = "ample" THEN "short" ELSE "over"]
    /\ UNCHANGED <<tries, posted, wanted, wallet, noticeVars>>

\* BUG: a job whose lease ended goes back to the queue.
LapsedToQueue(row) == [state |-> "pending", lease |-> "none"]

\* A job whose lease ended is unknown: somebody may have sent it.
Lapsed(row) == [state |-> "unknown", lease |-> "none"]

\* One transaction: lapsed jobs are unknown, due jobs before the first
\* eligible one are blocked, and that one is claimed under the next fence.
MailClaim ==
    \E due \in SUBSET {m \in Mails : /\ mail[m].state = "pending"
                                     /\ Len(tries[m]) < MailAttempts} :
       LET lapsed == {m \in Mails : mail[m].state = "sending" /\ mail[m].lease = "over"}
           able == due \cap wanted
           taken == IF able = {} THEN {} ELSE {Min(able)}
           blocked == {m \in due \ able : taken = {} \/ m < Min(able)}
       IN /\ lapsed \cup blocked \cup taken # {}
          /\ mail' = [m \in Mails |->
                CASE m \in lapsed -> Lapsed(mail[m])
                  [] m \in blocked -> [mail[m] EXCEPT !.state = "blocked"]
                  [] m \in taken -> [state |-> "sending", lease |-> "ample"]
                  [] OTHER -> mail[m]]
          /\ tries' = [m \in Mails |->
                CASE m \in lapsed ->
                        [tries[m] EXCEPT ![Len(tries[m])].outcome = "unknown"]
                  [] m \in taken -> Append(tries[m], Fresh)
                  [] OTHER -> tries[m]]
          /\ posted' = posted \cup {<<m, Len(tries[m]) + 1>> : m \in taken}
          /\ UNCHANGED <<wanted, wallet, noticeVars>>

\* BUG: the receiver may start a transport as often as it is asked to.
StartableAgain(m, f) ==
    /\ mail[m].state = "sending" /\ f = Len(tries[m])
    /\ mail[m].lease = "ample" /\ m \in wanted

\* The claim is the current one, time enough is left, the recipient is still
\* eligible, and no transport was started under this claim.
Startable(m, f) ==
    /\ mail[m].state = "sending" /\ f = Len(tries[m])
    /\ mail[m].lease = "ample" /\ m \in wanted
    /\ ~tries[m][f].started /\ tries[m][f].outcome = "none"

\* The receiver asks before its one SMTP attempt; a request that arrives
\* twice asks twice.
MailStart(m, f) ==
    /\ <<m, f>> \in posted /\ Startable(m, f)
    /\ tries' = [tries EXCEPT ![m][f].started = TRUE, ![m][f].answer = "no"]
    /\ UNCHANGED <<mail, posted, wanted, wallet, noticeVars>>

\* SMTP takes the mail or refuses it, within the receiver's own deadline.
MailTransport(m, f) ==
    /\ f \in DOMAIN tries[m] /\ tries[m][f].started /\ tries[m][f].answer = "no"
    /\ \E answer \in {"accepted", "refused"} :
          tries' = [tries EXCEPT ![m][f] = Handed(@, answer)]
    /\ UNCHANGED <<mail, posted, wanted, wallet, noticeVars>>

\* The worker records what it was told: sent is final, a definite refusal goes
\* back to the queue while tries are left, and everything else is unknown.  A
\* report that comes after the lease, or of an older claim, changes nothing.
MailFinish(m, f, outcome) ==
    /\ mail[m].state = "sending" /\ f = Len(tries[m]) /\ mail[m].lease # "over"
    /\ Tellable(tries[m][f], outcome)
    /\ mail' = [mail EXCEPT ![m] =
          [state |-> IF outcome \in {"sent", "unknown"} THEN outcome
                     ELSE IF f < MailAttempts THEN "pending" ELSE "blocked",
           lease |-> "none"]]
    /\ tries' = [tries EXCEPT ![m][f].outcome = outcome]
    /\ UNCHANGED <<posted, wanted, wallet, noticeVars>>

MailInit ==
    /\ mail = [m \in Mails |-> [state |-> "absent", lease |-> "none"]]
    /\ tries = [m \in Mails |-> << >>]
    /\ posted = {}
    /\ wanted = Mails

MailNext ==
    \/ MailClaim
    \/ \E m \in Mails :
          \/ MailEnqueue(m) \/ MailWorld(m) \/ MailLease(m)
          \/ \E f \in 1..MailAttempts :
                \/ MailStart(m, f) \/ MailTransport(m, f)
                \/ \E outcome \in {"sent", "not_sent", "unknown"} :
                      MailFinish(m, f, outcome)

-----------------------------------------------------------------------------
(* Wallet notifications.  The tables are the fields of one record:         *)
(*   event     state, automatic tries, claim and preparation hash          *)
(*   delivery  state, generation, tries within it and current claim, or    *)
(*             absent, for each event and recipient                        *)
(*   sends     wallet_notification_attempts, one for each claim, in order  *)
(*   claims    expansions claimed so far; a claim's token is its number    *)
(*   actions   wallet_notification_actions and what each started again     *)

NoEvent == [state |-> "absent", tries |-> 0, claim |-> 0, plan |-> "none"]
NoDelivery == [state |-> "absent", generation |-> 0, tries |-> 0, claim |-> 0]

EventStates == {"absent", "pending", "preparing", "prepared", "failed"}
DeliveryStates ==
    {"absent", "pending", "sending", "sent", "failed", "unknown", "suppressed"}

\* BUG: a send whose worker vanished failed, and is tried again.
VanishedFailed == "failed"

\* A send whose worker vanished: the provider may have taken it.
VanishedSend == "unknown"

\* Every command first recovers what was claimed more than ten minutes ago: an
\* expansion sends nothing and is repeated, a send is unknown.
RecoveredTables(w, staleEvents, staleSends) ==
    LET lost == {t \in staleSends : LET s == w.sends[t]
                                        d == w.delivery[s.note][s.person]
                                    IN d.state = "sending" /\ d.claim = t}
    IN [w EXCEPT
         !.event = [n \in Notes |->
              IF n \in staleEvents
              THEN [w.event[n] EXCEPT !.state = "pending", !.claim = 0] ELSE w.event[n]],
         !.delivery = [n \in Notes |-> [p \in People |->
              LET d == w.delivery[n][p] IN
              IF d.claim \in lost THEN [d EXCEPT !.state = VanishedSend] ELSE d]],
         !.sends = [t \in DOMAIN w.sends |->
              IF t \in lost THEN [w.sends[t] EXCEPT !.attempt.outcome = VanishedSend]
              ELSE w.sends[t]]]

\* Expansion: an event that waits, or failed with tries left, is claimed.
ClaimEvent(w, n) ==
    /\ \/ w.event[n].state = "pending"
       \/ w.event[n].state = "failed" /\ w.event[n].tries < EventAttempts
    /\ wallet' = [w EXCEPT
         !.event[n] = [w.event[n] EXCEPT !.state = "preparing", !.tries = @ + 1,
                                         !.claim = Len(w.claims) + 1],
         !.claims = Append(@, n)]

\* The plan of the current claim becomes the deliveries, once; recipients
\* without an address are recorded and never sent to.
Prepare(w, c, plan) ==
    LET n == w.claims[c] IN
    /\ w.event[n].state = "preparing" /\ w.event[n].claim = c
    /\ \E p \in People : plan[p] # "absent"
    /\ wallet' = [w EXCEPT
         !.event[n].state = "prepared", !.event[n].plan = plan,
         !.delivery[n] = [p \in People |->
            [NoDelivery EXCEPT !.state = CASE plan[p] = "absent" -> "absent"
                                           [] plan[p] = "none" -> "suppressed"
                                           [] OTHER -> "pending"]]]

FailEvent(w, c) ==
    LET n == w.claims[c] IN
    /\ w.event[n].state = "preparing" /\ w.event[n].claim = c
    /\ wallet' = [w EXCEPT !.event[n].state = "failed"]

\* Sending: a delivery that waits, or failed with tries left in its
\* generation, is claimed and its attempt recorded.
ClaimDelivery(w, n, p) ==
    LET d == w.delivery[n][p] IN
    /\ \/ d.state = "pending"
       \/ d.state = "failed" /\ d.tries < SendAttempts
    /\ wallet' = [w EXCEPT
         !.delivery[n][p] = [d EXCEPT !.state = "sending", !.tries = @ + 1,
                                      !.claim = Len(w.sends) + 1],
         !.sends = Append(@, [note |-> n, person |-> p, generation |-> d.generation,
                              attempt |-> Fresh])]

\* The report of the current claim is recorded; repeated, it changes nothing;
\* of another claim, or a different one, it is refused.
Complete(w, t, outcome) ==
    LET n == w.sends[t].note
        p == w.sends[t].person
    IN /\ w.delivery[n][p].claim = t /\ w.delivery[n][p].state = "sending"
       /\ Tellable(w.sends[t].attempt, outcome)
       /\ wallet' = [w EXCEPT !.delivery[n][p].state = outcome,
                              !.sends[t].attempt.outcome = outcome]

\* A command of the workers, on what recovery left: one transaction.  A claim
\* that finds nothing leaves the recovery alone.
WalletWorker ==
    /\ \E staleEvents \in SUBSET {n \in Notes : wallet.event[n].state = "preparing"},
         staleSends \in SUBSET {t \in DOMAIN wallet.sends :
                                  wallet.sends[t].attempt.outcome = "none"} :
         LET w == RecoveredTables(wallet, staleEvents, staleSends) IN
         \/ w # wallet /\ wallet' = w
         \/ \E n \in Notes : \/ ClaimEvent(w, n)
                             \/ \E p \in People : ClaimDelivery(w, n, p)
         \/ \E c \in DOMAIN w.claims : \/ FailEvent(w, c)
                                      \/ \E plan \in Plans : Prepare(w, c, plan)
         \/ \E t \in DOMAIN w.sends, outcome \in {"sent", "failed", "unknown"} :
               Complete(w, t, outcome)
    /\ UNCHANGED <<mailVars, noticeVars>>

\* A worker hands its claim to the provider, however late, and once.
WalletTransport(t) ==
    /\ t \in DOMAIN wallet.sends /\ wallet.sends[t].attempt.answer = "no"
    /\ wallet.sends[t].attempt.outcome # "failed"
    /\ \E answer \in {"accepted", "refused"} :
          wallet' = [wallet EXCEPT !.sends[t].attempt = Handed(@, answer)]
    /\ UNCHANGED <<mailVars, noticeVars>>

\* The decision is recorded with its event.
Decided(n) ==
    /\ n = Min(Notes) /\ wallet.event[n].state = "absent"
    /\ wallet' = [wallet EXCEPT !.event[n] = [NoEvent EXCEPT !.state = "pending"]]
    /\ UNCHANGED <<mailVars, noticeVars>>

\* Finance asks again.  Each request has an operation id and is carried out
\* once; a repeated call returns what the first one did.

\* BUG: a repeated call is carried out again.
AskedWithoutIds(w) == {}

Asked(w) == {a.op : a \in w.actions}

EventAgain(n) ==
    [wallet.event[n] EXCEPT !.state = "pending", !.tries = 0]

\* A delivery starts a new generation, with its tries and its claim cleared.
Restarted(d) ==
    [NoDelivery EXCEPT !.state = "pending", !.generation = d.generation + 1]

Recorded(op, n, p) == wallet.actions \cup {[op |-> op, note |-> n, restarted |-> p]}

\* An expansion that failed before it had a plan is tried again.
RetryEvent(op, n) ==
    /\ op \notin Asked(wallet) /\ wallet.event[n].state = "failed"
    /\ wallet' = [wallet EXCEPT !.event[n] = EventAgain(n),
                                !.actions = Recorded(op, n, "nobody")]
    /\ UNCHANGED <<mailVars, noticeVars>>

SendsOf(n, p) ==
    {t \in DOMAIN wallet.sends : wallet.sends[t].note = n /\ wallet.sends[t].person = p}

\* One delivery is sent again by somebody who saw its present generation and
\* all its tries; one whose outcome is unknown only if that is acknowledged,
\* one that was sent never.
RetryDelivery(op, n, p, seen, acknowledged) ==
    LET d == wallet.delivery[n][p] IN
    /\ op \notin Asked(wallet) /\ seen = <<d.generation, Cardinality(SendsOf(n, p))>>
    /\ d.state = "failed" \/ (d.state = "unknown" /\ acknowledged)
    /\ wallet' = [wallet EXCEPT !.delivery[n][p] = Restarted(d),
                                !.actions = Recorded(op, n, p)]
    /\ UNCHANGED <<mailVars, noticeVars>>

\* The decision is sent to its requester again, whatever became of it before:
\* the newest event is expanded again if it failed, a requester without an
\* address gets a new event, and a delivery that is not waiting starts again.
ResendDecision(op, acknowledged) ==
    LET n == Max({m \in Notes : wallet.event[m].state # "absent"})
        d == wallet.delivery[n][Requester]
    IN /\ op \notin Asked(wallet)
       /\ \E m \in Notes : wallet.event[m].state # "absent"
       /\ \/ /\ d.state \in {"absent", "pending"}
             /\ wallet' = [wallet EXCEPT
                  !.event[n] = IF @.state = "failed" THEN EventAgain(n) ELSE @,
                  !.actions = Recorded(op, n, "nobody")]
          \/ /\ d.state = "suppressed" /\ n + 1 \in Notes
             /\ wallet' = [wallet EXCEPT
                  !.event[n + 1] = [NoEvent EXCEPT !.state = "pending"],
                  !.actions = Recorded(op, n + 1, "nobody")]
          \/ /\ d.state \in {"failed", "sent"} \/ (d.state = "unknown" /\ acknowledged)
             /\ wallet' = [wallet EXCEPT !.delivery[n][Requester] = Restarted(d),
                                         !.actions = Recorded(op, n, Requester)]
    /\ UNCHANGED <<mailVars, noticeVars>>

WalletInit ==
    wallet = [event |-> [n \in Notes |-> NoEvent],
              delivery |-> [n \in Notes |-> [p \in People |-> NoDelivery]],
              sends |-> << >>, claims |-> << >>, actions |-> {}]

WalletNext ==
    \/ WalletWorker
    \/ \E t \in DOMAIN wallet.sends : WalletTransport(t)
    \/ \E n \in Notes : Decided(n)
    \/ \E op \in Asks :
          \/ \E n \in Notes : RetryEvent(op, n)
          \/ \E acknowledged \in BOOLEAN :
                \/ ResendDecision(op, acknowledged)
                \/ \E n \in Notes, p \in People,
                      seen \in (0..Cardinality(Asks)) \X (0..Len(wallet.sends)) :
                      RetryDelivery(op, n, p, seen, acknowledged)

-----------------------------------------------------------------------------
(* Booking, ticket and role notices.                                       *)

\* A trigger writes one notice for each source, channel, recipient and
\* audience; without a usable address it is suppressed from the start.
NoticeEnqueue(n) ==
    /\ notices[n] = "absent"
    /\ notices' = [notices EXCEPT ![n] = IF n \in reachable THEN "pending" ELSE "suppressed"]
    /\ UNCHANGED <<mailVars, wallet, efforts, reachable>>

NoticeWorld(n) ==
    /\ reachable' = (reachable \ {n}) \cup ({n} \ reachable)
    /\ UNCHANGED <<mailVars, wallet, notices, efforts>>

\* BUG: a notice being sent for too long failed.
StaleNotice == "failed"

\* A notice being sent for more than two minutes: nobody knows.
AbandonedNotice == "unknown"

\* One transaction: stale sends are unknown, whoever must not be written to
\* any more is suppressed, and the first due notice is claimed.
NoticeClaim ==
    \E stale \in SUBSET {n \in Notices : notices[n] = "sending"},
      later \in SUBSET Notices :
       LET suppressed == {n \in Notices \ reachable : notices[n] \in {"pending", "failed"}}
           due == {n \in (Notices \cap reachable) \ later :
                     \/ notices[n] = "pending"
                     \/ notices[n] = "failed" /\ Len(efforts[n]) < NoticeAttempts}
           taken == IF due = {} THEN {} ELSE {Min(due)}
       IN /\ stale \cup suppressed \cup taken # {}
          /\ notices' = [n \in Notices |->
                CASE n \in stale -> AbandonedNotice
                  [] n \in suppressed -> "suppressed"
                  [] n \in taken -> "sending"
                  [] OTHER -> notices[n]]
          /\ efforts' = [n \in Notices |->
                CASE n \in stale ->
                        [efforts[n] EXCEPT ![Len(efforts[n])].outcome = AbandonedNotice]
                  [] n \in taken -> Append(efforts[n], Fresh)
                  [] OTHER -> efforts[n]]
          /\ UNCHANGED <<mailVars, wallet, reachable>>

NoticeTransport(n, i) ==
    /\ i \in DOMAIN efforts[n] /\ efforts[n][i].answer = "no"
    /\ efforts[n][i].outcome # "failed"
    /\ \E answer \in {"accepted", "refused"} :
          efforts' = [efforts EXCEPT ![n][i] = Handed(@, answer)]
    /\ UNCHANGED <<mailVars, wallet, notices, reachable>>

\* Only the current claim reports; a repeated report changes nothing.
NoticeComplete(n, i, outcome) ==
    /\ notices[n] = "sending" /\ i = Len(efforts[n])
    /\ Tellable(efforts[n][i], outcome)
    /\ notices' = [notices EXCEPT ![n] = outcome]
    /\ efforts' = [efforts EXCEPT ![n][i].outcome = outcome]
    /\ UNCHANGED <<mailVars, wallet, reachable>>

NoticeInit ==
    /\ notices = [n \in Notices |-> "absent"]
    /\ efforts = [n \in Notices |-> << >>]
    /\ reachable = Notices

NoticeNext ==
    \/ NoticeClaim
    \/ \E n \in Notices :
          \/ NoticeEnqueue(n) \/ NoticeWorld(n)
          \/ \E i \in 1..NoticeAttempts :
                \/ NoticeTransport(n, i)
                \/ \E outcome \in {"sent", "failed", "unknown"} :
                      NoticeComplete(n, i, outcome)

-----------------------------------------------------------------------------

DeliveriesInit == MailInit /\ WalletInit /\ NoticeInit

DeliveriesNext == MailNext \/ WalletNext \/ NoticeNext

DeliveriesSpec == DeliveriesInit /\ [][DeliveriesNext]_deliveriesVars

-----------------------------------------------------------------------------
(* Properties.                                                             *)

\* The value space of the tables.
DeliveriesTypeOK ==
    /\ \A m \in Mails : mail[m] \in MailRows /\ tries[m] \in Seq(Attempt)
    /\ \A n \in Notes :
          /\ wallet.event[n].state \in EventStates
          /\ wallet.event[n].tries \in Nat
          /\ \A p \in People : /\ wallet.delivery[n][p].state \in DeliveryStates
                              /\ wallet.delivery[n][p].tries <= SendAttempts
    /\ \A t \in DOMAIN wallet.sends : wallet.sends[t].attempt \in Attempt
    /\ \A n \in Notices : notices[n] \in DeliveryStates /\ efforts[n] \in Seq(Attempt)

WalletCopies(n, p, g) ==
    MapThenSumSet(LAMBDA t : wallet.sends[t].attempt.copies,
                  {t \in SendsOf(n, p) : wallet.sends[t].generation = g})

\* Nobody is sent the same thing twice by machines.  Whatever workers crash,
\* leases lapse, requests arrive twice or reports come late, a mail and a
\* notice leave at most once, and a wallet delivery at most once for each time
\* a person asked for it: its generation counts the requests carried out.
\* What is recorded as sent did leave, and what still waits for a try did not.
SentOnce ==
    /\ DeliveriesTypeOK
    /\ \A m \in Mails :
          /\ Copies(tries[m]) <= 1
          /\ mail[m].state = "sent" => Copies(tries[m]) = 1
          /\ mail[m].state = "pending" => Copies(tries[m]) = 0
    /\ \A n \in Notices :
          /\ Copies(efforts[n]) <= 1
          /\ notices[n] = "sent" => Copies(efforts[n]) = 1
          /\ notices[n] \in {"pending", "failed", "suppressed"} => Copies(efforts[n]) = 0
    /\ \A n \in Notes, p \in People :
          LET d == wallet.delivery[n][p] IN
          /\ \A g \in 0..d.generation : WalletCopies(n, p, g) <= 1
          /\ d.generation = Cardinality({a \in wallet.actions :
                                            a.note = n /\ a.restarted = p})
          /\ d.state = "sent" => WalletCopies(n, p, d.generation) = 1
          /\ d.state \in {"pending", "failed"} => WalletCopies(n, p, d.generation) = 0
=============================================================================
