---------------------------- MODULE Notifications ----------------------------
(***************************************************************************)
(* From an engine's outage to a person's phone: the provider watch and its *)
(* edge detector, the domain-event bus, the notification dispatcher, the   *)
(* channels a person connects, and the delivery worker.                    *)
(*                                                                         *)
(* Everything runs in one process and yields at every database or provider *)
(* call; people and operators change what the calls read meanwhile.  The   *)
(* tables survive a restart; the detector, the bus and whatever was in     *)
(* flight do not.                                                          *)
(*                                                                         *)
(* Left out: other producers; payload validation and event ids given by a  *)
(* producer (none gives one, so the bus never meets an id twice and no     *)
(* insert collides); wording and rendering; the health figures of a        *)
(* channel; Discord, which behaves as e-mail does; linking codes.          *)
(***************************************************************************)
EXTENDS Naturals, Sequences, SequencesExt, FiniteSets

CONSTANTS
  Users,        \* accounts that may see engine events
  Channels,     \* a subset of {"email", "telegram"}
  FirstAddress, \* the address people have connected at first, if any
  Addresses,    \* what a person may connect
  Nowhere,      \* no address
  FirstPrefs,      \* what people prefer at first, sets of channels and "in_app"
  Requests,     \* concurrent calls of the channel endpoints
  Batch,        \* BATCH
  MaxAttempts,  \* MAX_ATTEMPTS
  MaxActs,      \* bound: what the engine and people do
  MaxFaults     \* bound: refused or lost sends, failed calls, restarts

ASSUME UserAssumption == Users # {}
ASSUME ChannelAssumption == Channels \subseteq {"email", "telegram"}
ASSUME PreferenceAssumption == \A C \in FirstPrefs : C \subseteq Channels \cup {"in_app"}
ASSUME AddressAssumption == FirstAddress \in Addresses /\ Nowhere \notin Addresses
ASSUME LimitAssumption == {Batch, MaxAttempts} \subseteq Nat \ {0}
ASSUME BoundAssumption == {MaxActs, MaxFaults} \subseteq Nat

VARIABLES
  up, enabled,  \* the engine answers; it is enabled
  seen,         \* the provider watch's edge detector: what it last observed
  window,       \* the bus remembers an "offline" published less than an hour ago
  log,          \* the events published; an event's id is its place
  disp,         \* the dispatcher's activations, one per event
  account,      \* User.isActive
  prefs,        \* where a person wants an event; nowhere is the master switch off
  chan,         \* UserNotificationChannel: [addr, verified]
  tests,        \* requests that connect or test an e-mail address
  notes,        \* UserNotification rows, <<event, user>>
  rows,         \* UserNotificationDelivery rows
  worker,       \* the delivery worker
  accepted,     \* history: how often a provider took a delivery's message
  excuses,      \* history: why it may have been taken again
  proven,       \* history: addresses a message was accepted for, <<user, address>>
  since,        \* history: what held at some moment since a delivery was taken up
  acts, faults, \* history: how much has happened
  upset         \* history: a call failed or the process restarted

sys   == <<up, enabled, seen, window, log>>
people == <<account, prefs, chan, tests>>
queue == <<notes, rows>>
sent  == <<accepted, excuses>>
hist  == <<acts, faults, upset>>
vars  == <<sys, disp, people, queue, worker, sent, proven, since, hist>>

Keys     == {"offline", "recovered"}
Surfaces == Channels \cup {"in_app"}
Events   == 1..MaxActs
Ids      == Events \X Users \X Channels

User(d)    == d[2]
Channel(d) == d[3]

Settled == {"provider_accepted", "cancelled", "exhausted"}
Row == [status : {"pending", "sending", "provider_accepted", "failed", "exhausted", "cancelled"},
        attempts : 0..MaxAttempts, due : BOOLEAN, createdAt : Nat]

Phases == {"idle", "user", "dest", "mark", "bot", "photo", "send", "accept", "success", "fail"}

Gone       == [addr |-> Nowhere, verified |-> FALSE]
Unknown    == [active |-> {}, wants |-> {}, dest |-> {}]
Resting    == [pc |-> "idle", list |-> <<>>, addr |-> Nowhere]
NoDispatch == [pc |-> "none", todo |-> {}, wants |-> <<>>, cur |-> {}, left |-> {}]
NoRequest  == [pc |-> "idle", user |-> CHOOSE u \in Users : TRUE, addr |-> Nowhere]

TypeOK ==
  /\ {up, enabled, window, upset} \subseteq BOOLEAN
  /\ seen \in {"none", "up", "down"}
  /\ Len(log) <= MaxActs /\ \A e \in DOMAIN log : log[e] \in Keys
  /\ \A e \in Events :
       /\ disp[e].pc \in {"none", "resolve", "prefs", "users", "queue"}
       /\ disp[e].todo \cup disp[e].cur \subseteq Users /\ disp[e].left \subseteq Channels
  /\ account \in [Users -> BOOLEAN]
  /\ prefs \in [Users -> [Keys -> SUBSET Surfaces]]
  /\ chan \in [Users -> [Channels -> [addr : Addresses \cup {Nowhere}, verified : BOOLEAN]]]
  /\ tests \in [Requests -> [pc : {"idle", "read", "send", "mark"}, user : Users,
                             addr : Addresses \cup {Nowhere}]]
  /\ notes \subseteq Events \X Users
  /\ DOMAIN rows \subseteq Ids
  /\ \A d \in DOMAIN rows : rows[d] \in Row
  /\ worker.pc \in Phases /\ worker.addr \in Addresses \cup {Nowhere}
  /\ ToSet(worker.list) \subseteq Ids /\ Len(worker.list) <= Batch
  /\ worker.pc = "idle" <=> worker.list = <<>>
  /\ acts \in 0..MaxActs /\ faults \in 0..MaxFaults

Init ==
  /\ up = TRUE /\ enabled = TRUE /\ seen = "none" /\ window = FALSE
  /\ log = <<>> /\ disp = [e \in Events |-> NoDispatch]
  /\ account = [u \in Users |-> TRUE]
  /\ prefs \in {[u \in Users |-> [k \in Keys |-> C]] : C \in FirstPrefs}
  /\ \E on \in [Users -> {FirstAddress, Nowhere}] :
       /\ chan = [u \in Users |-> [c \in Channels |->
                    [addr |-> on[u], verified |-> on[u] # Nowhere]]]
       /\ proven = {<<u, on[u]>> : u \in Users}
  /\ tests = [r \in Requests |-> NoRequest]
  /\ notes = {} /\ rows = <<>>
  /\ worker = Resting
  /\ accepted = [d \in Ids |-> 0] /\ excuses = [d \in Ids |-> 0]
  /\ since = Unknown
  /\ acts = 0 /\ faults = 0 /\ upset = FALSE

\* Somebody acts; something fails.  The second may be more than a refused send.
Act == acts < MaxActs /\ acts' = acts + 1 /\ UNCHANGED <<faults, upset>>
Fault(u) == faults < MaxFaults /\ faults' = faults + 1 /\ upset' = (upset \/ u)
            /\ UNCHANGED acts

----------------------------------------------------------------------------
(* The engine, the watch and the bus.                                       *)

EngineFlips ==
  /\ Act
  /\ \/ up' = ~up /\ UNCHANGED enabled
     \/ enabled' = ~enabled /\ UNCHANGED up
  /\ UNCHANGED <<seen, window, log, disp, people, queue, worker, sent, proven>>

\* Mutant: being online is taken for the condition that is watched.
EdgeSwapped(was, now) ==
  CASE was = "down" /\ now = "up" -> "offline"
    [] was = "up" /\ now = "down" -> "recovered"
    [] OTHER -> "no edge"

\* EdgeDetector.observe: the first observation is no edge.
Edge(was, now) ==
  CASE was = "up" /\ now = "down" -> "offline"
    [] was = "down" /\ now = "up" -> "recovered"
    [] OTHER -> "no edge"

\* publish: "offline" has a deduplication window, "recovered" has none.
Publish(key) ==
  IF key = "no edge" \/ (key = "offline" /\ window)
    THEN UNCHANGED <<log, window, disp>>
    ELSE /\ log' = Append(log, key)
         /\ window' = (window \/ key = "offline")
         /\ disp' = [disp EXCEPT ![Len(log) + 1].pc = "resolve"]

\* A pass of the watch: an enabled engine is asked, and an edge is published in the
\* same breath as its answer is observed; retainOnly forgets a disabled one.
Watch ==
  /\ seen' = CASE ~enabled -> "none" [] enabled /\ up -> "up" [] OTHER -> "down"
  /\ Publish(IF enabled THEN Edge(seen, seen') ELSE "no edge")
  /\ UNCHANGED <<up, enabled, people, queue, worker, sent, proven, hist>>

\* An hour goes by; prune drops the entry.
WindowEnds ==
  /\ window
  /\ window' = FALSE
  /\ UNCHANGED <<up, enabled, seen, log, disp, people, queue, worker, sent, proven, hist>>

----------------------------------------------------------------------------
(* The dispatcher.                                                          *)

\* The audience: active accounts.
Resolve(e) ==
  /\ disp[e].pc = "resolve"
  /\ disp' = [disp EXCEPT ![e] = [@ EXCEPT !.pc = "prefs", !.todo = {u \in Users : account[u]}]]
  /\ UNCHANGED <<sys, people, queue, worker, sent, proven, hist>>

ReadPreferences(e) ==
  /\ disp[e].pc = "prefs"
  /\ disp' = [disp EXCEPT ![e] = [@ EXCEPT !.pc = "users",
                                           !.wants = [u \in disp[e].todo |-> prefs[u][log[e]]]]]
  /\ UNCHANGED <<sys, people, queue, worker, sent, proven, hist>>

\* The person wants the event nowhere.
SkipUser(e, u) ==
  /\ disp[e].pc = "users" /\ u \in disp[e].todo /\ disp[e].wants[u] = {}
  /\ disp' = [disp EXCEPT ![e].todo = @ \ {u}]
  /\ UNCHANGED <<sys, people, queue, worker, sent, proven, hist>>

\* The row also carries the external deliveries, whether or not it is surfaced.
CreateInApp(e, u) ==
  /\ disp[e].pc = "users" /\ u \in disp[e].todo /\ disp[e].wants[u] # {}
  /\ notes' = notes \cup {<<e, u>>}
  /\ disp' = [disp EXCEPT ![e] = [@ EXCEPT !.pc = "queue", !.todo = disp[e].todo \ {u},
                                           !.cur = {u},
                                           !.left = disp[e].wants[u] \ {"in_app"}]]
  /\ UNCHANGED <<sys, people, rows, worker, sent, proven, hist>>

\* The rows with one more; createdAt orders them.
Inserted(d) ==
  [g \in DOMAIN rows \cup {d} |->
     IF g = d THEN [status |-> "pending", attempts |-> 0, due |-> TRUE,
                    createdAt |-> Cardinality(DOMAIN rows)]
     ELSE rows[g]]

QueueDelivery(e, u, c) ==
  /\ disp[e].pc = "queue" /\ disp[e].cur = {u} /\ c \in disp[e].left
  /\ rows' = Inserted(<<e, u, c>>)
  /\ disp' = [disp EXCEPT ![e].left = @ \ {c}]
  /\ UNCHANGED <<sys, people, notes, worker, sent, proven, hist>>

NextUser(e) ==
  /\ disp[e].pc = "queue" /\ disp[e].left = {}
  /\ disp' = [disp EXCEPT ![e] = [@ EXCEPT !.pc = "users", !.cur = {}]]
  /\ UNCHANGED <<sys, people, queue, worker, sent, proven, hist>>

DispatchEnds(e) ==
  /\ disp[e].pc = "users" /\ disp[e].todo = {}
  /\ disp' = [disp EXCEPT ![e] = NoDispatch]
  /\ UNCHANGED <<sys, people, queue, worker, sent, proven, hist>>

\* A query about the event fails and ends its dispatch; an insert for one person
\* fails and costs that person's note, or one channel.
DispatchFails(e) ==
  /\ Fault(TRUE)
  /\ \/ disp[e].pc \in {"resolve", "prefs"} /\ disp' = [disp EXCEPT ![e] = NoDispatch]
     \/ \E u \in disp[e].todo :
          disp[e].pc = "users" /\ disp' = [disp EXCEPT ![e].todo = @ \ {u}]
     \/ \E c \in disp[e].left : disp' = [disp EXCEPT ![e].left = @ \ {c}]
  /\ UNCHANGED <<sys, people, queue, worker, sent, proven>>

----------------------------------------------------------------------------
(* What people do.                                                          *)

SetActive(u) ==
  /\ Act
  /\ account' = [account EXCEPT ![u] = ~@]
  /\ UNCHANGED <<sys, disp, prefs, chan, tests, queue, worker, sent, proven>>

\* update: the event is switched off, or on everywhere.
SetPreference(u, k) ==
  /\ Act
  /\ prefs' = [prefs EXCEPT ![u][k] = IF @ = {} THEN Surfaces ELSE {}]
  /\ UNCHANGED <<sys, disp, account, chan, tests, queue, worker, sent, proven>>

\* connectEmail resets the proof; the call goes on to test the address.
ConnectEmail(r, u, a) ==
  /\ Act
  /\ tests[r].pc = "idle" /\ account[u] /\ "email" \in Channels
  /\ chan' = [chan EXCEPT ![u]["email"] = [addr |-> a, verified |-> FALSE]]
  /\ tests' = [tests EXCEPT ![r] = [pc |-> "read", user |-> u, addr |-> Nowhere]]
  /\ UNCHANGED <<sys, disp, account, prefs, queue, worker, sent, proven>>

\* testChannel, asked for on its own.
TestEmail(r, u) ==
  /\ Act
  /\ tests[r].pc = "idle" /\ account[u] /\ "email" \in Channels
  /\ tests' = [tests EXCEPT ![r] = [pc |-> "read", user |-> u, addr |-> Nowhere]]
  /\ UNCHANGED <<sys, disp, account, prefs, chan, queue, worker, sent, proven>>

\* resolveForTest: any connection that is not deleted.
ResolveForTest(r) ==
  /\ tests[r].pc = "read"
  /\ LET a == chan[tests[r].user]["email"].addr
     IN tests' = [tests EXCEPT ![r] = IF a = Nowhere THEN NoRequest
                                      ELSE [@ EXCEPT !.pc = "send", !.addr = a]]
  /\ UNCHANGED <<sys, disp, account, prefs, chan, queue, worker, sent, proven, hist>>

\* The relay takes the test message, or does not.
SendTest(r) ==
  /\ tests[r].pc = "send"
  /\ \/ /\ tests' = [tests EXCEPT ![r].pc = "mark"]
        /\ proven' = proven \cup {<<tests[r].user, tests[r].addr>>}
     \/ tests' = [tests EXCEPT ![r] = NoRequest] /\ UNCHANGED proven
  /\ UNCHANGED <<sys, disp, account, prefs, chan, queue, worker, sent, hist>>

\* markVerified marks whatever is connected now.
MarkVerified(r) ==
  /\ tests[r].pc = "mark"
  /\ tests' = [tests EXCEPT ![r] = NoRequest]
  /\ chan' = [chan EXCEPT ![tests[r].user]["email"].verified = @ \/
                chan[tests[r].user]["email"].addr # Nowhere]
  /\ UNCHANGED <<sys, disp, account, prefs, queue, worker, sent, proven, hist>>

\* connectTelegram: the redeemed code is the proof.
ConnectTelegram(u, a) ==
  /\ Act
  /\ account[u] /\ "telegram" \in Channels
  /\ chan' = [chan EXCEPT ![u]["telegram"] = [addr |-> a, verified |-> TRUE]]
  /\ proven' = proven \cup {<<u, a>>}
  /\ UNCHANGED <<sys, disp, account, prefs, tests, queue, worker, sent>>

Disconnect(u, c) ==
  /\ Act
  /\ account[u] /\ chan[u][c].addr # Nowhere
  /\ chan' = [chan EXCEPT ![u][c] = Gone]
  /\ UNCHANGED <<sys, disp, account, prefs, tests, queue, worker, sent, proven>>

----------------------------------------------------------------------------
(* The delivery worker.  It works on the head of the list it drained.       *)

Cur     == Head(worker.list)
At(p)   == worker.pc = p
Going   == worker.pc # "idle"
Goto(p) == worker' = [worker EXCEPT !.pc = p]

\* The attempt is over; on to the next of the batch.
Advance ==
  worker' = IF Len(worker.list) = 1 THEN Resting
            ELSE [pc |-> "user", list |-> Tail(worker.list), addr |-> Nowhere]

Status(s) == rows' = [rows EXCEPT ![Cur].status = s]
StatusAndDue(s) == rows' = [rows EXCEPT ![Cur] = [@ EXCEPT !.status = s, !.due = FALSE]]

Cancel == StatusAndDue("cancelled") /\ Advance

Due(d) == rows[d].status \in {"pending", "failed"} /\ rows[d].due

\* The oldest of the due rows, at most Batch of them, oldest first.
Older(d, g) == rows[d].createdAt < rows[g].createdAt
FirstDue(list) ==
  /\ \A i, j \in DOMAIN list : i < j => Older(list[i], list[j])
  /\ \A d \in DOMAIN rows :
       Due(d) /\ (\A i \in DOMAIN list : list[i] # d)
         => Len(list) = Batch /\ \A i \in DOMAIN list : Older(list[i], d)

Drain ==
  /\ At("idle")
  /\ \E n \in 1..Batch : \E list \in [1..n -> {d \in DOMAIN rows : Due(d)}] :
       /\ FirstDue(list)
       /\ worker' = [pc |-> "user", list |-> list, addr |-> Nowhere]
  /\ UNCHANGED <<sys, disp, people, queue, sent, proven, hist>>

ReadUser ==
  /\ At("user")
  /\ \/ account[User(Cur)] /\ Goto("dest") /\ UNCHANGED rows
     \/ ~account[User(Cur)] /\ Cancel
  /\ UNCHANGED <<sys, disp, people, notes, sent, proven, hist>>

\* Mutant: a connection counts whether or not it was ever verified.
DestinationUnverified(u, c) == chan[u][c].addr

\* resolveDestination
Destination(u, c) == IF chan[u][c].verified THEN chan[u][c].addr ELSE Nowhere

ReadDestination ==
  /\ At("dest")
  /\ LET a == Destination(User(Cur), Channel(Cur))
     IN \/ a # Nowhere /\ worker' = [worker EXCEPT !.pc = "mark", !.addr = a] /\ UNCHANGED rows
        \/ a = Nowhere /\ Cancel
  /\ UNCHANGED <<sys, disp, people, notes, sent, proven, hist>>

MarkSending ==
  /\ At("mark")
  /\ rows' = [rows EXCEPT ![Cur] = [@ EXCEPT !.status = "sending",
                                             !.attempts = rows[Cur].attempts + 1]]
  /\ Goto(IF Channel(Cur) = "telegram" THEN "bot" ELSE "send")
  /\ UNCHANGED <<sys, disp, people, notes, sent, proven, hist>>

\* resolveTelegramBot, and the artwork if there is any.
FindBot ==
  /\ At("bot")
  /\ \/ chan[User(Cur)][Channel(Cur)].addr # Nowhere
        /\ (Goto("photo") \/ Goto("send")) /\ UNCHANGED rows
     \/ chan[User(Cur)][Channel(Cur)].addr = Nowhere /\ Cancel
  /\ UNCHANGED <<sys, disp, people, notes, sent, proven, hist>>

Taken == accepted' = [accepted EXCEPT ![Cur] = @ + 1]

\* The provider takes the message and says so, refuses it, or takes it and is not
\* heard.  A photo that fails is followed by the text.
Provider(failed) ==
  \/ Taken /\ Goto("accept") /\ UNCHANGED <<excuses, hist>>
  \/ Fault(FALSE) /\ Goto(failed) /\ UNCHANGED sent
  \/ /\ Fault(FALSE) /\ Goto(failed)
     /\ Taken /\ excuses' = [excuses EXCEPT ![Cur] = @ + 1]

\* Mutant: the text follows the photo whatever became of it.
SendPhotoAndText ==
  /\ At("photo") /\ Goto("send") /\ Taken
  /\ UNCHANGED <<sys, disp, people, queue, excuses, proven, hist>>

SendPhoto == At("photo") /\ Provider("send") /\ UNCHANGED <<sys, disp, people, queue, proven>>
Send      == At("send")  /\ Provider("fail") /\ UNCHANGED <<sys, disp, people, queue, proven>>

RecordAccepted ==
  /\ At("accept")
  /\ Status("provider_accepted") /\ Goto("success")
  /\ UNCHANGED <<sys, disp, people, notes, sent, proven, hist>>

\* recordSuccess, about the channel.
RecordSuccess ==
  /\ At("success")
  /\ Advance
  /\ UNCHANGED <<sys, disp, people, queue, sent, proven, hist>>

\* Mutant: one attempt too many.
ExhaustedLate(n) == n > MaxAttempts

Exhausted(n) == n >= MaxAttempts

\* Mutant: the time of the next attempt is written, the status is not.
RecordFailedKeepsStatus ==
  /\ At("fail")
  /\ rows' = [rows EXCEPT ![Cur].due = FALSE] /\ Advance
  /\ UNCHANGED <<sys, disp, people, notes, sent, proven, hist>>

\* `exhausted' is `failed' without a next attempt.
RecordFailed ==
  /\ At("fail")
  /\ StatusAndDue(IF Exhausted(rows[Cur].attempts) THEN "exhausted" ELSE "failed")
  /\ Advance
  /\ UNCHANGED <<sys, disp, people, notes, sent, proven, hist>>

BackoffElapses(d) ==
  /\ d \in DOMAIN rows /\ rows[d].status = "failed" /\ ~rows[d].due
  /\ rows' = [rows EXCEPT ![d].due = TRUE]
  /\ UNCHANGED <<sys, disp, people, notes, worker, sent, proven, hist>>

\* A database call fails.  Before the try the error reaches drain, which goes on;
\* inside it, after the message was taken too, it counts as a failed send; in the
\* handler, or in the cancel that is returned without being awaited, the row is
\* left as it is.
CallFails ==
  /\ Fault(TRUE)
  /\ \/ worker.pc \in {"user", "dest", "mark", "fail"} /\ Advance /\ UNCHANGED sent
     \/ At("bot") /\ (Goto("fail") \/ (chan[User(Cur)][Channel(Cur)].addr = Nowhere /\ Advance))
        /\ UNCHANGED sent
     \/ /\ worker.pc \in {"accept", "success"} /\ Goto("fail")
        /\ excuses' = [excuses EXCEPT ![Cur] = @ + 1] /\ UNCHANGED accepted
  /\ UNCHANGED <<sys, disp, people, queue, proven>>

\* What is in memory is lost; rows stay as they are.
Restart ==
  /\ Fault(TRUE)
  /\ seen' = "none" /\ window' = FALSE
  /\ disp' = [e \in Events |-> NoDispatch]
  /\ tests' = [r \in Requests |-> NoRequest]
  /\ worker' = Resting
  /\ UNCHANGED <<up, enabled, log, account, prefs, chan, queue, sent, proven>>

----------------------------------------------------------------------------
\* Whether the person wants the event and is active, and their verified address,
\* after this step; Track gathers it while one delivery is worked on.
Standing(d) ==
  [active |-> {a \in {TRUE} : account'[User(d)]},
   wants  |-> {a \in {TRUE} : Channel(d) \in prefs'[User(d)][log[d[1]]]},
   dest   |-> {a \in Addresses :
                 chan'[User(d)][Channel(d)] = [addr |-> a, verified |-> TRUE]}]

Track ==
  since' = IF worker'.list = <<>> THEN Unknown
           ELSE [f \in DOMAIN Unknown |->
                   Standing(Head(worker'.list))[f]
                     \cup (IF worker'.list = worker.list THEN since[f] ELSE {})]

Dispatch(e) ==
  \/ Resolve(e) \/ ReadPreferences(e) \/ NextUser(e) \/ DispatchEnds(e)
  \/ \E u \in Users : \/ SkipUser(e, u) \/ CreateInApp(e, u)
                      \/ \E c \in Channels : QueueDelivery(e, u, c)

WorkerStep ==
  \/ Drain \/ ReadUser \/ ReadDestination \/ MarkSending \/ FindBot \/ SendPhoto \/ Send
  \/ RecordAccepted \/ RecordSuccess \/ RecordFailed

RequestStep(r) == ResolveForTest(r) \/ SendTest(r) \/ MarkVerified(r)

PeopleAct ==
  \/ \E u \in Users :
       \/ SetActive(u) \/ (\E k \in Keys : SetPreference(u, k))
       \/ \E c \in Channels : Disconnect(u, c)
       \/ \E a \in Addresses : ConnectTelegram(u, a)
       \/ \E r \in Requests : TestEmail(r, u) \/ \E a \in Addresses : ConnectEmail(r, u, a)

Next ==
  \/ EngineFlips /\ Track
  \/ Watch /\ Track
  \/ WindowEnds /\ Track
  \/ PeopleAct /\ Track
  \/ WorkerStep /\ Track
  \/ CallFails /\ Track
  \/ Restart /\ Track
  \/ \E e \in Events : (Dispatch(e) \/ DispatchFails(e)) /\ Track
  \/ \E r \in Requests : RequestStep(r) /\ Track
  \/ \E d \in Ids : BackoffElapses(d) /\ Track

Spec == Init /\ [][Next]_vars

\* Timers fire, calls return, and a back-off ends.
FairSpec ==
  /\ Spec
  /\ WF_vars(Watch /\ Track) /\ WF_vars(WorkerStep /\ Track)
  /\ WF_vars((\E e \in Events : Dispatch(e)) /\ Track)
  /\ WF_vars((\E d \in Ids : BackoffElapses(d)) /\ Track)

----------------------------------------------------------------------------
(* Properties.                                                              *)

\* Nobody is sent the same message twice, across retries, a restart in any step
\* and two passes over one row, unless the provider's answer was lost or the
\* record of its answer failed: each explains one repetition.  And the delivery
\* history does not lie: without such an excuse a settled row says the provider
\* took the message exactly when it did.
SentOnce ==
  \A d \in Ids :
    /\ accepted[d] <= 1 + excuses[d]
    /\ d \in DOMAIN rows /\ rows[d].status \in Settled /\ excuses[d] = 0
         => (rows[d].status = "provider_accepted" <=> accepted[d] > 0)

\* A message goes to a person who was active, at a destination of theirs that was
\* verified, at some moment since this delivery was taken up: deactivating,
\* disconnecting or re-pointing between the queue and the attempt stops it.
SentWithConsent ==
  worker.pc \in {"photo", "send"} =>
    since.active # {} /\ worker.addr \in since.dest

\* A row in `sending' that nobody works on any more.
Stranded(d) ==
  rows[d].status = "sending" /\ (Going => Cur # d)

\* No row is worked on for ever, nor forgotten: once no more events come, every
\* delivery is taken, cancelled or exhausted, however small the batch.  Only a
\* restart or a failed record in the middle of a send strands one (README).
EverySettles ==
  <>[](\A d \in DOMAIN rows : rows[d].status \in Settled \/ (upset /\ Stranded(d)))

\* End to end: an engine that was seen up goes down for good.  A person who is
\* active, wants the event and has verified connections throughout is told, in the
\* inbox and on every channel, even if fewer sends than MaxAttempts are refused.
OutageReachesUser ==
  \A u \in Users :
    LET wanted == prefs[u]["offline"] \cap Channels
    IN /\ [](/\ account[u] /\ enabled /\ ~upset /\ faults < MaxAttempts
             /\ wanted # {} /\ \A c \in wanted : chan[u][c].verified)
       /\ <>(seen = "up") /\ <>[](~up)
       => <>(\E e \in DOMAIN log :
               /\ log[e] = "offline" /\ <<e, u>> \in notes
               /\ \A c \in wanted : accepted[<<e, u, c>>] > 0)

\* `Carrying the old verification over would let a typo inherit a working
\* address's trust': a verified address has itself been sent a test.
VerifiedIsProven ==
  \A u \in Users, c \in Channels :
    chan[u][c].verified => <<u, chan[u][c].addr>> \in proven

\* `A user can deactivate, disconnect a channel or turn the event off in between,
\* and sending anyway would deliver something they have since declined.'
NothingDeclined ==
  worker.pc \in {"photo", "send"} => since.wants # {}
=============================================================================
