--------------------------- MODULE StreamEnforcement ---------------------------
(***************************************************************************)
(* Concurrent stream limits of one person                                  *)
(* (media-server-analytics/stream-control/stream-enforcement.service.ts),  *)
(* composed with the session poller that feeds them                        *)
(* (media-server-analytics/media-server-session.service.ts) and the lock   *)
(* that is to keep the replicas apart (module DistributedLock).            *)
(*                                                                         *)
(* The poller mirrors what the media server plays into rows, which outlive *)
(* their stream by GRACE_POLLS polls; the enforcer counts rows, waits out  *)
(* a grace period and stops the newest excess viewings.  Time passes in    *)
(* poll cycles (POLL_CYCLE_MS): the grace period, MIN_GRACE_MS, is one     *)
(* cycle with its polls done, the lease one cycle, STALE_MS Stale cycles.  *)
(*                                                                         *)
(* Left out: several people and servers, policies and their resolution     *)
(* (one limit, action terminate_newest, scope all servers, paused streams  *)
(* not counted), servers that are offline or cannot terminate, and what    *)
(* the poller tells the history and the notifications.  A poll is one      *)
(* step, and pollers of several replicas do not overlap.                   *)
(***************************************************************************)
EXTENDS DistributedLock, Sequences, SequencesExt

CONSTANTS
  Sessions,       \* provider sessions <<device, id>>; a device plays one at a time
  Titles,         \* what can be played
  FirstSession, FirstTitle,  \* what the person watches when enforcement is switched on
  Limit,          \* streams the person may run
  GracePolls,     \* GRACE_POLLS
  Stale,          \* STALE_MS in poll cycles
  MaxActs,        \* bound: what the person does
  MaxFaults       \* bound: failing calls, unanswered polls and restarts

ASSUME LimitAssumption == {Limit, GracePolls, Stale} \subseteq Nat \ {0}
ASSUME ReplicaAssumption == IsFiniteSet(Replicas) /\ Replicas # {}
ASSUME FirstAssumption == FirstSession \in Sessions /\ FirstTitle \in Titles
ASSUME StreamBounds == {MaxActs, MaxFaults} \subseteq Nat

VARIABLES
  live,       \* media server: session -> [title, paused]
  rows,       \* database: MediaServerSession rows by startedAt
  due,        \* polls of this cycle that have not run, one per replica
  pending,    \* cycles since each replica armed its grace period, or Unarmed
  pc,         \* where each replica's enforcement pass is
  victims,    \* sessions each replica's pass has yet to stop
  acts, faults

streamVars == <<live, rows, due, pending, pc, victims, acts, faults>>
vars == <<lockVars, streamVars>>

Unarmed == -1
Memory == GracePolls + MaxFaults

\* age: cycles since updatedAt; gone (history): cycles since the stream last played.
Row == [id : Sessions, title : Titles, paused : BOOLEAN, missed : 0..(GracePolls - 1),
        age : 0..(Stale + 1), gone : 0..(Memory + 1)]

TypeOK ==
  /\ LockTypeOK
  /\ DOMAIN live \subseteq Sessions
  /\ live \in [DOMAIN live -> [title : Titles, paused : BOOLEAN]]
  /\ rows \in Seq(Row)
  /\ \A i, j \in DOMAIN rows : rows[i].id = rows[j].id => i = j
  /\ due \in 0..Cardinality(Replicas)
  /\ pending \in [Replicas -> Unarmed..2]
  /\ pc \in [Replicas -> {"idle", "fresh", "kill"}]
  /\ victims \in [Replicas -> SUBSET Sessions]
  /\ acts \in 0..MaxActs /\ faults \in 0..MaxFaults

\* What a poll writes about a session the media server reports.
Seen(s) == [id |-> s, title |-> live[s].title, paused |-> live[s].paused, missed |-> 0, age |-> 0, gone |-> 0]

Init ==
  /\ LockInit
  /\ live = [s \in {FirstSession} |-> [title |-> FirstTitle, paused |-> FALSE]]
  /\ rows = <<Seen(FirstSession)>>
  /\ due = 0
  /\ pending = [r \in Replicas |-> Unarmed]
  /\ pc = [r \in Replicas |-> "idle"]
  /\ victims = [r \in Replicas |-> {}]
  /\ acts = 0 /\ faults = 0

Fault == faults < MaxFaults /\ faults' = faults + 1

-----------------------------------------------------------------------------
(* The person at the media server.                                         *)

PlayingIn(l) == {l[s].title : s \in {x \in DOMAIN l : ~l[x].paused}}

Plays(row) == row.id \in DOMAIN live /\ live[row.id] = [title |-> row.title, paused |-> FALSE]

PersonActs(l) ==
  /\ acts' = acts + 1
  /\ live' = l
  /\ UNCHANGED <<lockVars, rows, due, pending, pc, victims, faults>>

\* A client opens a session, or registers again under another id.
Start(s, t) ==
  /\ \A x \in DOMAIN live : x[1] # s[1]
  /\ PersonActs([x \in DOMAIN live \cup {s} |->
                 IF x = s THEN [title |-> t, paused |-> FALSE] ELSE live[x]])

Stop(s) ==
  /\ s \in DOMAIN live
  /\ PersonActs([x \in DOMAIN live \ {s} |-> live[x]])

Pause(s) ==
  /\ s \in DOMAIN live
  /\ PersonActs([live EXCEPT ![s].paused = ~@])

\* The next episode plays under the same session id.
Autoplay(s, t) ==
  /\ s \in DOMAIN live /\ live[s].title # t
  /\ PersonActs([live EXCEPT ![s].title = t])

-----------------------------------------------------------------------------
(* The poller.                                                             *)

RowOf(s) == {i \in DOMAIN rows : rows[i].id = s}

\* Same title on the same device, and the row's own id has disappeared.
Adoptable(s) ==
  {i \in DOMAIN rows : /\ rows[i].id \notin DOMAIN live /\ rows[i].id[1] = s[1]
                       /\ rows[i].title = live[s].title}

\* The row a live session is written to; None when it needs a new one.
None == 0
ClaimOf(s) ==
  CASE RowOf(s) # {} -> Min(RowOf(s))
    [] RowOf(s) = {} /\ Adoptable(s) # {} -> Min(Adoptable(s))
    [] OTHER -> None

\* A new viewing gets a new startedAt, in a row of its own or in the claimed one.
NewViewing(s, i) == i = None \/ rows[i].title # live[s].title

\* Mutants: a miss is written down but not counted; one poll of grace too many.
MissedUncounted(row) == <<[row EXCEPT !.age = 0]>>
MissedLonger(row) == IF row.missed < GracePolls THEN <<[row EXCEPT !.missed = @ + 1, !.age = 0]>> ELSE <<>>

\* A row that no reported session claims: one more missed poll, and GRACE_POLLS of
\* them end it.
Missed(row) == IF row.missed + 1 < GracePolls THEN <<[row EXCEPT !.missed = @ + 1, !.age = 0]>> ELSE <<>>

\* The rows after a poll that saw the sessions of live, those of the claimed rows
\* refreshed at their place and the new viewings behind them in the server's order.
Reconciled(claim, order) ==
  LET at(i) == {s \in DOMAIN live : claim[s] = i}
      kept(i) == IF at(i) = {} THEN Missed(rows[i])
                 ELSE LET s == CHOOSE x \in at(i) : TRUE
                      IN  IF NewViewing(s, i) THEN <<>> ELSE <<Seen(s)>>
  IN  FlattenSeq([i \in DOMAIN rows |-> kept(i)]) \o [k \in DOMAIN order |-> Seen(order[k])]

Poll ==
  /\ due > 0 /\ due' = due - 1
  /\ LET claim == [s \in DOMAIN live |-> ClaimOf(s)]
     IN  \E order \in SetToSeqs({s \in DOMAIN live : NewViewing(s, claim[s])}) :
           rows' = Reconciled(claim, order)
  /\ UNCHANGED <<lockVars, live, pending, pc, victims, acts, faults>>

\* The media server does not answer in this cycle: nothing is written.
PollFails ==
  /\ due > 0 /\ due' = 0 /\ Fault
  /\ UNCHANGED <<lockVars, live, rows, pending, pc, victims, acts>>

\* A poll cycle passes.
Tick ==
  /\ due = 0 /\ ~lease.old
  /\ due' = Cardinality(Replicas)
  /\ LeaseAges
  /\ rows' = [i \in DOMAIN rows |->
                [rows[i] EXCEPT !.age = Min({@ + 1, Stale + 1}),
                                !.gone = IF Plays(rows[i]) THEN 0 ELSE Min({@ + 1, Memory + 1})]]
  /\ pending' = [r \in Replicas |-> IF pending[r] = Unarmed THEN Unarmed ELSE Min({pending[r] + 1, 2})]
  /\ UNCHANGED <<live, pc, victims, acts, faults>>

-----------------------------------------------------------------------------
(* The enforcement pass of a replica.                                      *)

Countable == {i \in DOMAIN rows : rows[i].age <= Stale /\ ~rows[i].paused}

\* A handoff, the same title on several devices, is one unit.
Units == {rows[i].title : i \in Countable}
StartOf(t) == Min({i \in Countable : rows[i].title = t})
Over == Cardinality(Units) > Limit

\* The units with Limit older ones, and every session behind them.
SelectVictims ==
  LET older(t) == {u \in Units : StartOf(u) < StartOf(t)}
  IN  {rows[i].id : i \in {j \in Countable : Cardinality(older(rows[j].title)) >= Limit}}

\* MIN_GRACE_MS is longer than a cycle and leaves its polls the time to finish.
GraceElapsed(r) == pending[r] = 2 \/ (pending[r] = 1 /\ due = 0)

Unmoved == UNCHANGED <<rows, due, acts>>

Comply(r) ==
  /\ pc[r] = "idle" /\ pending[r] # Unarmed /\ ~Over
  /\ pending' = [pending EXCEPT ![r] = Unarmed]
  /\ Unmoved /\ UNCHANGED <<lockVars, live, pc, victims, faults>>

\* A pass that restarts the grace period it finds running (a mutant).
ArmAgain(r) ==
  /\ pc[r] = "idle" /\ pending[r] # 0 /\ Over
  /\ pending' = [pending EXCEPT ![r] = 0]
  /\ Unmoved /\ UNCHANGED <<lockVars, live, pc, victims, faults>>

Arm(r) ==
  /\ pc[r] = "idle" /\ pending[r] = Unarmed /\ Over
  /\ pending' = [pending EXCEPT ![r] = 0]
  /\ Unmoved /\ UNCHANGED <<lockVars, live, pc, victims, faults>>

\* The grace period is over: withLock.  A pass that finds the lease taken changes
\* nothing and comes again.
Enter(r) ==
  /\ pc[r] = "idle" /\ GraceElapsed(r) /\ Over
  /\ TakeLease(r) \/ TakeLocal(r)
  /\ pc' = [pc EXCEPT ![r] = "fresh"]
  /\ Unmoved /\ UNCHANGED <<live, pending, victims, faults>>

\* Under the lock the rows are read again; nobody is a victim of a person back
\* within the limit.
Decide(r) ==
  /\ pc[r] = "fresh"
  /\ victims' = [victims EXCEPT ![r] = SelectVictims]
  /\ pc' = [pc EXCEPT ![r] = "kill"]
  /\ Unmoved /\ UNCHANGED <<lockVars, live, pending, faults>>

\* A victim is stopped, if the media server still plays it and obeys, and the
\* outcome is recorded.
Terminate(r, s) ==
  /\ pc[r] = "kill" /\ s \in victims[r]
  /\ \/ live' = [x \in DOMAIN live \ {s} |-> live[x]] /\ UNCHANGED faults
     \/ s \in DOMAIN live /\ UNCHANGED live /\ Fault
  /\ victims' = [victims EXCEPT ![r] = @ \ {s}]
  /\ Unmoved /\ UNCHANGED <<lockVars, pending, pc>>

Leave(r) ==
  /\ pc[r] = "kill" /\ victims[r] = {} /\ Release(r)
  /\ pending' = [pending EXCEPT ![r] = Unarmed]
  /\ pc' = [pc EXCEPT ![r] = "idle"]
  /\ Unmoved /\ UNCHANGED <<live, victims, faults>>

\* Reading the rows or recording an outcome throws: the body starts again under
\* the local guard or, there already, ends the pass with the grace period armed.
BodyFails(r) ==
  /\ Fault
  /\ \/ FailOver(r) /\ pc' = [pc EXCEPT ![r] = "fresh"]
     \/ Rethrow(r) /\ pc' = [pc EXCEPT ![r] = "idle"]
  /\ victims' = [victims EXCEPT ![r] = {}]
  /\ Unmoved /\ UNCHANGED <<live, pending>>

\* Happens once in the life of a process and needs no bound.
RedisFails(r) ==
  /\ DisableRedis(r)
  /\ Unmoved /\ UNCHANGED <<live, pending, pc, victims, faults>>

Crash(r) ==
  /\ Fault /\ LockCrash(r)
  /\ pending' = [pending EXCEPT ![r] = Unarmed]
  /\ pc' = [pc EXCEPT ![r] = "idle"]
  /\ victims' = [victims EXCEPT ![r] = {}]
  /\ Unmoved /\ UNCHANGED live

-----------------------------------------------------------------------------
Person ==
  acts < MaxActs /\ \E s \in Sessions : Stop(s) \/ Pause(s) \/ \E t \in Titles : Start(s, t) \/ Autoplay(s, t)

Pass(r) ==
  \/ Comply(r) \/ Arm(r) \/ Enter(r) \/ Decide(r) \/ Leave(r)
  \/ \E s \in Sessions : Terminate(r, s)

Expire == LeaseExpires /\ UNCHANGED streamVars

Next ==
  \/ Person \/ Tick \/ Poll \/ PollFails \/ Expire
  \/ \E r \in Replicas : Pass(r) \/ BodyFails(r) \/ RedisFails(r) \/ Crash(r)

Spec == Init /\ [][Next]_vars

\* Time does not stand still, which makes polls run and leases expire, and a
\* replica's pass goes on.
FairSpec ==
  /\ Spec /\ []<><<Tick>>_vars
  /\ \A r \in Replicas : WF_vars(Pass(r))

-----------------------------------------------------------------------------
PlayedWithin(cycles) == {rows[i].title : i \in {j \in Countable : rows[j].gone <= cycles}}

Condemns(r) == pc[r] = "fresh" /\ pc'[r] = "kill" /\ victims'[r] # {}

\* A replica decides to stop streams only when more than Limit of the person's
\* viewings were playing within the polls a row outlives its stream: one who
\* has kept to the limit that long, a handoff between devices, a re-registration
\* and a paused stream included, loses nothing (enforce, handleOverLimit and the
\* missed polls of the poller together).
StopsForACause ==
  [][\A r \in Replicas : Condemns(r) =>
       Cardinality(PlayedWithin(GracePolls + faults)) > Limit]_vars

\* However replicas crash, fail or overlap, a person does not stay over the limit
\* (scheduledEnforce, withLock: a lease left behind only delays the next pass).
ExcessStops == []<>(Cardinality(PlayingIn(live)) <= Limit)

\* One full poll cycle "is the floor that stops us terminating an actively-watched
\* stream because a just-paused/just-moved one had not been re-polled yet"
\* (60-72): what ended before the last full cycle is not held against the person.
OneCycleSettles ==
  [][\A r \in Replicas : Condemns(r) => Cardinality(PlayedWithin(1)) > Limit]_vars
=============================================================================
