---------------------------- MODULE TorrentParking ----------------------------
(***************************************************************************)
(* Parking of dead torrents (torrents/torrent-parking.service.ts).         *)
(*                                                                         *)
(* A torrent that holds a download slot and gets nothing is paused and     *)
(* recorded; recorded torrents are force-started from time to time to see  *)
(* whether their swarm came back.  A pass of the sweep works on a listing  *)
(* taken at its start and yields at every engine and database call; the    *)
(* operator works on the same engine meanwhile, runNow starts a pass the   *)
(* `running' flag does not know of, and unpark releases by hand.           *)
(*                                                                         *)
(* Left out: the grace period (every torrent is past it), tracker-reported *)
(* seeder counts, which only decide between the two reasons to park, rule  *)
(* settings (parking is enabled), audit and broadcasts.  Two consecutive   *)
(* engine calls about one torrent are one step.                            *)
(***************************************************************************)
EXTENDS Integers, FiniteSets, FiniteSetsExt, Functions

CONSTANTS
  Torrents,       \* hashes
  Slots,          \* the engine's max_active_downloads
  BatchSize,      \* probeBatchSize
  Interval,       \* probeIntervalMinutes, in ticks of the sweep
  MaxInterval,    \* maxProbeIntervalMinutes, in ticks
  MaxOverdue,     \* bound: how long ago a probe fell due, in ticks
  MaxCount,       \* bound: failed probes that are told apart
  MaxEvents       \* bound: swarm changes, operator and manual calls, failures, restarts

ASSUME SlotAssumption == {Slots, BatchSize, Interval, MaxInterval, MaxCount} \subseteq Nat \ {0}
ASSUME IntervalAssumption == Interval <= MaxInterval
ASSUME BoundAssumption ==
  {MaxOverdue, MaxEvents} \subseteq Nat
\* Arithmetic the back-off rests on, for the counts that are told apart.
ASSUME PowerAssumption == \A n \in 0..MaxCount : 2 ^ n \in Nat

VARIABLES
  engine,   \* the torrents it holds: hash -> [st, forced, done, by]
  swarm,    \* hashes with a seed that delivers when asked
  parked,   \* database: ParkedTorrent rows, hash -> [probing, count, due]
  call,     \* the activations "tick", "runNow" and "unpark"
  disturbed,\* history: a call failed, the process restarted, or runNow or unpark ran
  events    \* history: how much has happened

vars == <<engine, swarm, parked, call, disturbed, events>>
hist == <<disturbed, events>>

Calls == {"tick", "runNow", "unpark"}

\* `by' remembers who paused a torrent, which the engine does not know.
Torrent == [st : {"paused", "queued", "active"}, forced : BOOLEAN, done : BOOLEAN,
            by : {"nobody", "operator", "parking"}]

\* due: ticks until the next probe (nextProbeAt), negative when overdue.
Row == [probing : BOOLEAN, count : 0..MaxCount, due : (-MaxOverdue)..MaxInterval]

Tables(S) == UNION {[H -> S] : H \in SUBSET Torrents}

\* What a listing says of a torrent, as far as the sweep looks.
Verdicts == {"gone", "alive", "dead", "other"}

Phases == {"idle", "listed", "judge", "judgeForget", "judgeUpdate", "park",
           "parkCreate", "probe", "probeUpdate", "forget"}

Idle == [pc |-> "idle", list |-> [h \in Torrents |-> "gone"], todo |-> {}, cur |-> {}]

TypeOK ==
  /\ engine \in Tables(Torrent)
  /\ \A h \in DOMAIN engine : engine[h].st = "paused" <=> engine[h].by # "nobody"
  /\ swarm \subseteq Torrents
  /\ parked \in Tables(Row)
  /\ call \in [Calls -> [pc : Phases, list : [Torrents -> Verdicts],
                         todo : SUBSET Torrents, cur : SUBSET Torrents]]
  /\ disturbed \in BOOLEAN /\ events \in 0..MaxEvents

Held(h) == h \in DOMAIN engine

\* The torrents that count against the engine's limit.
Active == {h \in DOMAIN engine : engine[h].st = "active" /\ ~engine[h].forced
                                 /\ ~engine[h].done}

Queued  == [st |-> "queued", forced |-> FALSE, done |-> FALSE, by |-> "nobody"]
Stopped == [st |-> "paused", forced |-> FALSE, done |-> FALSE, by |-> "operator"]

Init ==
  /\ engine \in [Torrents -> {Queued, Stopped}]
  /\ swarm \in SUBSET Torrents
  /\ parked = <<>>
  /\ call = [c \in Calls |-> Idle]
  /\ disturbed = FALSE /\ events = 0

----------------------------------------------------------------------------
(* The engine and the operator.                                             *)

\* Something the sweep does not expect; some of it (d) disturbs its bookkeeping.
Event(d) ==
  /\ events < MaxEvents /\ events' = events + 1
  /\ disturbed' = (disturbed \/ d)

\* The engine runs a queued torrent when a slot is free.
Promote(h) ==
  /\ Held(h) /\ engine[h].st = "queued"
  /\ engine[h].done \/ Cardinality(Active) < Slots
  /\ engine' = [engine EXCEPT ![h].st = "active"]
  /\ UNCHANGED <<swarm, parked, call, hist>>

\* An active torrent with a swarm finishes.
Finish(h) ==
  /\ Held(h) /\ engine[h].st = "active" /\ h \in swarm /\ ~engine[h].done
  /\ engine' = [engine EXCEPT ![h].done = TRUE]
  /\ UNCHANGED <<swarm, parked, call, hist>>

\* Seeds come and go.
SwarmChanges(h) ==
  /\ Event(FALSE)
  /\ swarm' = IF h \in swarm THEN swarm \ {h} ELSE swarm \cup {h}
  /\ UNCHANGED <<engine, parked, call>>

\* What the engine does on pauseTorrent, resumeTorrent, forceStart(true) and
\* forceStart(false); calls about a torrent it does not hold do nothing.
Pause(h, who) ==
  IF Held(h) THEN [engine EXCEPT ![h].st = "paused", ![h].forced = FALSE,
                     ![h].by = IF @ = "nobody" THEN who ELSE @]
  ELSE engine

Resume(h) ==
  IF Held(h) THEN [engine EXCEPT ![h].st = IF @ = "active" /\ Cardinality(Active \ {h}) < Slots
                                             THEN "active" ELSE "queued",
                     ![h].forced = FALSE, ![h].by = "nobody"]
  ELSE engine

ForceStart(h) ==
  IF Held(h) THEN [engine EXCEPT ![h].st = "active", ![h].forced = TRUE,
                     ![h].by = "nobody"]
  ELSE engine

OperatorActs(h) ==
  /\ Event(FALSE)
  /\ Held(h)
  /\ \/ engine[h].st # "paused" /\ engine' = Pause(h, "operator")
     \/ engine[h].st = "paused" /\ engine' = Resume(h)
     \/ engine' = Restrict(engine, DOMAIN engine \ {h})
  /\ UNCHANGED <<swarm, parked, call>>

----------------------------------------------------------------------------
(* The sweep.  `c' is the pass, the scheduled one or runNow's.              *)

At(c, p)   == call[c].pc = p
Forget(h)  == parked' = Restrict(parked, DOMAIN parked \ {h})

\* A unique row: what is there stays.
Inserted(table, h, row) ==
  [x \in DOMAIN table \cup {h} |-> IF x \in DOMAIN table THEN table[x] ELSE row]

\* The pass goes on at p, and h is done with.
Done(c, p, h) == call' = [call EXCEPT ![c].pc = p, ![c].todo = @ \ {h}, ![c].cur = {}]

\* The engine was told about h; what is to be recorded is still to be written.
Told(c, p, h) == call' = [call EXCEPT ![c].pc = p, ![c].cur = {h}]

\* Mutant: only queued torrents are judged.
VerdictOfQueued(h) ==
  CASE ~Held(h) -> "gone"
    [] Held(h) /\ (engine[h].done \/ (engine[h].st = "active" /\ h \in swarm)) -> "alive"
    [] Held(h) /\ ~engine[h].done /\ engine[h].st = "queued" /\ h \notin swarm -> "dead"
    [] OTHER -> "other"

\* deadReason and the `alive' of judgeProbes, on the torrent as it is listed.
Verdict(h) ==
  CASE ~Held(h) -> "gone"
    [] Held(h) /\ (engine[h].done \/ (engine[h].st = "active" /\ h \in swarm)) -> "alive"
    [] Held(h) /\ ~engine[h].done /\ engine[h].st = "active" /\ h \notin swarm -> "dead"
    [] OTHER -> "other"

List(c) ==
  /\ At(c, "idle")
  /\ call' = [call EXCEPT ![c].pc = "listed", ![c].list = [h \in Torrents |-> Verdict(h)]]

\* A scheduled pass; `running' keeps them from overlapping.  A tick has gone by.
Tick ==
  /\ List("tick")
  /\ parked' = [h \in DOMAIN parked |->
                  [parked[h] EXCEPT !.due = IF @ > -MaxOverdue THEN @ - 1 ELSE @]]
  /\ UNCHANGED <<engine, swarm, hist>>

RunNow ==
  /\ Event(TRUE)
  /\ List("runNow")
  /\ UNCHANGED <<engine, swarm, parked>>

\* judgeProbes: the rows whose probe is in flight.
ReadProbing(c) ==
  /\ At(c, "listed")
  /\ call' = [call EXCEPT ![c].pc = "judge",
                          ![c].todo = {h \in DOMAIN parked : parked[h].probing}]
  /\ UNCHANGED <<engine, swarm, parked, hist>>

JudgeGone(c, h) ==
  /\ At(c, "judge") /\ h \in call[c].todo /\ call[c].list[h] = "gone"
  /\ Forget(h) /\ Done(c, "judge", h)
  /\ UNCHANGED <<engine, swarm, hist>>

Revive(c, h) ==
  /\ At(c, "judge") /\ h \in call[c].todo /\ call[c].list[h] = "alive"
  /\ engine' = Resume(h)
  /\ Told(c, "judgeForget", h)
  /\ UNCHANGED <<swarm, parked, hist>>

JudgeForget(c, h) ==
  /\ At(c, "judgeForget") /\ h \in call[c].cur
  /\ Forget(h) /\ Done(c, "judge", h)
  /\ UNCHANGED <<engine, swarm, hist>>

StillDead(c, h) ==
  /\ At(c, "judge") /\ h \in call[c].todo /\ call[c].list[h] \in {"dead", "other"}
  /\ engine' = Pause(h, "parking")
  /\ Told(c, "judgeUpdate", h)
  /\ UNCHANGED <<swarm, parked, hist>>

\* Mutant: the back-off has no ceiling.
BackoffUncapped(count) == Interval * 2 ^ (count - 1)

Backoff(count) ==
  Min({Interval * 2 ^ (count - 1), MaxInterval})

\* Mutant: a torrent that stays dead is given up.
JudgeGivesUp(c, h) ==
  /\ At(c, "judgeUpdate") /\ h \in call[c].cur
  /\ Forget(h) /\ Done(c, "judge", h)
  /\ UNCHANGED <<engine, swarm, hist>>

\* The update of a row that is gone throws, and is caught.
JudgeUpdate(c, h) ==
  /\ At(c, "judgeUpdate") /\ h \in call[c].cur
  /\ parked' = IF h \in DOMAIN parked
                 THEN LET n == Min({parked[h].count + 1, MaxCount})
                      IN [parked EXCEPT ![h] =
                            [probing |-> FALSE, count |-> n, due |-> Backoff(n)]]
                 ELSE parked
  /\ Done(c, "judge", h)
  /\ UNCHANGED <<engine, swarm, hist>>

\* parkDead: the dead of the listing without a row, which excludes probes.
ReadParked(c) ==
  /\ At(c, "judge") /\ call[c].todo = {}
  /\ call' = [call EXCEPT ![c].pc = "park",
                ![c].todo = {h \in Torrents : call[c].list[h] = "dead"} \ DOMAIN parked]
  /\ UNCHANGED <<engine, swarm, parked, hist>>

ParkDead(c, h) ==
  /\ At(c, "park") /\ h \in call[c].todo
  /\ engine' = Pause(h, "parking")
  /\ Told(c, "parkCreate", h)
  /\ UNCHANGED <<swarm, parked, hist>>

\* The insert; one that meets an existing row throws, and is caught.
ParkCreate(c, h) ==
  /\ At(c, "parkCreate") /\ h \in call[c].cur
  /\ parked' = Inserted(parked, h, [probing |-> FALSE, count |-> 0, due |-> -MaxOverdue])
  /\ Done(c, "park", h)
  /\ UNCHANGED <<engine, swarm, hist>>

\* Mutant: only torrents never probed before are due.
DueOnce == {h \in DOMAIN parked : ~parked[h].probing /\ parked[h].count = 0}

\* isProbeDue; a torrent never probed is due at once.
Due == {h \in DOMAIN parked : ~parked[h].probing
                              /\ (parked[h].count = 0 \/ parked[h].due <= 0)}

\* nextProbeAt: never probed comes first.
Rank(h) == IF parked[h].count = 0 THEN -MaxOverdue - 1 ELSE parked[h].due

\* startProbes: the batch that fell due first.
ReadDue(c) ==
  /\ At(c, "park") /\ call[c].todo = {}
  /\ \E batch \in SUBSET Due :
       /\ Cardinality(batch) = Min({BatchSize, Cardinality(Due)})
       /\ \A h \in batch, g \in Due \ batch : Rank(h) <= Rank(g)
       /\ call' = [call EXCEPT ![c].pc = "probe", ![c].todo = batch]
  /\ UNCHANGED <<engine, swarm, parked, hist>>

ProbeGone(c, h) ==
  /\ At(c, "probe") /\ h \in call[c].todo /\ call[c].list[h] = "gone"
  /\ Forget(h) /\ Done(c, "probe", h)
  /\ UNCHANGED <<engine, swarm, hist>>

StartProbe(c, h) ==
  /\ At(c, "probe") /\ h \in call[c].todo /\ call[c].list[h] # "gone"
  /\ engine' = ForceStart(h)
  /\ Told(c, "probeUpdate", h)
  /\ UNCHANGED <<swarm, parked, hist>>

ProbeUpdate(c, h) ==
  /\ At(c, "probeUpdate") /\ h \in call[c].cur
  /\ parked' = IF h \in DOMAIN parked THEN [parked EXCEPT ![h].probing = TRUE] ELSE parked
  /\ Done(c, "probe", h)
  /\ UNCHANGED <<engine, swarm, hist>>

EndPass(c) ==
  /\ At(c, "probe") /\ call[c].todo = {}
  /\ call' = [call EXCEPT ![c] = Idle]
  /\ UNCHANGED <<engine, swarm, parked, hist>>

\* A failing engine or database call about h is caught; the loop goes on.
CallFails(c, h) ==
  /\ Event(TRUE)
  /\ \/ /\ h \in call[c].todo \ call[c].cur /\ call[c].pc \in {"judge", "park", "probe"}
        /\ Done(c, call[c].pc, h)
     \/ /\ h \in call[c].cur
        /\ \/ At(c, "judgeUpdate") /\ Done(c, "judge", h)
           \/ At(c, "judgeForget") /\ Done(c, "judge", h)
           \/ At(c, "parkCreate")  /\ Done(c, "park", h)
           \/ At(c, "probeUpdate") /\ Done(c, "probe", h)
  /\ UNCHANGED <<engine, swarm, parked>>

----------------------------------------------------------------------------
(* Release by hand, and the process.                                        *)

Unpark(h) ==
  /\ Event(TRUE)
  /\ At("unpark", "idle") /\ h \in DOMAIN parked
  /\ engine' = Resume(h)
  /\ Told("unpark", "forget", h)
  /\ UNCHANGED <<swarm, parked>>

UnparkForget(h) ==
  /\ At("unpark", "forget") /\ h \in call["unpark"].cur
  /\ Forget(h)
  /\ call' = [call EXCEPT !["unpark"] = Idle]
  /\ UNCHANGED <<engine, swarm, hist>>

Restart ==
  /\ Event(TRUE)
  /\ call' = [c \in Calls |-> Idle]
  /\ UNCHANGED <<engine, swarm, parked>>

PassStep(c) ==
  \/ ReadProbing(c) \/ ReadParked(c) \/ ReadDue(c) \/ EndPass(c)
  \/ \E h \in Torrents :
       \/ JudgeGone(c, h) \/ Revive(c, h) \/ JudgeForget(c, h) \/ StillDead(c, h)
       \/ JudgeUpdate(c, h) \/ ParkDead(c, h) \/ ParkCreate(c, h)
       \/ ProbeGone(c, h) \/ StartProbe(c, h) \/ ProbeUpdate(c, h) \/ CallFails(c, h)

Sweep == Tick \/ RunNow \/ (\E c \in {"tick", "runNow"} : PassStep(c))

Next ==
  \/ Sweep
  \/ \E h \in Torrents : \/ Promote(h) \/ Finish(h) \/ SwarmChanges(h)
                         \/ OperatorActs(h) \/ Unpark(h) \/ UnparkForget(h)
  \/ Restart

Spec == Init /\ [][Next]_vars

\* The timer fires and calls return; the engine uses its slots, and a torrent
\* that runs with a swarm finishes.
FairSpec ==
  /\ Spec
  /\ WF_vars(Tick \/ PassStep("tick")) /\ WF_vars(PassStep("runNow"))
  /\ \A h \in Torrents : /\ WF_vars(Promote(h)) /\ WF_vars(Finish(h))
                         /\ WF_vars(UnparkForget(h))

----------------------------------------------------------------------------
(* Properties.                                                              *)

\* A torrent parking has paused is one it remembers: it has a row, or a pass is
\* about to write one.  Otherwise nothing ever resumes it, and it cannot be told
\* from one the operator paused.  A failing call, a restart, and runNow or unpark
\* in the middle of a pass are excepted: each can leave one behind (README).
PausedIsRemembered ==
  \A h \in DOMAIN engine :
    engine[h].st = "paused" /\ engine[h].by = "parking"
      => \/ h \in DOMAIN parked
         \/ \E c \in Calls : h \in call[c].cur
         \/ disturbed

\* The purpose of the sweep: a torrent whose swarm is and stays alive finishes,
\* whether it queues behind dead torrents that hold every slot or was parked
\* while it was dead itself, unless it stays paused without being parked.
HealthyFinishes ==
  \A h \in Torrents :
    <>[](Held(h) /\ h \in swarm /\ (engine[h].st = "paused" => h \in DOMAIN parked))
      => <>(Held(h) /\ engine[h].done)

\* `Parking would be a one-way trip': a torrent that stays parked is probed again
\* and again, whatever else is parked and however small the batch, and one that
\* finished does not stay parked: the exit agrees with the entry.
NoOneWayTrip ==
  \A h \in Torrents :
    /\ <>[](h \in DOMAIN parked) => []<>(h \in DOMAIN parked /\ parked[h].probing)
    /\ <>[](Held(h) /\ engine[h].done) => []<>(h \notin DOMAIN parked)
=============================================================================
