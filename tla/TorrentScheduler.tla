--------------------------- MODULE TorrentScheduler ---------------------------
(***************************************************************************)
(* The torrent scheduler (modules/torrent-scheduler) on one engine: the    *)
(* sweep plans from the snapshots of the torrent sync and, in managed      *)
(* mode, carries the plan out call by call; its rows say which pauses are  *)
(* its own.  People, parking and the engine act on the same torrents       *)
(* meanwhile, overrides and modes change, calls fail, the process dies.    *)
(*                                                                         *)
(* A call of the engine or the database is a step; reads that previewEngine *)
(* starts together are one.  Left out: the files cleanUp deletes before it *)
(* removes a torrent, bandwidth, the decision history, health and events.  *)
(***************************************************************************)
EXTENDS SchedulerPlan, Functions

CONSTANTS
  Torrents,   \* hashes
  Rank,       \* by addedAt and then hash
  Full,       \* progress of a complete torrent
  Kinds,      \* the kinds of override in use
  Others,     \* what people, parking and the swarm do
  MaxEvents   \* bound: what they do, calls that fail and restarts, in all

ASSUME FiniteAssumption == IsFiniteSet(Torrents)
ASSUME RankAssumption == Rank \in [Torrents -> Nat] /\ \A g, h \in Torrents : Rank[g] = Rank[h] => g = h
ASSUME FullAssumption == Full \in Nat \ {0}
ASSUME KindAssumption ==
  Kinds \subseteq {"protect_from_pause", "protect_from_removal", "exclude", "force_start"}
ASSUME BoundAssumption == MaxEvents \in Nat

VARIABLES
  engine,     \* the engine: [state, prog] of each hash
  snap,       \* database: TorrentSnapshot, the engine as the sync last saw it
  note,       \* database: TorrentSchedulerState, "none" unless schedulerPausedAt is set
  parked,     \* database: ParkedTorrent
  overrides,  \* database: the override kinds in force for each hash
  mode,       \* database: the engine's scheduling mode
  facts,      \* what the seeding policy asks: [target, late, library] of each hash
  window,     \* a schedule window forbids new downloads
  sweep,      \* the running sweep: [pc, mode, snaps, todo, write]
  off,        \* a running deactivate: [pc, todo, resume]
  stopper,    \* history: who stopped a paused torrent
  explained,  \* history: hashes whose note may be wrong, by a fault or a race
  events      \* history: how much has happened

db    == <<snap, note, parked, overrides, mode>>
env   == <<facts, window, policy>>
vars  == <<engine, db, env, sweep, off, stopper, explained, events>>

States == {"running", "queued", "paused", "checking", "gone"}
Snapshot == [state : States, prog : 0..Full]
Verdict == {"unknown", "not_met", "met"}
Facts == [target : Verdict, late : BOOLEAN, library : 0..2]
Steps == Actions \X Torrents
NoSweep == [pc |-> "idle", mode |-> "native", snaps |-> <<>>, todo |-> <<>>, write |-> "none"]
NotOff == [pc |-> "idle", todo |-> {}, resume |-> FALSE]

TypeOK ==
  /\ engine \in [Torrents -> Snapshot] /\ snap \in [Torrents -> Snapshot]
  /\ note \in [Torrents -> {"none", "fresh", "old"}]
  /\ parked \subseteq Torrents
  /\ overrides \in [Torrents -> SUBSET Kinds]
  /\ mode \in {"native", "observe", "managed"}
  /\ facts \in [Torrents -> Facts] /\ policy \in Policies
  /\ window \in BOOLEAN
  /\ sweep.pc \in {"idle", "read", "plan", "apply", "forget", "verify", "remember"}
  /\ sweep.mode \in {"native", "observe", "managed"}
  /\ sweep.snaps = <<>> \/ sweep.snaps \in [Torrents -> Snapshot]
  /\ ToSet(sweep.todo) \subseteq Steps
  /\ sweep.todo = <<>> <=> sweep.pc \in {"idle", "read", "plan"}
  /\ sweep.write \in {"none", "fresh"}
  /\ off.pc \in {"idle", "mode", "resume", "delete"}
  /\ off.todo \subseteq Torrents /\ off.resume \in BOOLEAN
  /\ stopper \in [Torrents -> {"nobody", "scheduler", "other"}]
  /\ explained \subseteq Torrents
  /\ events \in 0..MaxEvents

Init ==
  /\ engine \in [Torrents -> [state : {"running"}, prog : 0..Full]]
  /\ snap = engine
  /\ note = [h \in Torrents |-> "none"]
  /\ parked = {}
  /\ overrides = [h \in Torrents |-> {}]
  /\ mode = "managed"
  /\ policy \in Policies
  /\ facts \in [Torrents -> [target : {"not_met", "met"}, late : {FALSE}, library : {0, 2}]]
  /\ \A h \in Torrents :
       /\ engine[h].prog < Full => facts[h].target = "not_met"
       /\ facts[h].target = "met" <=> facts[h].library = 2
  /\ window = FALSE
  /\ sweep = NoSweep /\ off = NotOff
  /\ stopper = [h \in Torrents |-> "nobody"]
  /\ explained = {}
  /\ events = 0

----------------------------------------------------------------------------
(* The engine, and who acts on it.                                          *)

SetState(h, s) == engine' = [engine EXCEPT ![h].state = s]
Exists(h) == engine[h].state # "gone"
Paused(h) == engine[h].state = "paused"

\* pauseTorrent and resumeTorrent on the engine.  Who pauses a paused torrent changes
\* nothing; a resumed one may be put in the engine's own queue.
EnginePause(h, who) ==
  /\ SetState(h, "paused")
  /\ stopper' = [stopper EXCEPT ![h] = IF Paused(h) THEN @ ELSE who]
EngineResume(h) ==
  /\ \E s \in {"running", "queued"} :
       SetState(h, IF engine[h].state \in {"paused", "queued"} THEN s ELSE engine[h].state)
  /\ stopper' = [stopper EXCEPT ![h] = "nobody"]

StoppedByUs(h) == Paused(h) /\ stopper[h] = "scheduler"

Happens == events < MaxEvents /\ events' = events + 1
Acts(a) == a \in Others /\ Happens

\* The engine's queue moves on, a check ends, data arrives.
EngineStart(h) ==
  /\ engine[h].state \in {"queued", "checking"}
  /\ SetState(h, "running")
  /\ UNCHANGED <<db, env, sweep, off, stopper, explained, events>>
Download(h) ==
  /\ engine[h].state = "running" /\ engine[h].prog < Full
  /\ Acts("download")
  /\ engine' = [engine EXCEPT ![h].prog = @ + 1]
  /\ UNCHANGED <<db, env, sweep, off, stopper, explained>>

\* The torrent sync copies the engine; minutes pass since a note was written.
Sync ==
  /\ snap' = engine
  /\ UNCHANGED <<engine, note, parked, overrides, mode, env, sweep, off, stopper, explained,
                 events>>
GrowOld(h) ==
  /\ note[h] = "fresh"
  /\ note' = [note EXCEPT ![h] = "old"]
  /\ UNCHANGED <<engine, snap, parked, overrides, mode, env, sweep, off, stopper, explained,
                 events>>

\* What the seeding policy asks of a complete torrent comes to be: a ratio, a
\* deadline, an import, a verified copy.
Seed(h) ==
  /\ engine[h].state # "gone" /\ engine[h].prog = Full
  /\ \/ /\ facts[h].target = "not_met"
        /\ \E v \in Verdict \ {"not_met"} : facts' = [facts EXCEPT ![h].target = v]
     \/ ~facts[h].late /\ facts' = [facts EXCEPT ![h].late = TRUE]
     \/ /\ facts[h].library < 2
        /\ \E l \in {1, 2} : facts' = [facts EXCEPT ![h].library = l]
  /\ Acts("seed")
  /\ UNCHANGED <<engine, db, window, policy, sweep, off, stopper, explained>>

\* A note that stands, or is about to be written, while somebody else acts on the
\* torrent is out of date.  Verification sees a torrent that runs again, and takes a
\* pause for its own.
Doing(action, h) == sweep.todo # <<>> /\ Head(sweep.todo) = <<action, h>>
Overtaken(h) ==
  Doing("pause", h) /\ (sweep.pc = "remember" \/ (sweep.pc = "verify" /\ Paused(h)'))
Outlived(h) ==
  explained' = explained \cup IF note[h] # "none" \/ Overtaken(h) THEN {h} ELSE {}

Person(h) ==
  /\ Exists(h)
  /\ \/ Acts("pause") /\ ~Paused(h) /\ EnginePause(h, "other")
     \/ Acts("resume") /\ Paused(h) /\ EngineResume(h)
     \/ Acts("recheck") /\ ~Paused(h) /\ SetState(h, "checking") /\ UNCHANGED stopper
     \/ Acts("delete") /\ SetState(h, "gone") /\ UNCHANGED stopper
  /\ Outlived(h)
  /\ UNCHANGED <<db, env, sweep, off>>

\* Parking takes a torrent out of the queue and gives it back (TorrentParking).
Parking(h) ==
  /\ \/ /\ Acts("park") /\ engine[h].state = "running" /\ h \notin parked
        /\ EnginePause(h, "other") /\ parked' = parked \cup {h}
     \/ /\ Acts("park") /\ h \in parked /\ Exists(h)
        /\ EngineResume(h) /\ parked' = parked \ {h}
  /\ Outlived(h)
  /\ UNCHANGED <<snap, note, overrides, mode, env, sweep, off>>

Window ==
  /\ Acts("window")
  /\ window' = ~window
  /\ UNCHANGED <<engine, db, facts, policy, sweep, off, stopper, explained>>

----------------------------------------------------------------------------
(* Instructions of the operator.                                            *)

\* set and clear; expiry is a clear by the clock.
SetOverride(h, k) ==
  /\ Acts("override") /\ k \notin overrides[h]
  /\ overrides' = [overrides EXCEPT ![h] = @ \cup {k}]
  /\ UNCHANGED <<engine, snap, note, parked, mode, env, sweep, off, stopper, explained>>
ClearOverride(h, k) ==
  /\ Acts("override") /\ k \in overrides[h]
  /\ overrides' = [overrides EXCEPT ![h] = @ \ {k}]
  /\ UNCHANGED <<engine, snap, note, parked, mode, env, sweep, off, stopper, explained>>

\* Policies are rows that every plan reads anew.
SetPolicy(p) ==
  /\ Acts("policy") /\ p # policy
  /\ policy' = p
  /\ UNCHANGED <<engine, db, facts, window, sweep, off, stopper, explained>>

\* setMode refuses managed, which activate sets.
SetMode(m) ==
  /\ Acts("mode")
  /\ m # mode /\ mode' = m
  /\ UNCHANGED <<engine, snap, note, parked, overrides, env, sweep, off, stopper, explained>>
Activate ==
  /\ Acts("mode")
  /\ mode # "managed" /\ mode' = "managed"
  /\ UNCHANGED <<engine, snap, note, parked, overrides, env, sweep, off, stopper, explained>>

\* deactivate: read what is held, write the mode, resume one after another if asked
\* to, and then drop every row of the engine.
Held == {h \in Torrents : note[h] # "none"}
Deactivate(resume) ==
  /\ Acts("mode") /\ off.pc = "idle"
  /\ off' = [pc |-> "mode", todo |-> Held, resume |-> resume /\ Held # {}]
  /\ UNCHANGED <<engine, db, env, sweep, stopper, explained>>
DeactivateMode ==
  /\ off.pc = "mode"
  /\ mode' = "native"
  /\ off' = IF off.resume THEN [off EXCEPT !.pc = "resume"] ELSE NotOff
  /\ UNCHANGED <<engine, snap, note, parked, overrides, env, sweep, stopper, explained, events>>

DeactivateResume(h) ==
  /\ off.pc = "resume" /\ h \in off.todo
  /\ off' = [off EXCEPT !.todo = @ \ {h}, !.pc = IF off.todo = {h} THEN "delete" ELSE @]
  /\ \/ Exists(h) /\ EngineResume(h) /\ UNCHANGED events
     \/ ~Exists(h) /\ UNCHANGED <<engine, stopper, events>>
     \/ Happens /\ UNCHANGED <<engine, stopper>>
  /\ explained' = explained \cup IF Overtaken(h) THEN {h} ELSE {}
  /\ UNCHANGED <<db, env, sweep>>
DeactivateDelete ==
  /\ off.pc = "delete"
  /\ note' = [h \in Torrents |-> "none"]
  /\ off' = NotOff
  /\ explained' = explained \cup {h \in Held : Paused(h)}
  /\ UNCHANGED <<engine, snap, parked, overrides, mode, env, sweep, stopper, events>>

----------------------------------------------------------------------------
(* The sweep.                                                               *)

\* tick and sweep: an engine left native costs nothing.  The mode is not looked at
\* again.  previewEngine reads the snapshots first, then everything else.
Tick ==
  /\ sweep.pc = "idle" /\ mode # "native"
  /\ sweep' = [sweep EXCEPT !.pc = "read", !.mode = mode]
  /\ UNCHANGED <<engine, db, env, off, stopper, explained, events>>
ReadSnapshots ==
  /\ sweep.pc = "read"
  /\ sweep' = [sweep EXCEPT !.pc = "plan", !.snaps = snap]
  /\ UNCHANGED <<engine, db, env, off, stopper, explained, events>>

\* The planner's torrents, from snapshots s and the other tables as they are now.
PlannerTorrent(s, h) ==
  LET has(k) == k \in overrides[h]
      done   == s[h].prog = Full
  IN [hash |-> h, done |-> done, score |-> s[h].prog, rank |-> Rank[h],
      occ |-> IF has("exclude") THEN "excluded"
              ELSE classify(s[h].state, done, h \in parked, note[h] # "none"),
      keep |-> has("protect_from_pause"), hold |-> has("protect_from_removal"),
      force |-> has("force_start"), recent |-> note[h] = "fresh", fresh |-> ~window,
      target |-> facts[h].target, late |-> facts[h].late, library |-> facts[h].library]
PlannerTorrents(s) == {PlannerTorrent(s, h) : h \in {g \in Torrents : s[g].state # "gone"}}

\* Mutant: the sweep does not end, and no other begins.
CarryOn(steps) == [NoSweep EXCEPT !.pc = "apply", !.todo = steps]

\* Carry out steps, or end the sweep when none are left.
Carry(steps) ==
  IF steps = <<>> THEN NoSweep ELSE [NoSweep EXCEPT !.pc = "apply", !.todo = steps]

\* The plan, and the one line that separates observing from enforcing.
Plan ==
  /\ sweep.pc = "plan"
  /\ UNCHANGED <<engine, db, env, off, stopper, explained, events>>
  /\ \E S \in {PlannerTorrents(sweep.snaps)} : \E plan \in {planEngine(S)} :
       sweep' = Carry(IF sweep.mode = "managed" THEN ApplyOrder(plan) ELSE <<>>)

Done == Carry(Tail(sweep.todo))
At(pc) == [sweep EXCEPT !.pc = pc]

\* cleanUp: a torrent that is gone, or a call that throws, before or after the engine
\* obeyed, is a failure; the rest of the plan still runs.
CleanUp(h) ==
  /\ sweep.pc = "apply" /\ Doing("remove", h)
  /\ \/ Exists(h) /\ SetState(h, "gone") /\ sweep' = At("forget") /\ UNCHANGED events
     \/ ~Exists(h) /\ sweep' = Done /\ UNCHANGED <<engine, events>>
     \/ Happens /\ sweep' = Done /\ (UNCHANGED engine \/ SetState(h, "gone"))
  /\ UNCHANGED <<db, env, off, stopper, explained>>
Forget(h) ==
  /\ sweep.pc = "forget" /\ Doing("remove", h)
  /\ \/ note' = [note EXCEPT ![h] = "none"] /\ UNCHANGED events
     \/ Happens /\ UNCHANGED note
  /\ sweep' = Done
  /\ UNCHANGED <<engine, snap, parked, overrides, mode, env, off, stopper, explained>>

\* one: the command, which may throw before or after the engine obeyed.
Command(h) ==
  /\ sweep.pc = "apply"
  /\ \/ Doing("pause", h) /\ Exists(h) /\ EnginePause(h, "scheduler")
     \/ Doing("resume", h) /\ Exists(h) /\ EngineResume(h)
  /\ \/ sweep' = At("verify") /\ UNCHANGED events
        /\ explained' = explained \cup IF Doing("pause", h) /\ Paused(h) THEN {h} ELSE {}
     \/ sweep' = Done /\ Happens /\ explained' = explained \cup {h}
  /\ UNCHANGED <<db, env, off>>
\* The command is accepted and nothing comes of it: of a hash the engine does not know,
\* or of one that it does.
CommandIgnored(h) ==
  /\ sweep.pc = "apply" /\ (Doing("pause", h) \/ Doing("resume", h))
  /\ Exists(h) => Happens
  /\ ~Exists(h) => UNCHANGED events
  /\ sweep' = At("verify")
  /\ explained' = explained \cup IF Doing("resume", h) \/ Paused(h) THEN {h} ELSE {}
  /\ UNCHANGED <<engine, db, env, off, stopper>>

CommandFails(h) ==
  /\ sweep.pc = "apply" /\ (Doing("pause", h) \/ Doing("resume", h))
  /\ Exists(h) => Happens
  /\ ~Exists(h) => UNCHANGED events
  /\ sweep' = Done
  /\ UNCHANGED <<engine, db, env, off, stopper, explained>>

\* Mutant: the command is trusted.
VerifyTrusts(h) ==
  /\ sweep.pc = "verify"
  /\ \/ Doing("pause", h) /\ sweep' = [At("remember") EXCEPT !.write = "fresh"]
     \/ Doing("resume", h) /\ sweep' = [At("remember") EXCEPT !.write = "none"]
  /\ UNCHANGED <<engine, db, env, off, stopper, explained, events>>

\* one: what the engine says after the command.  A resume that ends in the engine's
\* queue leaves the note; an error of getTorrent reads as a torrent that is gone.
Verify(h) ==
  /\ sweep.pc = "verify"
  /\ \/ /\ Doing("pause", h) /\ Exists(h)
        /\ sweep' = IF Paused(h) THEN [At("remember") EXCEPT !.write = "fresh"] ELSE Done
        /\ UNCHANGED <<explained, events>>
     \/ /\ Doing("resume", h) /\ Exists(h)
        /\ LET up == engine[h].state \in {"running", "checking"}
           IN /\ sweep' = IF up THEN At("remember") ELSE Done
              /\ explained' = explained \cup IF ~up /\ note[h] # "none" THEN {h} ELSE {}
        /\ UNCHANGED events
     \/ /\ Doing("pause", h) \/ Doing("resume", h)
        /\ sweep' = At("remember")
        /\ \/ ~Exists(h) /\ UNCHANGED <<explained, events>>
           \/ Exists(h) /\ Happens /\ explained' = explained \cup {h}
  /\ UNCHANGED <<engine, db, env, off, stopper>>

\* remember: an upsert whose failure is only logged.
Remember(h) ==
  /\ sweep.pc = "remember" /\ (Doing("pause", h) \/ Doing("resume", h))
  /\ \/ /\ note' = [note EXCEPT ![h] = sweep.write] /\ UNCHANGED events
        /\ explained' = IF sweep.write = "fresh" <=> StoppedByUs(h)
                          THEN explained \ {h} ELSE explained
     \/ Happens /\ explained' = explained \cup {h} /\ UNCHANGED note
  /\ sweep' = Done
  /\ UNCHANGED <<engine, snap, parked, overrides, mode, env, off, stopper>>

\* The process dies and starts again: calls in flight are lost, rows stay.
Restart ==
  /\ Happens /\ (sweep # NoSweep \/ off # NotOff)
  /\ sweep' = NoSweep /\ off' = NotOff
  /\ explained' = explained \cup
       (IF sweep.pc \in {"verify", "remember"} THEN {Head(sweep.todo)[2]} ELSE {}) \cup
       (IF off.pc \in {"resume", "delete"} THEN Held ELSE {})
  /\ UNCHANGED <<engine, db, env, stopper>>

----------------------------------------------------------------------------
SweepStep ==
  \/ ReadSnapshots \/ Plan
  \/ \E h \in Torrents :
       \/ CleanUp(h) \/ Forget(h) \/ Command(h) \/ CommandIgnored(h) \/ CommandFails(h)
       \/ Verify(h) \/ Remember(h)
DeactivateStep == DeactivateMode \/ DeactivateDelete \/ \E h \in Torrents : DeactivateResume(h)

Next ==
  \/ Tick \/ SweepStep \/ DeactivateStep \/ Restart \/ Sync \/ Window
  \/ \E h \in Torrents :
       \/ EngineStart(h) \/ Download(h) \/ GrowOld(h) \/ Seed(h) \/ Person(h) \/ Parking(h)
       \/ \E k \in Kinds : SetOverride(h, k) \/ ClearOverride(h, k)
  \/ \E p \in Policies : SetPolicy(p)
  \/ Activate \/ \E m \in {"native", "observe"} : SetMode(m)
  \/ \E resume \in BOOLEAN : Deactivate(resume)

Spec == Init /\ [][Next]_vars

\* WF_vars(Tick \/ SweepStep), with its ENABLED spelled out: evaluating it would make
\* the plan of every state anew.
SweepRests == sweep.pc = "idle" /\ mode = "native"
SweepGoesOn == []<>SweepRests \/ []<><<Tick \/ SweepStep>>_vars

\* The intervals keep ticking, calls return, minutes pass and the engine's own queue
\* moves on; nobody has to act and no torrent has to make progress.
FairSpec ==
  /\ Spec
  /\ SweepGoesOn /\ WF_vars(DeactivateStep) /\ WF_vars(Sync)
  /\ WF_vars(\E h \in Torrents : EngineStart(h) \/ GrowOld(h))

----------------------------------------------------------------------------
(* Properties.                                                              *)

\* planEngine, of the snapshots a sweep has read and of the rows, overrides and policy
\* as they are by now: nothing outside the scheduler's authority is touched and no
\* protection is broken; a torrent is removed only because its seeding policy asks for it;
\* a torrent runs on beyond its place in the order only by a veto, and waits only if
\* those before it, or the vetoed, fill a limit; slots change hands within the budget.
PlanIsSound ==
  sweep.pc = "plan" =>
    \E S \in {PlannerTorrents(sweep.snaps)} :
      \E plan \in {ToSet(planEngine(S))} : Sound(S, plan)

\* "Set only while the SCHEDULER is the reason this torrent is paused": outside a
\* call, a torrent has a note exactly when the scheduler stopped it, unless a fault
\* lost the note, deactivate drops it with the rest, the engine queued what was
\* resumed, or somebody acted on the torrent while the note stood or between two reads
\* of the sweep.  A wrong note overrules a person; a missing one leaves the torrent
\* stopped for ever.
InFlight(h) ==
  \/ sweep.pc \in {"verify", "remember"} /\ Head(sweep.todo)[2] = h
  \/ off.pc \in {"resume", "delete"}
NotesTellTheTruth ==
  \A h \in Torrents :
    Exists(h) /\ ~InFlight(h) /\ h \notin explained => (note[h] # "none" <=> StoppedByUs(h))

\* Enforcement comes to rest: once nobody interferes, sweeps find nothing to do,
\* instead of pausing and resuming the same torrents every minute.
Converges == <>[](sweep.todo = <<>>)
=============================================================================
