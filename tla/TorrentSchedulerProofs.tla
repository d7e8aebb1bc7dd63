------------------------ MODULE TorrentSchedulerProofs ------------------------
(***************************************************************************)
(* The scheduler's notes tell its own pauses from those of others, for any *)
(* set of torrents, whatever the planner asks for and whoever else acts on *)
(* the torrents between two calls of a sweep.                              *)
(*                                                                         *)
(* NotesTellTheTruth says nothing of a torrent whose command is in flight, *)
(* nor of any torrent while deactivate resumes them, so it is not          *)
(* inductive.  Truth says what holds of those: between a pause and its     *)
(* verification, between the verification and the note (and the same for a *)
(* resume), and while the notes are about to be dropped.  That argument    *)
(* does not look into the plan: it holds for every sequence of steps.      *)
(*                                                                         *)
(* The second half looks into it.  Priority is a strict total order, so    *)
(* the contenders can be ranked; the walk over them is a function on       *)
(* 0..n, whose existence and invariant (WalkInv) are shown by induction    *)
(* along the walk: a set of numbers with 0 and with the successor of each  *)
(* of its members holds them all.  The walk's counters are the number of   *)
(* torrents the plan leaves running, as long as its budget lasts, and that *)
(* makes the plan Sound.  TypeInv is the type invariant that keeps the     *)
(* planner's inputs what the argument needs them to be.                    *)
(***************************************************************************)
EXTENDS TorrentScheduler, FiniteSetTheorems, SequenceTheorems, TLAPS

\* Deactivate is resuming, or about to drop the notes.
Dropping == off.pc \in {"resume", "delete"}

\* The sweep is about to look at h, or to write its note.
Verifying(a, h) == sweep.pc = "verify" /\ Doing(a, h)
Noting(a, h) == sweep.pc = "remember" /\ Doing(a, h)

Noted(h) == note[h] # "none"

\* A torrent that exists and is not explained.
Truth(h) ==
  CASE Verifying("pause", h) -> (Paused(h) => StoppedByUs(h)) /\ (Noted(h) => Dropping)
    [] Noting("pause", h)    -> sweep.write = "fresh" /\ StoppedByUs(h)
    [] Verifying("resume", h) \/ Noting("resume", h) -> ~StoppedByUs(h)
    [] OTHER -> /\ StoppedByUs(h) => Noted(h)
                /\ Noted(h) => StoppedByUs(h) \/ Dropping

Truths == \A h \in Torrents : Exists(h) /\ h \notin explained => Truth(h)

\* A look at the engine and a note belong to a pause or to a resume, only a verified
\* pause is noted, and a torrent is forgotten when it is gone.
Purpose ==
  /\ sweep.pc \in {"verify", "remember"} =>
       \E h \in Torrents : Doing("pause", h) \/ Doing("resume", h)
  /\ sweep.write # "none" => sweep.pc = "remember" /\ \E h \in Torrents : Doing("pause", h)
  /\ \A h \in Torrents : sweep.pc = "forget" /\ Doing("remove", h) => ~Exists(h)

\* What the argument needs of the types: nothing of the plan.
Cell == [state : States, prog : Nat]
IsRecord(r, fields) == r = [f \in DOMAIN r |-> r[f]] /\ fields \subseteq DOMAIN r
IsSweep(s) == IsRecord(s, {"pc", "todo", "write"})
IsOff(o) == IsRecord(o, {"pc"})
Typed ==
  /\ engine \in [Torrents -> Cell]
  /\ note \in [Torrents -> {"none", "fresh", "old"}]
  /\ IsSweep(sweep) /\ sweep.write \in {"none", "fresh"} /\ IsOff(off)
  /\ stopper \in [Torrents -> {"nobody", "scheduler", "other"}]

NotesInv == Typed /\ Purpose /\ Truths

----------------------------------------------------------------------------
(* Torrents in hand and torrents at rest.                                   *)

InHand(h) == sweep.pc \in {"verify", "remember"} /\ (Doing("pause", h) \/ Doing("resume", h))

\* What Truth says of a torrent that is not in hand.
Settled(h) == /\ StoppedByUs(h) => Noted(h)
              /\ Noted(h) => StoppedByUs(h) \/ Dropping

LEMMA AtRest == ASSUME NEW h, ~InHand(h) PROVE Truth(h) <=> Settled(h)
BY DEF InHand, Truth, Settled, Verifying, Noting

LEMMA AtRestNext == ASSUME NEW h, ~InHand(h)', Settled(h)' PROVE Truth(h)'
BY DEF InHand, Truth, Settled, Verifying, Noting

\* The sweep has one torrent in hand.
LEMMA OneInHand ==
  ASSUME NEW a, NEW h, Doing(a, h), NEW b, NEW g, Doing(b, g)
  PROVE  a = b /\ g = h
BY DEF Doing

LEMMA Known ==
  ASSUME NotesInv, NEW h \in Torrents, Exists(h), h \notin explained PROVE Truth(h)
BY DEF NotesInv, Truths

\* A torrent that a step leaves as it is, with the sweep still where it was or
\* occupied with another one before and after.
LEMMA Bystander ==
  ASSUME NotesInv, NEW h \in Torrents, Exists(h)', h \notin explained', explained \subseteq explained',
         engine'[h].state = engine[h].state, stopper'[h] = stopper[h],
         Noted(h)' <=> Noted(h), Dropping => Dropping',
         \/ UNCHANGED sweep
         \/ ~InHand(h) /\ ~InHand(h)'
  PROVE  Truth(h)'
<1>1. Exists(h) /\ h \notin explained BY DEF Exists
<1>2. Truth(h) BY <1>1, Known
<1>3. (Paused(h)' <=> Paused(h)) /\ (StoppedByUs(h)' <=> StoppedByUs(h))
  BY DEF Paused, StoppedByUs
<1>4. CASE UNCHANGED sweep
  <2>1. \A a : (Verifying(a, h)' <=> Verifying(a, h)) /\ (Noting(a, h)' <=> Noting(a, h))
    BY <1>4 DEF Verifying, Noting, Doing
  <2> QED BY <1>2, <1>3, <1>4, <2>1 DEF Truth
<1>5. CASE ~InHand(h) /\ ~InHand(h)'
  <2>1. Settled(h) BY <1>2, <1>5, AtRest
  <2>2. Settled(h)' BY <1>3, <2>1 DEF Settled
  <2> QED BY <1>5, <2>2, AtRestNext
<1> QED BY <1>4, <1>5

LEMMA NoSweepIs == IsSweep(NoSweep) /\ NoSweep.pc = "idle" /\ NoSweep.write = "none"
BY DEF IsSweep, IsRecord, NoSweep

LEMMA NotOffIs == IsOff(NotOff) /\ NotOff.pc = "idle"
BY DEF IsOff, IsRecord, NotOff

\* A sweep after a step that ends one action of its plan.
LEMMA Carried ==
  ASSUME NEW steps
  PROVE  /\ IsSweep(Carry(steps)) /\ Carry(steps).pc \in {"idle", "apply"}
         /\ Carry(steps).write = "none"
<1>1. CASE steps = <<>> BY <1>1, NoSweepIs DEF Carry
<1>2. CASE steps # <<>>
  <2> DEFINE c == [NoSweep EXCEPT !.pc = "apply", !.todo = steps]
  <2>1. IsSweep(c) /\ c.pc = "apply" /\ c.write = "none"
    BY DEF IsSweep, IsRecord, NoSweep
  <2> HIDE DEF c
  <2>2. Carry(steps) = c BY <1>2 DEF Carry, c
  <2> QED BY <2>1, <2>2
<1> QED BY <1>1, <1>2

\* A sweep that moves on with the action it is at.
LEMMA MovesOn ==
  ASSUME IsSweep(sweep), NEW pc
  PROVE  /\ IsSweep(At(pc)) /\ At(pc).pc = pc /\ At(pc).todo = sweep.todo
         /\ At(pc).write = sweep.write
BY DEF At, IsSweep, IsRecord

LEMMA Initially == Init => NotesInv
<1> SUFFICES ASSUME Init PROVE NotesInv OBVIOUS
<1>1. sweep = NoSweep /\ off = NotOff /\ explained = {} /\ note = [h \in Torrents |-> "none"]
      /\ stopper = [h \in Torrents |-> "nobody"]
  BY DEF Init
<1>2. engine \in [Torrents -> Cell]
  <2>1. engine \in [Torrents -> [state : {"running"}, prog : 0..Full]] BY DEF Init
  <2>2. [state : {"running"}, prog : 0..Full] \subseteq Cell BY DEF Cell, States
  <2> HIDE DEF Cell
  <2> QED BY <2>1, <2>2
<1>3. IsSweep(sweep) /\ IsOff(off) /\ sweep.pc = "idle" /\ sweep.write = "none"
  BY <1>1, NoSweepIs, NotOffIs
<1>4. Typed BY <1>1, <1>2, <1>3 DEF Typed
<1>5. Purpose BY <1>3 DEF Purpose
<1>6. ASSUME NEW h \in Torrents PROVE Truth(h)
  <2>1. ~InHand(h) BY <1>3 DEF InHand
  <2>2. Settled(h) BY <1>1 DEF Settled, StoppedByUs, Noted
  <2> QED BY <2>1, <2>2, AtRest
<1> QED BY <1>4, <1>5, <1>6 DEF NotesInv, Truths

----------------------------------------------------------------------------
(* Everybody else.                                                          *)

\* Somebody else acts on h, or the engine moves on by itself.
Elsewhere(h) ==
  \/ engine'[h].state = engine[h].state /\ stopper'[h] = stopper[h]
  \/ Exists(h) /\ ~Paused(h) /\ ~Paused(h)'
  \/ ~Exists(h)'
  \/ Exists(h) /\ Outlived(h) /\ stopper'[h] # "scheduler"

LEMMA OthersKeep ==
  ASSUME NotesInv, UNCHANGED <<note, sweep, off>>, NEW h \in Torrents,
         engine' \in [Torrents -> Cell],
         stopper' \in [Torrents -> {"nobody", "scheduler", "other"}],
         \A g \in Torrents : g # h => engine'[g].state = engine[g].state /\ stopper'[g] = stopper[g],
         explained \subseteq explained', Elsewhere(h)
  PROVE  NotesInv'
<1>1. Typed' BY DEF NotesInv, Typed
<1>2. Purpose'
  <2>1. \A g \in Torrents : Exists(g)' => Exists(g) BY DEF Elsewhere, Exists
  <2> QED BY <2>1 DEF NotesInv, Purpose, Doing
<1>3. ASSUME NEW g \in Torrents, Exists(g)', g \notin explained' PROVE Truth(g)'
  <2>1. (Noted(g)' <=> Noted(g)) /\ (Dropping' <=> Dropping) BY DEF Noted, Dropping
  <2>2. CASE g # h BY <1>3, <2>1, <2>2, Bystander
  <2>3. CASE engine'[h].state = engine[h].state /\ stopper'[h] = stopper[h] /\ g = h
    BY <1>3, <2>1, <2>3, Bystander
  <2>4. CASE ~Exists(h)' /\ g = h BY <1>3, <2>4
  <2>5. CASE ~Paused(h) /\ ~Paused(h)' /\ Exists(h) /\ g = h
    <3>1. Truth(h) BY <1>3, <2>5, Known
    <3>2. ~StoppedByUs(h) /\ ~StoppedByUs(h)' BY <2>5 DEF StoppedByUs
    <3>3. \A a : (Verifying(a, h)' <=> Verifying(a, h)) /\ (Noting(a, h)' <=> Noting(a, h))
      BY DEF Verifying, Noting, Doing
    <3>4. Truth(h)' BY <2>1, <2>5, <3>1, <3>2, <3>3 DEF Truth
    <3> QED BY <2>5, <3>4
  <2>6. CASE Outlived(h) /\ stopper'[h] # "scheduler" /\ g = h
    <3>1. ~Noted(h) /\ ~Overtaken(h) BY <1>3, <2>6 DEF Outlived, Noted
    <3>2. ~StoppedByUs(h)' BY <2>6 DEF StoppedByUs
    <3>3. ~Noting("pause", h)' /\ (Verifying("pause", h)' => ~Paused(h)')
      BY <3>1 DEF Overtaken, Noting, Verifying, Doing
    <3>4. Truth(h)' BY <2>1, <2>6, <3>1, <3>2, <3>3 DEF Truth
    <3> QED BY <2>6, <3>4
  <2> QED BY <2>2, <2>3, <2>4, <2>5, <2>6 DEF Elsewhere
<1> QED BY <1>1, <1>2, <1>3 DEF NotesInv, Truths

LEMMA ActorsKeep ==
  ASSUME NotesInv, NEW h \in Torrents,
         EngineStart(h) \/ Download(h) \/ Person(h) \/ Parking(h)
  PROVE  NotesInv'
<1>1. UNCHANGED <<note, sweep, off>> /\ explained \subseteq explained'
  BY DEF EngineStart, Download, Person, Parking, db, Outlived
<1>2. /\ engine \in [Torrents -> Cell]
      /\ stopper \in [Torrents -> {"nobody", "scheduler", "other"}]
  BY DEF NotesInv, Typed
<1>3. engine[h] \in Cell BY <1>2
<1> DEFINE Writes(c) == engine' = [engine EXCEPT ![h] = c]
<1>4. ASSUME NEW s \in States, SetState(h, s)
      PROVE  \E c \in Cell : Writes(c) /\ c.state = s
  <2> DEFINE c == [engine[h] EXCEPT !.state = s]
  <2>1. c \in Cell /\ c.state = s BY <1>3 DEF Cell
  <2>2. Writes(c) BY <1>4 DEF SetState
  <2> HIDE DEF c
  <2> QED BY <2>1, <2>2
<1>5. ASSUME NEW c \in Cell, Writes(c),
             NEW w \in {"nobody", "scheduler", "other"}, stopper' = [stopper EXCEPT ![h] = w],
             \/ c.state = engine[h].state /\ w = stopper[h]
             \/ Exists(h) /\ ~Paused(h) /\ c.state # "paused"
             \/ c.state = "gone"
             \/ Exists(h) /\ Outlived(h) /\ w # "scheduler"
      PROVE  NotesInv'
  <2>1. engine' \in [Torrents -> Cell] /\ engine'[h] = c BY <1>2, <1>5
  <2>2. stopper' \in [Torrents -> {"nobody", "scheduler", "other"}] /\ stopper'[h] = w
    BY <1>2, <1>5
  <2>3. \A g \in Torrents : g # h => engine'[g].state = engine[g].state /\ stopper'[g] = stopper[g]
    BY <1>2, <1>5
  <2>4. Elsewhere(h) BY <1>5, <2>1, <2>2 DEF Elsewhere, Paused, Exists
  <2> QED BY <1>1, <2>1, <2>2, <2>3, <2>4, OthersKeep
<1>6. stopper = [stopper EXCEPT ![h] = stopper[h]] BY <1>2
<1>7. stopper[h] \in {"nobody", "scheduler", "other"} BY <1>2
<1>8. CASE EngineStart(h)
  <2>1. PICK c \in Cell : Writes(c) /\ c.state = "running"
    BY <1>4, <1>8 DEF EngineStart, States
  <2>2. Exists(h) /\ ~Paused(h) /\ stopper' = stopper BY <1>8 DEF EngineStart, Exists, Paused
  <2> QED BY <1>5, <1>6, <1>7, <2>1, <2>2
<1>9. CASE Download(h)
  <2> DEFINE c == [engine[h] EXCEPT !.prog = @ + 1]
  <2>1. c \in Cell /\ c.state = engine[h].state BY <1>3 DEF Cell
  <2>2. Writes(c) /\ stopper' = stopper BY <1>9 DEF Download
  <2> HIDE DEF c
  <2> QED BY <1>5, <1>6, <1>7, <2>1, <2>2
<1>10. ASSUME EnginePause(h, "other"), ~Paused(h), Exists(h), Outlived(h) PROVE NotesInv'
  <2>1. PICK c \in Cell : Writes(c) BY <1>4, <1>10 DEF EnginePause, States
  <2>2. stopper' = [stopper EXCEPT ![h] = "other"] BY <1>10 DEF EnginePause
  <2> QED BY <1>5, <1>10, <2>1, <2>2
<1>11. ASSUME EngineResume(h), Exists(h), Outlived(h) PROVE NotesInv'
  <2>1. PICK s \in {"running", "queued"} :
          SetState(h, IF engine[h].state \in {"paused", "queued"} THEN s ELSE engine[h].state)
    BY <1>11 DEF EngineResume
  <2>2. (IF engine[h].state \in {"paused", "queued"} THEN s ELSE engine[h].state) \in States
    BY <1>3 DEF Cell, States
  <2>3. PICK c \in Cell : Writes(c) BY <1>4, <2>1, <2>2
  <2>4. stopper' = [stopper EXCEPT ![h] = "nobody"] BY <1>11 DEF EngineResume
  <2> QED BY <1>5, <1>11, <2>3, <2>4
<1>12. CASE Person(h)
  <2>1. Exists(h) /\ Outlived(h) BY <1>12 DEF Person
  <2>2. ASSUME ~Paused(h), SetState(h, "checking"), UNCHANGED stopper PROVE NotesInv'
    <3>1. PICK c \in Cell : Writes(c) /\ c.state = "checking" BY <1>4, <2>2 DEF States
    <3> QED BY <1>5, <1>6, <1>7, <2>1, <2>2, <3>1
  <2>3. ASSUME SetState(h, "gone"), UNCHANGED stopper PROVE NotesInv'
    <3>1. PICK c \in Cell : Writes(c) /\ c.state = "gone" BY <1>4, <2>3 DEF States
    <3> QED BY <1>5, <1>6, <1>7, <2>3, <3>1
  <2> QED BY <1>10, <1>11, <1>12, <2>1, <2>2, <2>3 DEF Person
<1>13. CASE Parking(h)
  <2>1. engine[h].state = "running" => ~Paused(h) /\ Exists(h) BY DEF Paused, Exists
  <2> QED BY <1>10, <1>11, <1>13, <2>1 DEF Parking
<1> QED BY <1>8, <1>9, <1>12, <1>13

\* Steps that leave the torrents and the sweep alone, and notes as they are or older.
LEMMA QuietKeeps ==
  ASSUME NotesInv, UNCHANGED <<engine, sweep, stopper, explained>>, IsOff(off'),
         note' \in [Torrents -> {"none", "fresh", "old"}],
         \A h \in Torrents : Noted(h)' <=> Noted(h), Dropping => Dropping'
  PROVE  NotesInv'
<1>1. Typed' BY DEF NotesInv, Typed
<1>2. Purpose' BY DEF NotesInv, Purpose, Doing, Exists
<1>3. ASSUME NEW h \in Torrents, Exists(h)', h \notin explained' PROVE Truth(h)'
  BY <1>3, Bystander
<1> QED BY <1>1, <1>2, <1>3 DEF NotesInv, Truths

LEMMA UntouchedKeeps ==
  ASSUME NotesInv, UNCHANGED <<engine, note, sweep, off, stopper, explained>>
  PROVE  NotesInv'
BY QuietKeeps DEF NotesInv, Typed, Noted, Dropping

LEMMA GrowOldKeeps == ASSUME NotesInv, NEW h \in Torrents, GrowOld(h) PROVE NotesInv'
<1>1. UNCHANGED <<engine, sweep, off, stopper, explained>> BY DEF GrowOld
<1>2. note \in [Torrents -> {"none", "fresh", "old"}] /\ IsOff(off) BY DEF NotesInv, Typed
<1>3. note' \in [Torrents -> {"none", "fresh", "old"}] BY <1>2 DEF GrowOld
<1>4. \A g \in Torrents : Noted(g)' <=> Noted(g) BY <1>2 DEF GrowOld, Noted
<1>5. Dropping => Dropping' BY <1>1 DEF Dropping
<1> QED BY <1>1, <1>2, <1>3, <1>4, <1>5, QuietKeeps

\* deactivate up to the mode.
LEMMA DeactivateKeeps ==
  ASSUME NotesInv, DeactivateMode \/ \E resume \in BOOLEAN : Deactivate(resume)
  PROVE  NotesInv'
<1>1. UNCHANGED <<engine, note, sweep, stopper, explained>> /\ ~Dropping
  BY DEF Deactivate, DeactivateMode, db, Dropping
<1>2. note \in [Torrents -> {"none", "fresh", "old"}] /\ IsOff(off) BY DEF NotesInv, Typed
<1>3. IsOff(off')
  <2>1. CASE DeactivateMode
    <3>1. IsOff([off EXCEPT !.pc = "resume"]) BY <1>2 DEF IsOff, IsRecord
    <3> QED BY <2>1, <3>1, NotOffIs DEF DeactivateMode
  <2>2. CASE \E resume \in BOOLEAN : Deactivate(resume)
    <3>1. PICK t, r : off' = [pc |-> "mode", todo |-> t, resume |-> r] BY <2>2 DEF Deactivate
    <3> QED BY <3>1 DEF IsOff, IsRecord
  <2> QED BY <2>1, <2>2
<1> QED BY <1>1, <1>2, <1>3, QuietKeeps DEF Noted

\* What resumeTorrent does to the engine.
LEMMA Resumed ==
  ASSUME NotesInv, NEW h \in Torrents, EngineResume(h)
  PROVE  /\ engine' \in [Torrents -> Cell]
         /\ stopper' \in [Torrents -> {"nobody", "scheduler", "other"}]
         /\ stopper'[h] = "nobody" /\ ~Paused(h)' /\ (Exists(h)' => Exists(h))
         /\ \A g \in Torrents : g # h => engine'[g] = engine[g] /\ stopper'[g] = stopper[g]
<1>1. /\ engine \in [Torrents -> Cell]
      /\ stopper \in [Torrents -> {"nobody", "scheduler", "other"}]
  BY DEF NotesInv, Typed
<1>2. engine[h] \in Cell BY <1>1
<1>3. PICK s \in {"running", "queued"} :
        SetState(h, IF engine[h].state \in {"paused", "queued"} THEN s ELSE engine[h].state)
  BY DEF EngineResume
<1> DEFINE e == IF engine[h].state \in {"paused", "queued"} THEN s ELSE engine[h].state
           c == [engine[h] EXCEPT !.state = e]
<1>4. e \in States /\ e # "paused" /\ (engine[h].state = "gone" => e = "gone")
  BY <1>2 DEF Cell, States
<1>5. engine' = [engine EXCEPT ![h].state = e] BY <1>3 DEF SetState
<1> HIDE DEF e
<1>6. c \in Cell /\ c.state = e BY <1>2, <1>4 DEF Cell
<1>7. engine' = [engine EXCEPT ![h] = c] BY <1>5
<1> HIDE DEF c
<1>8. engine' \in [Torrents -> Cell] /\ engine'[h].state = e
      /\ \A g \in Torrents : g # h => engine'[g] = engine[g]
  BY <1>1, <1>6, <1>7
<1>9. stopper' = [stopper EXCEPT ![h] = "nobody"] BY DEF EngineResume
<1>10. stopper' \in [Torrents -> {"nobody", "scheduler", "other"}] /\ stopper'[h] = "nobody"
       /\ \A g \in Torrents : g # h => stopper'[g] = stopper[g]
  BY <1>1, <1>9
<1> QED BY <1>4, <1>8, <1>10 DEF Paused, Exists

LEMMA DeactivateResumeKeeps ==
  ASSUME NotesInv, NEW h \in Torrents, DeactivateResume(h) PROVE NotesInv'
<1>1. /\ UNCHANGED <<note, sweep>> /\ explained \subseteq explained' /\ Dropping
      /\ h \in explained' \/ ~Overtaken(h)
  BY DEF DeactivateResume, db, Dropping
<1>2. IsOff(off') /\ Dropping'
  <2>1. IsOff(off) /\ off.pc = "resume" BY DEF NotesInv, Typed, DeactivateResume
  <2> DEFINE q == IF off.todo = {h} THEN "delete" ELSE "resume"
             o == [off EXCEPT !.todo = @ \ {h}, !.pc = q]
  <2>2. off' = o BY <2>1 DEF DeactivateResume, IsOff, IsRecord
  <2>3. IsOff(o) /\ o.pc = q BY <2>1 DEF IsOff, IsRecord
  <2> HIDE DEF o
  <2> QED BY <2>2, <2>3 DEF Dropping
<1>3. CASE EngineResume(h)
  <2>1. Typed' BY <1>1, <1>2, <1>3, Resumed DEF NotesInv, Typed
  <2>2. Purpose'
    <3>1. \A g \in Torrents : Exists(g)' => Exists(g) BY <1>3, Resumed DEF Exists
    <3> QED BY <1>1, <3>1 DEF NotesInv, Purpose, Doing
  <2>3. ASSUME NEW g \in Torrents, Exists(g)', g \notin explained' PROVE Truth(g)'
    <3>1. CASE g # h BY <1>1, <1>2, <1>3, <2>3, <3>1, Bystander, Resumed DEF Noted
    <3>2. CASE g = h
      <4>1. ~StoppedByUs(h)' /\ ~Paused(h)' BY <1>3, Resumed DEF StoppedByUs
      <4>2. ~Noting("pause", h)' BY <1>1, <2>3, <3>2 DEF Overtaken, Noting, Doing
      <4>3. Truth(h)' BY <1>2, <4>1, <4>2 DEF Truth
      <4> QED BY <3>2, <4>3
    <3> QED BY <3>1, <3>2
  <2> QED BY <2>1, <2>2, <2>3 DEF NotesInv, Truths
<1>4. CASE UNCHANGED <<engine, stopper>>
  <2>1. Typed' BY <1>1, <1>2, <1>4 DEF NotesInv, Typed
  <2>2. Purpose' BY <1>1, <1>4 DEF NotesInv, Purpose, Doing, Exists
  <2>3. ASSUME NEW g \in Torrents, Exists(g)', g \notin explained' PROVE Truth(g)'
    BY <1>1, <1>2, <1>4, <2>3, Bystander DEF Noted
  <2> QED BY <2>1, <2>2, <2>3 DEF NotesInv, Truths
<1> QED BY <1>3, <1>4 DEF DeactivateResume

LEMMA DeactivateDeleteKeeps == ASSUME NotesInv, DeactivateDelete PROVE NotesInv'
<1>1. /\ UNCHANGED <<engine, sweep, stopper>> /\ note' = [h \in Torrents |-> "none"]
      /\ off' = NotOff /\ explained' = explained \cup {h \in Held : Paused(h)}
  BY DEF DeactivateDelete
<1>2. Typed' BY <1>1, NotOffIs DEF NotesInv, Typed
<1>3. Purpose' BY <1>1 DEF NotesInv, Purpose, Doing, Exists
<1>4. ASSUME NEW h \in Torrents, Exists(h)', h \notin explained' PROVE Truth(h)'
  <2>1. Truth(h) BY <1>1, <1>4, Known DEF Exists
  <2>2. ~Noted(h)' BY <1>1 DEF Noted
  <2>3. (StoppedByUs(h)' <=> StoppedByUs(h)) /\ (Paused(h)' <=> Paused(h))
    BY <1>1 DEF StoppedByUs, Paused
  <2>4. \A a : (Verifying(a, h)' <=> Verifying(a, h)) /\ (Noting(a, h)' <=> Noting(a, h))
    BY <1>1 DEF Verifying, Noting, Doing
  <2>5. ~(StoppedByUs(h) /\ Noted(h)) BY <1>1, <1>4 DEF Held, Noted, StoppedByUs
  <2>6. UNCHANGED sweep.write BY <1>1
  <2> QED BY <2>1, <2>2, <2>3, <2>4, <2>5, <2>6 DEF Truth
<1> QED BY <1>2, <1>3, <1>4 DEF NotesInv, Truths

----------------------------------------------------------------------------
(* The sweep.                                                               *)

\* No torrent is in hand after the step.
LEMMA Rests ==
  ASSUME Typed', sweep'.pc \notin {"verify", "remember", "forget"}, sweep'.write = "none",
         \A h \in Torrents : Exists(h)' /\ h \notin explained' => Settled(h)'
  PROVE  NotesInv'
<1>1. Purpose' BY DEF Purpose
<1>2. \A h : ~InHand(h)' BY DEF InHand
<1>3. Truths' BY <1>2, AtRestNext DEF Truths
<1> QED BY <1>1, <1>3 DEF NotesInv

\* Nothing is in hand before the step, and nothing of the torrents changes.
LEMMA SettledKeeps ==
  ASSUME NotesInv, NEW h \in Torrents, Exists(h)', h \notin explained, ~InHand(h),
         Noted(h)' <=> Noted(h), Dropping => Dropping',
         engine'[h].state = engine[h].state, stopper'[h] = stopper[h]
  PROVE  Settled(h)'
<1>1. Truth(h) BY Known DEF Exists
<1>2. Settled(h) BY <1>1, AtRest
<1> QED BY <1>2 DEF Settled, StoppedByUs, Paused

LEMMA RestartKeeps == ASSUME NotesInv, Restart PROVE NotesInv'
<1>1. /\ UNCHANGED <<engine, note, stopper>> /\ sweep' = NoSweep /\ off' = NotOff
      /\ explained' = explained \cup
           (IF sweep.pc \in {"verify", "remember"} THEN {Head(sweep.todo)[2]} ELSE {}) \cup
           (IF off.pc \in {"resume", "delete"} THEN Held ELSE {})
  BY DEF Restart, db
<1>2. Typed' BY <1>1, NoSweepIs, NotOffIs DEF NotesInv, Typed
<1>3. ASSUME NEW h \in Torrents, Exists(h)', h \notin explained' PROVE Settled(h)'
  <2>1. ~InHand(h) BY <1>1, <1>3 DEF InHand, Doing
  <2>2. Truth(h) BY <1>1, <1>3, Known DEF Exists
  <2>3. Settled(h) BY <2>1, <2>2, AtRest
  <2>4. Dropping => ~Noted(h) BY <1>1, <1>3 DEF Dropping, Noted, Held
  <2> QED BY <1>1, <2>3, <2>4 DEF Settled, StoppedByUs, Paused, Noted
<1> QED BY <1>1, <1>2, <1>3, NoSweepIs, Rests

\* tick, the plan, and a command that does not reach the engine.
LEMMA TickKeeps ==
  ASSUME NotesInv, Tick \/ ReadSnapshots \/ Plan \/ \E h \in Torrents : CommandFails(h)
  PROVE  NotesInv'
<1>1. UNCHANGED <<engine, note, off, stopper, explained>>
      /\ sweep.pc \notin {"verify", "remember"}
  BY DEF Tick, ReadSnapshots, Plan, CommandFails, db
<1>2. IsSweep(sweep') /\ sweep'.pc \notin {"verify", "remember", "forget"} /\ sweep'.write = "none"
  <2>1. CASE Tick \/ ReadSnapshots
    <3>1. IsSweep(sweep) /\ sweep.write = "none"
      BY <2>1 DEF NotesInv, Typed, Purpose, Tick, ReadSnapshots
    <3>2. CASE Tick
      <4>1. PICK m : sweep' = [sweep EXCEPT !.pc = "read", !.mode = m] BY <3>2 DEF Tick
      <4> QED BY <3>1, <4>1 DEF IsSweep, IsRecord
    <3>3. CASE ReadSnapshots
      <4>1. PICK n : sweep' = [sweep EXCEPT !.pc = "plan", !.snaps = n] BY <3>3 DEF ReadSnapshots
      <4> QED BY <3>1, <4>1 DEF IsSweep, IsRecord
    <3> QED BY <2>1, <3>2, <3>3
  <2>2. CASE Plan
    <3>1. PICK steps : sweep' = Carry(steps) BY <2>2 DEF Plan
    <3> QED BY <3>1, Carried
  <2>3. CASE \E h \in Torrents : CommandFails(h)
    <3>1. sweep' = Carry(Tail(sweep.todo)) BY <2>3 DEF CommandFails, Done
    <3> QED BY <3>1, Carried
  <2> QED BY <2>1, <2>2, <2>3
<1>3. Typed' BY <1>1, <1>2 DEF NotesInv, Typed
<1>4. ASSUME NEW h \in Torrents, Exists(h)', h \notin explained' PROVE Settled(h)'
  <2>1. ~InHand(h) BY <1>1 DEF InHand
  <2> QED BY <1>1, <1>4, <2>1, SettledKeeps DEF Noted, Dropping
<1> QED BY <1>2, <1>3, <1>4, Rests

LEMMA DoneIs ==
  ASSUME sweep' = Done
  PROVE  /\ IsSweep(sweep') /\ sweep'.pc \notin {"verify", "remember", "forget"}
         /\ sweep'.write = "none"
BY Carried DEF Done

\* One torrent of the engine gets another state.
LEMMA StateSet ==
  ASSUME NotesInv, NEW h \in Torrents, NEW s \in States, SetState(h, s)
  PROVE  /\ engine' \in [Torrents -> Cell] /\ engine'[h].state = s
         /\ \A g \in Torrents : g # h => engine'[g] = engine[g]
<1>1. engine \in [Torrents -> Cell] BY DEF NotesInv, Typed
<1>2. engine[h] \in Cell BY <1>1
<1> DEFINE c == [engine[h] EXCEPT !.state = s]
<1>3. c \in Cell /\ c.state = s BY <1>2 DEF Cell
<1>4. engine' = [engine EXCEPT ![h] = c] BY DEF SetState
<1> HIDE DEF c
<1> QED BY <1>1, <1>3, <1>4

LEMMA CleanUpKeeps == ASSUME NotesInv, NEW h \in Torrents, CleanUp(h) PROVE NotesInv'
<1>1. /\ UNCHANGED <<note, off, stopper, explained>> /\ sweep.pc = "apply" /\ Doing("remove", h)
  BY DEF CleanUp, db
<1>2. \A g : ~InHand(g) BY <1>1 DEF InHand
<1>3. CASE SetState(h, "gone") /\ sweep' = At("forget")
  <2>1. IsSweep(sweep) /\ sweep.write = "none" BY <1>1 DEF NotesInv, Typed, Purpose
  <2>2. IsSweep(sweep') /\ sweep'.pc = "forget" /\ sweep'.todo = sweep.todo /\ sweep'.write = "none"
    BY <1>3, <2>1, MovesOn
  <2>3. engine' \in [Torrents -> Cell] /\ engine'[h].state = "gone"
        /\ \A g \in Torrents : g # h => engine'[g] = engine[g]
    BY <1>3, StateSet DEF States
  <2>4. Typed' BY <1>1, <2>2, <2>3 DEF NotesInv, Typed
  <2>5. Purpose'
    <3>1. ASSUME NEW g \in Torrents, Doing("remove", g)' PROVE g = h
      BY <1>1, <2>2, <3>1 DEF Doing
    <3> QED BY <2>2, <2>3, <3>1 DEF Purpose, Exists
  <2>6. ASSUME NEW g \in Torrents, Exists(g)', g \notin explained' PROVE Truth(g)'
    <3>1. g # h BY <2>3, <2>6 DEF Exists
    <3>2. ~InHand(g)' BY <2>2 DEF InHand
    <3>3. (Noted(g)' <=> Noted(g)) /\ (Dropping => Dropping') BY <1>1 DEF Noted, Dropping
    <3> QED BY <1>1, <1>2, <2>3, <2>6, <3>1, <3>2, <3>3, Bystander
  <2> QED BY <2>4, <2>5, <2>6 DEF NotesInv, Truths
<1>4. CASE sweep' = Done /\ UNCHANGED engine
  <2>1. Typed' BY <1>1, <1>4, DoneIs DEF NotesInv, Typed
  <2>2. ASSUME NEW g \in Torrents, Exists(g)', g \notin explained' PROVE Settled(g)'
    BY <1>1, <1>2, <1>4, <2>2, SettledKeeps DEF Noted, Dropping
  <2> QED BY <1>4, <2>1, <2>2, DoneIs, Rests
<1>5. CASE sweep' = Done /\ SetState(h, "gone")
  <2>1. engine' \in [Torrents -> Cell] /\ engine'[h].state = "gone"
        /\ \A g \in Torrents : g # h => engine'[g] = engine[g]
    BY <1>5, StateSet DEF States
  <2>2. Typed' BY <1>1, <1>5, <2>1, DoneIs DEF NotesInv, Typed
  <2>3. ASSUME NEW g \in Torrents, Exists(g)', g \notin explained' PROVE Settled(g)'
    <3>1. g # h BY <2>1, <2>3 DEF Exists
    <3> QED BY <1>1, <1>2, <2>1, <2>3, <3>1, SettledKeeps DEF Noted, Dropping
  <2> QED BY <1>5, <2>2, <2>3, DoneIs, Rests
<1> QED BY <1>3, <1>4, <1>5 DEF CleanUp

LEMMA ForgetKeeps == ASSUME NotesInv, NEW h \in Torrents, Forget(h) PROVE NotesInv'
<1>1. /\ UNCHANGED <<engine, off, stopper, explained>> /\ sweep.pc = "forget"
      /\ Doing("remove", h) /\ sweep' = Done
      /\ note' = note \/ note' = [note EXCEPT ![h] = "none"]
  BY DEF Forget
<1>2. ~Exists(h) BY <1>1 DEF NotesInv, Purpose
<1>3. note \in [Torrents -> {"none", "fresh", "old"}] BY DEF NotesInv, Typed
<1>4. note' \in [Torrents -> {"none", "fresh", "old"}]
      /\ \A g \in Torrents : g # h => note'[g] = note[g]
  BY <1>1, <1>3
<1>5. Typed' BY <1>1, <1>4, DoneIs DEF NotesInv, Typed
<1>6. ASSUME NEW g \in Torrents, Exists(g)', g \notin explained' PROVE Settled(g)'
  <2>1. g # h BY <1>1, <1>2, <1>6 DEF Exists
  <2>2. ~InHand(g) BY <1>1 DEF InHand
  <2> QED BY <1>1, <1>4, <1>6, <2>1, <2>2, SettledKeeps DEF Noted, Dropping
<1> QED BY <1>1, <1>5, <1>6, DoneIs, Rests

\* The engine obeys: a pause of a torrent that was not paused is ours from here on,
\* a resumed one is nobody's.
LEMMA CommandKeeps == ASSUME NotesInv, NEW h \in Torrents, Command(h) PROVE NotesInv'
<1>1. /\ UNCHANGED <<note, off>> /\ sweep.pc = "apply" /\ Exists(h)
      /\ Doing("pause", h) \/ Doing("resume", h)
      /\ explained \subseteq explained'
  BY DEF Command, db
<1>2. \A g : ~InHand(g) BY <1>1 DEF InHand
<1>3. /\ engine' \in [Torrents -> Cell]
      /\ stopper' \in [Torrents -> {"nobody", "scheduler", "other"}]
      /\ \A g \in Torrents : g # h => engine'[g] = engine[g] /\ stopper'[g] = stopper[g]
      /\ \/ Doing("pause", h) /\ Paused(h)' /\ (~Paused(h) => stopper'[h] = "scheduler")
         \/ Doing("resume", h) /\ stopper'[h] = "nobody"
  <2>1. CASE Doing("pause", h) /\ EnginePause(h, "scheduler")
    <3>1. stopper \in [Torrents -> {"nobody", "scheduler", "other"}] BY DEF NotesInv, Typed
    <3>2. stopper' = [stopper EXCEPT ![h] = IF Paused(h) THEN @ ELSE "scheduler"]
          /\ SetState(h, "paused")
      BY <2>1 DEF EnginePause
    <3>3. /\ stopper' \in [Torrents -> {"nobody", "scheduler", "other"}]
          /\ \A g \in Torrents : g # h => stopper'[g] = stopper[g]
          /\ ~Paused(h) => stopper'[h] = "scheduler"
      BY <3>1, <3>2
    <3> QED BY <2>1, <3>2, <3>3, StateSet DEF States, Paused
  <2>2. CASE Doing("resume", h) /\ EngineResume(h) BY <2>2, Resumed
  <2> QED BY <2>1, <2>2 DEF Command
<1>4. CASE sweep' = Done /\ h \in explained'
  <2>1. Typed' BY <1>1, <1>3, <1>4, DoneIs DEF NotesInv, Typed
  <2>2. ASSUME NEW g \in Torrents, Exists(g)', g \notin explained' PROVE Settled(g)'
    <3>1. g # h BY <1>4, <2>2
    <3> QED BY <1>1, <1>2, <1>3, <2>2, <3>1, SettledKeeps DEF Noted, Dropping
  <2> QED BY <1>4, <2>1, <2>2, DoneIs, Rests
<1>5. CASE sweep' = At("verify") /\ (h \in explained' \/ ~(Doing("pause", h) /\ Paused(h)))
  <2>1. IsSweep(sweep) /\ sweep.write = "none" BY <1>1 DEF NotesInv, Typed, Purpose
  <2>2. IsSweep(sweep') /\ sweep'.pc = "verify" /\ sweep'.todo = sweep.todo /\ sweep'.write = "none"
    BY <1>5, <2>1, MovesOn
  <2>3. Typed' BY <1>1, <1>3, <2>2 DEF NotesInv, Typed
  <2>4. \A a, g : Doing(a, g)' <=> Doing(a, g) BY <2>2 DEF Doing
  <2>5. Purpose' BY <1>1, <2>2, <2>4 DEF Purpose
  <2>6. ASSUME NEW g \in Torrents, Exists(g)', g \notin explained' PROVE Truth(g)'
    <3>1. CASE g # h
      <4>1. ~InHand(g)' BY <1>1, <2>4, <3>1, OneInHand DEF InHand
      <4> QED BY <1>1, <1>2, <1>3, <2>6, <3>1, <4>1, Bystander DEF Noted, Dropping
    <3>2. CASE g = h /\ Doing("pause", h)
      <4>1. ~Paused(h) BY <1>5, <2>6, <3>2
      <4>2. stopper'[h] = "scheduler" /\ Paused(h)'
        BY <1>3, <3>2, <4>1, OneInHand
      <4>3. StoppedByUs(h)' BY <4>2 DEF StoppedByUs
      <4>4. Truth(h) BY <1>1, <2>6, <3>2, Known
      <4>5. Settled(h) BY <1>2, <4>4, AtRest
      <4>6. Noted(h)' => Dropping' BY <1>1, <4>1, <4>5 DEF Settled, StoppedByUs, Noted, Dropping
      <4>7. Verifying("pause", h)' BY <2>2, <2>4, <3>2 DEF Verifying
      <4>8. ~Noting("pause", h)' /\ ~Noting("resume", h)' /\ ~Verifying("resume", h)'
        BY <2>2, <2>4, <3>2, OneInHand DEF Noting, Verifying
      <4>9. Truth(h)' BY <4>3, <4>6, <4>7, <4>8 DEF Truth
      <4> QED BY <3>2, <4>9
    <3>3. CASE g = h /\ Doing("resume", h)
      <4>1. stopper'[h] = "nobody" BY <1>3, <3>3, OneInHand
      <4>2. ~StoppedByUs(h)' BY <4>1 DEF StoppedByUs
      <4>3. Verifying("resume", h)' BY <2>2, <2>4, <3>3 DEF Verifying
      <4>4. ~Noting("pause", h)' /\ ~Verifying("pause", h)'
        BY <2>2, <2>4, <3>3, OneInHand DEF Noting, Verifying
      <4>5. Truth(h)' BY <4>2, <4>3, <4>4 DEF Truth
      <4> QED BY <3>3, <4>5
    <3> QED BY <1>1, <3>1, <3>2, <3>3
  <2> QED BY <2>3, <2>5, <2>6 DEF NotesInv, Truths
<1> QED BY <1>4, <1>5 DEF Command

\* The engine does nothing: a pause is looked at like one that was obeyed, a resume is
\* explained.
LEMMA CommandIgnoredKeeps ==
  ASSUME NotesInv, NEW h \in Torrents, CommandIgnored(h) PROVE NotesInv'
<1>1. /\ UNCHANGED <<engine, stopper, note, off>> /\ sweep.pc = "apply" /\ sweep' = At("verify")
      /\ Doing("pause", h) \/ Doing("resume", h)
      /\ explained \subseteq explained'
      /\ h \notin explained' => Doing("pause", h) /\ ~Paused(h)
  BY DEF CommandIgnored, db
<1>2. \A g : ~InHand(g) BY <1>1 DEF InHand
<1>3. IsSweep(sweep) /\ sweep.write = "none" BY <1>1 DEF NotesInv, Typed, Purpose
<1>4. IsSweep(sweep') /\ sweep'.pc = "verify" /\ sweep'.todo = sweep.todo /\ sweep'.write = "none"
  BY <1>1, <1>3, MovesOn
<1>5. Typed' BY <1>1, <1>4 DEF NotesInv, Typed
<1>6. \A a, g : Doing(a, g)' <=> Doing(a, g) BY <1>4 DEF Doing
<1>7. Purpose' BY <1>1, <1>4, <1>6 DEF Purpose
<1>8. ASSUME NEW g \in Torrents, Exists(g)', g \notin explained' PROVE Truth(g)'
  <2>1. CASE g # h
    <3>1. ~InHand(g)' BY <1>1, <1>6, <2>1, OneInHand DEF InHand
    <3> QED BY <1>1, <1>2, <1>8, <2>1, <3>1, Bystander DEF Noted, Dropping
  <2>2. CASE g = h
    <3>1. Doing("pause", h) /\ ~Paused(h) BY <1>1, <1>8, <2>2
    <3>2. Exists(h) /\ h \notin explained BY <1>1, <1>8, <2>2 DEF Exists
    <3>3. Truth(h) BY <3>2, Known
    <3>4. Settled(h) BY <1>2, <3>3, AtRest
    <3>5. ~Paused(h)' /\ (Noted(h)' => Dropping')
      BY <1>1, <3>1, <3>4 DEF Settled, StoppedByUs, Paused, Noted, Dropping
    <3>6. Verifying("pause", h)' BY <1>4, <1>6, <3>1 DEF Verifying
    <3>7. ~Noting("pause", h)' /\ ~Noting("resume", h)' /\ ~Verifying("resume", h)'
      BY <1>4, <1>6, <3>1, OneInHand DEF Noting, Verifying
    <3>8. Truth(h)' BY <3>5, <3>6, <3>7 DEF Truth
    <3> QED BY <2>2, <3>8
  <2> QED BY <2>1, <2>2
<1> QED BY <1>5, <1>7, <1>8 DEF NotesInv, Truths

\* What the engine says: a pause is noted only if it holds, a resume only if the
\* torrent runs, and an answer that is not one is explained.
LEMMA VerifyKeeps == ASSUME NotesInv, NEW h \in Torrents, Verify(h) PROVE NotesInv'
<1>1. /\ UNCHANGED <<engine, note, off, stopper>> /\ sweep.pc = "verify"
      /\ Doing("pause", h) \/ Doing("resume", h)
      /\ explained \subseteq explained'
  BY DEF Verify, db
<1>2. IsSweep(sweep) /\ sweep.write = "none" BY <1>1 DEF NotesInv, Typed, Purpose
<1>3. \A g : g # h => ~InHand(g) BY <1>1, OneInHand DEF InHand
<1>4. ASSUME Exists(h), h \notin explained
      PROVE  /\ Doing("pause", h) => (Paused(h) => StoppedByUs(h)) /\ (Noted(h) => Dropping)
             /\ Doing("resume", h) => ~StoppedByUs(h)
  <2>1. Truth(h) BY <1>4, Known
  <2>2. Doing("pause", h) => Verifying("pause", h) BY <1>1 DEF Verifying
  <2>3. Doing("resume", h) => Verifying("resume", h) BY <1>1 DEF Verifying
  <2>4. Doing("resume", h) => ~Doing("pause", h) BY OneInHand
  <2>5. Doing("resume", h) => ~Verifying("pause", h) /\ ~Noting("pause", h)
    BY <2>4 DEF Verifying, Noting
  <2>6. Doing("pause", h) => (Paused(h) => StoppedByUs(h)) /\ (Noted(h) => Dropping)
    <3> SUFFICES ASSUME Doing("pause", h)
                 PROVE  (Paused(h) => StoppedByUs(h)) /\ (Noted(h) => Dropping)
      OBVIOUS
    <3>1. ~Noting("pause", h) /\ ~Noting("resume", h) BY <1>1 DEF Noting
    <3>2. Verifying("pause", h) /\ ~Verifying("resume", h) BY <2>2, <2>4 DEF Verifying
    <3> QED BY <2>1, <3>1, <3>2 DEF Truth
  <2>7. Doing("resume", h) => ~StoppedByUs(h) BY <2>1, <2>3, <2>5 DEF Truth
  <2> QED BY <2>6, <2>7
<1>5. ASSUME sweep' = Done, Exists(h) /\ h \notin explained' => Settled(h) PROVE NotesInv'
  <2>1. Typed' BY <1>1, <1>5, DoneIs DEF NotesInv, Typed
  <2>2. ASSUME NEW g \in Torrents, Exists(g)', g \notin explained' PROVE Settled(g)'
    <3>1. CASE g # h BY <1>1, <1>3, <2>2, <3>1, SettledKeeps DEF Noted, Dropping
    <3>2. CASE g = h
      <4>1. Settled(h) BY <1>1, <1>5, <2>2, <3>2 DEF Exists
      <4>2. Settled(h)' BY <1>1, <4>1 DEF Settled, StoppedByUs, Paused, Noted, Dropping
      <4> QED BY <3>2, <4>2
    <3> QED BY <3>1, <3>2
  <2> QED BY <1>5, <2>1, <2>2, DoneIs, Rests
<1>6. ASSUME IsSweep(sweep'), sweep'.pc = "remember", sweep'.todo = sweep.todo,
             \/ sweep'.write = "none"
             \/ sweep'.write = "fresh" /\ Doing("pause", h),
             Exists(h) /\ h \notin explained' =>
               \/ Doing("pause", h) /\ sweep'.write = "fresh" /\ StoppedByUs(h)
               \/ Doing("resume", h) /\ ~StoppedByUs(h)
      PROVE  NotesInv'
  <2>1. Typed' BY <1>1, <1>6 DEF NotesInv, Typed
  <2>2. \A a, g : Doing(a, g)' <=> Doing(a, g) BY <1>6 DEF Doing
  <2>3. Purpose' BY <1>1, <1>6, <2>2 DEF Purpose
  <2>4. ASSUME NEW g \in Torrents, Exists(g)', g \notin explained' PROVE Truth(g)'
    <3>1. CASE g # h
      <4>1. ~InHand(g)' BY <1>1, <2>2, <3>1, OneInHand DEF InHand
      <4> QED BY <1>1, <1>3, <2>4, <3>1, <4>1, Bystander DEF Noted, Dropping
    <3>2. CASE g = h
      <4>1. Exists(h) /\ h \notin explained' BY <1>1, <2>4, <3>2 DEF Exists
      <4>2. StoppedByUs(h)' <=> StoppedByUs(h) BY <1>1 DEF StoppedByUs, Paused
      <4>3. ~Verifying("pause", h)' /\ ~Verifying("resume", h)' BY <1>6 DEF Verifying
      <4>4. CASE Doing("pause", h) /\ sweep'.write = "fresh" /\ StoppedByUs(h)
        <5>1. Noting("pause", h)' BY <1>6, <2>2, <4>4 DEF Noting
        <5>2. ~Noting("resume", h)' BY <2>2, <4>4, OneInHand DEF Noting
        <5>3. Truth(h)' BY <4>2, <4>3, <4>4, <5>1, <5>2 DEF Truth
        <5> QED BY <3>2, <5>3
      <4>5. CASE Doing("resume", h) /\ ~StoppedByUs(h)
        <5>1. Noting("resume", h)' BY <1>6, <2>2, <4>5 DEF Noting
        <5>2. ~Noting("pause", h)' BY <2>2, <4>5, OneInHand DEF Noting
        <5>3. Truth(h)' BY <4>2, <4>3, <4>5, <5>1, <5>2 DEF Truth
        <5> QED BY <3>2, <5>3
      <4> QED BY <1>6, <4>1, <4>4, <4>5
    <3> QED BY <3>1, <3>2
  <2> QED BY <2>1, <2>3, <2>4 DEF NotesInv, Truths
<1>7. /\ IsSweep(At("remember")) /\ At("remember").pc = "remember"
      /\ At("remember").todo = sweep.todo /\ At("remember").write = "none"
  BY <1>2, MovesOn
<1> DEFINE f == [At("remember") EXCEPT !.write = "fresh"]
<1>8. IsSweep(f) /\ f.pc = "remember" /\ f.todo = sweep.todo /\ f.write = "fresh"
  BY <1>7 DEF IsSweep, IsRecord
<1>9. CASE Doing("pause", h) /\ Exists(h) /\ Paused(h) /\ sweep' = f /\ UNCHANGED explained
  <2> HIDE DEF f
  <2>1. h \notin explained' => StoppedByUs(h) BY <1>4, <1>9
  <2> QED BY <1>6, <1>8, <1>9, <2>1
<1>10. CASE Doing("pause", h) /\ Exists(h) /\ ~Paused(h) /\ sweep' = Done /\ UNCHANGED explained
  <2>1. h \notin explained' => Settled(h) BY <1>4, <1>10 DEF Settled, StoppedByUs
  <2> QED BY <1>5, <1>10, <2>1
<1>11. CASE Doing("resume", h) /\ Exists(h) /\ sweep' = At("remember")
  <2>1. h \notin explained' => ~StoppedByUs(h) BY <1>1, <1>4, <1>11
  <2> QED BY <1>6, <1>7, <1>11, <2>1
<1>12. CASE Doing("resume", h) /\ Exists(h) /\ sweep' = Done /\ (Noted(h) => h \in explained')
  <2>1. h \notin explained' => Settled(h) BY <1>1, <1>4, <1>12 DEF Settled
  <2> QED BY <1>5, <1>12, <2>1
<1>13. CASE sweep' = At("remember") /\ (~Exists(h) \/ h \in explained')
  BY <1>6, <1>7, <1>13
<1> QED BY <1>9, <1>10, <1>11, <1>12, <1>13 DEF Verify, Noted

\* The note is written, or the write fails and is explained.
LEMMA RememberKeeps == ASSUME NotesInv, NEW h \in Torrents, Remember(h) PROVE NotesInv'
<1>1. /\ UNCHANGED <<engine, off, stopper>> /\ sweep.pc = "remember" /\ sweep' = Done
      /\ Doing("pause", h) \/ Doing("resume", h)
      /\ \/ /\ note' = [note EXCEPT ![h] = sweep.write]
            /\ explained' = IF sweep.write = "fresh" <=> StoppedByUs(h)
                              THEN explained \ {h} ELSE explained
         \/ explained' = explained \cup {h} /\ UNCHANGED note
  BY DEF Remember
<1>2. note \in [Torrents -> {"none", "fresh", "old"}] /\ sweep.write \in {"none", "fresh"}
  BY DEF NotesInv, Typed
<1>3. /\ note' \in [Torrents -> {"none", "fresh", "old"}]
      /\ \A g \in Torrents : g # h => note'[g] = note[g] /\ (g \in explained => g \in explained')
  BY <1>1, <1>2
<1>4. Typed' BY <1>1, <1>3, DoneIs DEF NotesInv, Typed
<1>5. \A g : g # h => ~InHand(g) BY <1>1, OneInHand DEF InHand
<1>6. ASSUME Exists(h), h \notin explained PROVE sweep.write = "fresh" <=> StoppedByUs(h)
  <2>1. Truth(h) BY <1>6, Known
  <2>2. ~Verifying("pause", h) /\ ~Verifying("resume", h) BY <1>1 DEF Verifying
  <2>3. CASE Doing("pause", h)
    <3>1. Noting("pause", h) BY <1>1, <2>3 DEF Noting
    <3>2. ~Noting("resume", h) BY <2>3, OneInHand DEF Noting
    <3> QED BY <2>1, <2>2, <3>1, <3>2 DEF Truth
  <2>4. CASE Doing("resume", h)
    <3>1. Noting("resume", h) BY <1>1, <2>4 DEF Noting
    <3>2. ~Noting("pause", h) BY <2>4, OneInHand DEF Noting
    <3>3. ~StoppedByUs(h) BY <2>1, <2>2, <3>1, <3>2 DEF Truth
    <3>4. \A g \in Torrents : ~Doing("pause", g) BY <2>4, OneInHand
    <3>5. sweep.write = "none" BY <3>4 DEF NotesInv, Purpose
    <3> QED BY <3>3, <3>5
  <2> QED BY <1>1, <2>3, <2>4
<1>7. ASSUME NEW g \in Torrents, Exists(g)', g \notin explained' PROVE Settled(g)'
  <2>1. CASE g # h BY <1>1, <1>3, <1>5, <1>7, <2>1, SettledKeeps DEF Noted, Dropping
  <2>2. CASE g = h
    <3>1. Exists(h) BY <1>1, <1>7, <2>2 DEF Exists
    <3>2. note' = [note EXCEPT ![h] = sweep.write] BY <1>1, <1>7, <2>2
    <3>3. sweep.write = "fresh" <=> StoppedByUs(h) BY <1>1, <1>6, <1>7, <2>2, <3>1
    <3>4. StoppedByUs(h)' <=> StoppedByUs(h) BY <1>1 DEF StoppedByUs, Paused
    <3>5. Noted(h)' <=> StoppedByUs(h) BY <1>2, <3>2, <3>3 DEF Noted
    <3>6. Settled(h)' BY <3>4, <3>5 DEF Settled
    <3> QED BY <2>2, <3>6
  <2> QED BY <2>1, <2>2
<1> QED BY <1>1, <1>4, <1>7, DoneIs, Rests

----------------------------------------------------------------------------
LEMMA Step == NotesInv /\ [Next]_vars => NotesInv'
<1> SUFFICES ASSUME NotesInv, [Next]_vars PROVE NotesInv' OBVIOUS
<1>1. CASE Tick \/ SweepStep
  BY <1>1, TickKeeps, CleanUpKeeps, ForgetKeeps, CommandKeeps, CommandIgnoredKeeps, VerifyKeeps,
     RememberKeeps
  DEF SweepStep
<1>2. CASE DeactivateStep \/ \E resume \in BOOLEAN : Deactivate(resume)
  BY <1>2, DeactivateKeeps, DeactivateResumeKeeps, DeactivateDeleteKeeps DEF DeactivateStep
<1>3. CASE Restart BY <1>3, RestartKeeps
<1>4. CASE \E h \in Torrents : EngineStart(h) \/ Download(h) \/ Person(h) \/ Parking(h)
  BY <1>4, ActorsKeep
<1>5. CASE \E h \in Torrents : GrowOld(h) BY <1>5, GrowOldKeeps
<1>6. CASE \/ Sync \/ Window \/ Activate \/ \E m \in {"native", "observe"} : SetMode(m)
           \/ \E p \in Policies : SetPolicy(p)
           \/ \E h \in Torrents : \/ Seed(h)
                                  \/ \E k \in Kinds : SetOverride(h, k) \/ ClearOverride(h, k)
  BY <1>6, UntouchedKeeps DEF Sync, Window, Activate, SetMode, SetPolicy, Seed, SetOverride, ClearOverride, db
<1>7. CASE UNCHANGED vars BY <1>7, UntouchedKeeps DEF vars, db
<1> QED BY <1>1, <1>2, <1>3, <1>4, <1>5, <1>6, <1>7 DEF Next

\* In every reachable state the notes are right of each torrent at rest, and what is
\* about to be written of the one in hand is right too, or the error is explained.
THEOREM NotesInvariant == Spec => []NotesInv
BY Initially, Step, PTL DEF Spec

\* TorrentSchedulerState.schedulerPausedAt, `Set only while the SCHEDULER is the reason
\* this torrent is paused': outside a call, a torrent has a note exactly when the
\* scheduler stopped it, for whatever plans, unless one of the explained cases occurred.
THEOREM NotesTruthful == Spec => []NotesTellTheTruth
<1>1. NotesInv => NotesTellTheTruth
  <2> SUFFICES ASSUME NotesInv, NEW h \in Torrents, Exists(h), ~InFlight(h), h \notin explained
               PROVE  note[h] # "none" <=> StoppedByUs(h)
    BY DEF NotesTellTheTruth
  <2>1. ~InHand(h) /\ ~Dropping BY DEF InFlight, InHand, Doing, Dropping
  <2>2. Truth(h) BY Known
  <2>3. Settled(h) BY <2>1, <2>2, AtRest
  <2> QED BY <2>1, <2>3 DEF Settled, Noted
<1> QED BY <1>1, NotesInvariant, PTL

-----------------------------------------------------------------------------
(* The order of the walk.                                                  *)

\* What a plan is made from: finitely many torrents, told apart by hash and rank.
Plannable(S) ==
  /\ IsFiniteSet(S) /\ policy \in Policies
  /\ \A t \in S : /\ t.score \in Nat /\ t.rank \in Nat /\ t.occ \in OccupancyClass
                  /\ t.target \in Verdict /\ t.done \in BOOLEAN
  /\ \A t, u \in S : t.hash = u.hash \/ t.rank = u.rank => t = u

\* A bijection counts.
LEMMA BijectionCounts ==
  ASSUME NEW A, NEW B, NEW f \in Bijection(A, B), IsFiniteSet(A)
  PROVE  IsFiniteSet(B) /\ Cardinality(B) = Cardinality(A)
BY FS_Bijection DEF ExistsBijection

LEMMA BeforeIs ==
  ASSUME NEW a, NEW b
  PROVE  Before(a, b) <=> \/ a.score > b.score
                          \/ a.score = b.score /\ IsActive(a) /\ ~IsActive(b)
                          \/ a.score = b.score /\ (IsActive(a) <=> IsActive(b)) /\ a.rank < b.rank
BY DEF Before, IsActive, holdsTotalActiveSlot

\* Before is a strict total order.
LEMMA BeforeOrders ==
  ASSUME NEW S, Plannable(S), NEW a \in S, NEW b \in S
  PROVE  /\ a # b => Before(a, b) \/ Before(b, a)
         /\ ~(Before(a, b) /\ Before(b, a))
         /\ \A c \in S : Before(a, b) /\ Before(b, c) => Before(a, c)
<1>1. a.score \in Nat /\ b.score \in Nat /\ a.rank \in Nat /\ b.rank \in Nat BY DEF Plannable
<1>2. a # b => a.rank # b.rank BY DEF Plannable
<1>3. a # b => Before(a, b) \/ Before(b, a) BY <1>1, <1>2, BeforeIs
<1>4. ~(Before(a, b) /\ Before(b, a)) BY <1>1, BeforeIs
<1>5. ASSUME NEW c \in S, Before(a, b), Before(b, c) PROVE Before(a, c)
  <2>1. c.score \in Nat /\ c.rank \in Nat BY DEF Plannable
  <2> QED BY <1>1, <1>5, <2>1, BeforeIs
<1> QED BY <1>3, <1>4, <1>5

\* Every finite set of torrents has an order that Before agrees with: each at the
\* place given by how many come before it.
LEMMA OrderExists ==
  ASSUME NEW S, Plannable(S), NEW C, C \subseteq S
  PROVE  \E s \in [1..Cardinality(C) -> C] :
           \A i, j \in DOMAIN s : i < j => Before(s[i], s[j])
<1> DEFINE n == Cardinality(C)
           B(t) == {u \in C : Before(u, t)}
           pos == [t \in C |-> Cardinality(B(t)) + 1]
           I == {pos[t] : t \in C}
<1>1. IsFiniteSet(C) /\ n \in Nat BY FS_Subset, FS_CardinalityType DEF Plannable
<1>2. \A t \in C : IsFiniteSet(B(t)) /\ Cardinality(B(t)) \in Nat
  <2> TAKE t \in C
  <2>1. B(t) \subseteq C OBVIOUS
  <2> QED BY <1>1, <2>1, FS_Subset, FS_CardinalityType
<1>3. ASSUME NEW a \in C, NEW b \in C, Before(a, b) PROVE pos[a] < pos[b]
  <2>1. B(a) \subseteq B(b) BY <1>3, BeforeOrders
  <2>2. a \in B(b) /\ a \notin B(a) BY <1>3, BeforeOrders
  <2> HIDE DEF B
  <2>3. Cardinality(B(a)) <= Cardinality(B(b)) /\ Cardinality(B(a)) # Cardinality(B(b))
    BY <1>2, <2>1, <2>2, FS_Subset
  <2> QED BY <1>2, <2>3
<1>4. \A t \in C : pos[t] \in 1..n
  <2> TAKE t \in C
  <2>1. B(t) \subseteq C \ {t}
    <3>1. ~Before(t, t) BY BeforeOrders
    <3> QED BY <3>1
  <2> HIDE DEF B
  <2>2. IsFiniteSet(C \ {t}) /\ Cardinality(C \ {t}) = n - 1 BY <1>1, FS_RemoveElement
  <2>3. Cardinality(B(t)) <= n - 1 BY <2>1, <2>2, FS_Subset
  <2> QED BY <1>1, <1>2, <2>3
<1> HIDE DEF B, n
<1>5. \A a, b \in C : pos[a] = pos[b] => a = b
  <2> TAKE a, b \in C
  <2>1. pos[a] \in Int /\ pos[b] \in Int BY <1>1, <1>4
  <2> HIDE DEF pos
  <2> QED BY <1>3, <2>1, BeforeOrders
<1>6. pos \in [C -> I] /\ DOMAIN pos = C OBVIOUS
<1>7. I = 1..n
  <2>1. pos \in Bijection(C, I) BY <1>5, <1>6 DEF Bijection, Injection, Surjection, IsInjective
  <2>2. IsFiniteSet(I) /\ Cardinality(I) = n BY <1>1, <2>1, BijectionCounts DEF n
  <2>3. I \subseteq 1..n BY <1>4
  <2>4. IsFiniteSet(1..n) /\ Cardinality(1..n) = n BY <1>1, FS_Interval
  <2> HIDE DEF I
  <2> QED BY <2>2, <2>3, <2>4, FS_Subset
<1> DEFINE s == [k \in 1..n |-> CHOOSE t \in C : pos[t] = k]
<1> HIDE DEF pos
<1>8. \A k \in 1..n : s[k] \in C /\ pos[s[k]] = k
  <2> TAKE k \in 1..n
  <2>1. \E t \in C : pos[t] = k BY <1>7
  <2> QED BY <2>1
<1>9. s \in [1..n -> C] BY <1>8
<1> HIDE DEF s
<1>10. \A i, j \in DOMAIN s : i < j => Before(s[i], s[j])
  <2> SUFFICES ASSUME NEW i \in 1..n, NEW j \in 1..n, i < j PROVE Before(s[i], s[j])
    BY <1>9
  <2>1. s[i] \in C /\ s[j] \in C /\ pos[s[i]] = i /\ pos[s[j]] = j BY <1>8
  <2>2. s[i] # s[j] BY <2>1
  <2>3. ~Before(s[j], s[i]) BY <1>1, <1>3, <2>1
  <2> QED BY <2>1, <2>2, <2>3, BeforeOrders
<1> QED BY <1>9, <1>10 DEF n

\* The order the planner walks.
LEMMA RankedIs ==
  ASSUME NEW S, Plannable(S), NEW C, C \subseteq S
  PROVE  /\ Cardinality(C) \in Nat /\ Len(Ranked(C)) = Cardinality(C)
         /\ Ranked(C) \in [1..Len(Ranked(C)) -> C]
         /\ \A i, j \in 1..Len(Ranked(C)) : Before(Ranked(C)[i], Ranked(C)[j]) <=> i < j
         /\ \A i, j \in 1..Len(Ranked(C)) : Ranked(C)[i] = Ranked(C)[j] => i = j
         /\ \A t \in C : \E i \in 1..Len(Ranked(C)) : Ranked(C)[i] = t
<1> DEFINE o == Ranked(C)
           n == Cardinality(C)
<1>1. IsFiniteSet(C) /\ n \in Nat BY FS_Subset, FS_CardinalityType DEF Plannable
<1>2. o \in [1..n -> C] /\ \A i, j \in DOMAIN o : i < j => Before(o[i], o[j])
  BY OrderExists DEF Ranked
<1> HIDE DEF o
<1>3. \A i, j \in 1..n : i # j => o[i] # o[j]
  <2> TAKE i, j \in 1..n
  <2>1. o[i] \in S /\ o[j] \in S BY <1>2
  <2>2. i < j => Before(o[i], o[j]) BY <1>2
  <2>3. j < i => Before(o[j], o[i]) BY <1>2
  <2> QED BY <1>1, <2>1, <2>2, <2>3, BeforeOrders
<1>4. Len(o) = n /\ DOMAIN o = 1..n
  <2>1. o \in Seq(C) BY <1>1, <1>2
  <2> QED BY <1>1, <1>2, <2>1
<1>5. \A i, j \in 1..n : Before(o[i], o[j]) <=> i < j
  <2> TAKE i, j \in 1..n
  <2>1. o[i] \in S /\ o[j] \in S BY <1>2
  <2>2. CASE i < j BY <1>2, <1>4, <2>2
  <2>3. CASE j < i
    <3>1. Before(o[j], o[i]) BY <1>2, <1>4, <2>3
    <3> QED BY <1>1, <2>1, <2>3, <3>1, BeforeOrders
  <2>4. CASE i = j
    <3>1. ~Before(o[i], o[i]) BY <2>1, BeforeOrders
    <3> QED BY <1>1, <2>4, <3>1
  <2> QED BY <1>1, <2>2, <2>3, <2>4
<1>6. \A t \in C : \E i \in 1..n : o[i] = t
  <2> DEFINE I == {o[i] : i \in 1..n}
  <2>1. o \in Bijection(1..n, I) BY <1>2, <1>3 DEF Bijection, Injection, Surjection, IsInjective
  <2>2. IsFiniteSet(1..n) /\ Cardinality(1..n) = n BY <1>1, FS_Interval
  <2>3. Cardinality(I) = n /\ I \subseteq C
    BY <1>2, <2>1, <2>2, BijectionCounts
  <2> HIDE DEF I
  <2>4. I = C BY <1>1, <2>3, FS_Subset
  <2> QED BY <2>4 DEF I
<1> QED BY <1>1, <1>2, <1>3, <1>4, <1>5, <1>6 DEF o

-----------------------------------------------------------------------------
(* The walk.                                                               *)

\* Induction over the natural numbers, for the set of those with the property.
LEMMA NatSetInduction ==
  ASSUME NEW S, 0 \in S, \A n \in Nat : n \in S => n + 1 \in S
  PROVE  Nat \subseteq S
<1> SUFFICES ASSUME Nat \ S # {} PROVE FALSE OBVIOUS
<1>1. \E x \in Nat \ S : \A y \in Nat \ S : ~ (<<y, x>> \in OpToRel(<, Nat))
  BY NatLessThanWellFounded, WFMin
<1>2. PICK x \in Nat \ S : \A y \in Nat \ S : ~(y < x) BY <1>1 DEF OpToRel
<1>3. x # 0 /\ x - 1 \in Nat BY <1>2
<1>4. x - 1 \in S BY <1>2, <1>3
<1> QED BY <1>2, <1>3, <1>4

\* The recursion of planEngine.
Order(S) == Ranked(Contenders(S))
WalkStep(S, f, k) == IF k = 0 THEN Taken(S) ELSE Consider(f[k - 1], Order(S)[k])
IsWalk(S, n, f) == f = [k \in 0..n |-> WalkStep(S, f, k)]
Size(S) == Len(Order(S))
Walk(S) == CHOOSE f : IsWalk(S, Size(S), f)

LEMMA PlanIsWalk == ASSUME NEW S PROVE planEngine(S) = Walk(S)[Size(S)].steps
BY DEF planEngine, Walk, IsWalk, WalkStep, Size, Order

\* It has a solution, by extending the one for n to n + 1.
LEMMA WalkExists ==
  ASSUME NEW S, NEW n \in Nat
  PROVE  \E f : IsWalk(S, n, f)
<1> DEFINE N == {k \in Nat : \E f : IsWalk(S, k, f)}
<1>1. 0 \in N
  <2> DEFINE f == [i \in 0..0 |-> Taken(S)]
  <2>1. \A i \in 0..0 : i = 0 OBVIOUS
  <2>2. \A i \in 0..0 : WalkStep(S, f, i) = Taken(S) BY <2>1 DEF WalkStep
  <2>3. IsWalk(S, 0, f) BY <2>2 DEF IsWalk
  <2> QED BY <2>3
<1>2. ASSUME NEW k \in Nat, k \in N PROVE k + 1 \in N
  <2>1. PICK f : IsWalk(S, k, f) BY <1>2
  <2> DEFINE h == [i \in 0..(k + 1) |-> WalkStep(S, f, i)]
  <2>2. ASSUME NEW i \in 0..(k + 1) PROVE WalkStep(S, f, i) = WalkStep(S, h, i)
    <3>1. CASE i = 0 BY <3>1 DEF WalkStep
    <3>2. CASE i # 0
      <4>1. i - 1 \in 0..k /\ i - 1 \in 0..(k + 1) BY <3>2
      <4>2. f[i - 1] = WalkStep(S, f, i - 1) BY <2>1, <4>1 DEF IsWalk
      <4>3. h[i - 1] = WalkStep(S, f, i - 1) BY <4>1
      <4> HIDE DEF h
      <4> QED BY <3>2, <4>2, <4>3 DEF WalkStep
    <3> QED BY <3>1, <3>2
  <2>3. h = [i \in 0..(k + 1) |-> WalkStep(S, f, i)] OBVIOUS
  <2> HIDE DEF h
  <2>4. IsWalk(S, k + 1, h) BY <2>2, <2>3 DEF IsWalk
  <2> QED BY <2>4
<1>3. Nat \subseteq N
  <2> HIDE DEF N
  <2> QED BY <1>1, <1>2, NatSetInduction
<1> QED BY <1>3

LEMMA WalkIs ==
  ASSUME NEW S, Size(S) \in Nat
  PROVE  /\ Walk(S)[0] = Taken(S)
         /\ \A k \in 1..Size(S) : Walk(S)[k] = Consider(Walk(S)[k - 1], Order(S)[k])
<1>1. IsWalk(S, Size(S), Walk(S)) BY WalkExists DEF Walk
<1>2. \A k \in 0..Size(S) : Walk(S)[k] = WalkStep(S, Walk(S), k) BY <1>1 DEF IsWalk
<1>3. 0 \in 0..Size(S) /\ \A k \in 1..Size(S) : k \in 0..Size(S) /\ k # 0 OBVIOUS
<1> QED BY <1>2, <1>3 DEF WalkStep

\* What the walk carries: slots and actions are counted, steps name a torrent.
Account(H) == [downloads : Nat, seeds : Nat, total : Nat, actions : Nat, steps : Seq(Actions \X H)]

\* What each decision says of the torrent and of the walk so far.
LEMMA DecisionIs ==
  ASSUME NEW acc, NEW t, t.target \in Verdict, policy \in Policies
  PROVE  LET d == Decision(acc, t)
             spent == ~(acc.actions < Budget)
         IN  /\ d \in Actions \cup {"active", "wait"}
             /\ d = "remove" => ~t.keep /\ PolicyRemoves(t)
             /\ d = "pause" => ~t.keep /\ (PolicyStops(t) \/ (~spent /\ ~SlotFree(acc, t)))
             /\ d = "active" =>
                  \/ SlotFree(acc, t) \/ t.keep \/ t.force \/ t.recent \/ PolicyKeeps(t) \/ spent
             /\ d = "active" /\ ~IsActive(t) => spent
             /\ d = "resume" => ~spent /\ ~IsActive(t) /\ (t.force \/ SlotFree(acc, t))
             /\ d = "wait" => ~IsActive(t) /\ ((~t.done /\ ~t.fresh) \/ ~SlotFree(acc, t) \/ spent)
<1> DEFINE seed == IF t.done /\ IsActive(t) /\ AfterTarget # "none" /\ ~t.keep
                     THEN seedTargetDecision(t) ELSE "null"
           spent == ~(acc.actions < Budget)
           d == Decision(acc, t)
<1>1. /\ seed \in {"null", "active", "pause", "remove"}
      /\ seed # "null" => ~t.keep /\ IsActive(t)
      /\ seed = "remove" => PolicyRemoves(t)
      /\ seed = "pause" => PolicyStops(t)
      /\ seed = "active" => PolicyKeeps(t)
  <2>1. AfterTarget \in Afters BY PolicyAssumption DEF AfterTarget
  <2>2. seed = IF SeedOf(t) /\ ~t.keep THEN seedTargetDecision(t) ELSE "null" BY DEF SeedOf
  <2>3. CASE SeedOf(t) /\ ~t.keep
    BY <2>1, <2>2, <2>3
    DEF seedTargetDecision, Verdict, Afters, SeedOf, PolicyRemoves, PolicyStops, PolicyKeeps,
        Released
  <2>4. CASE ~(SeedOf(t) /\ ~t.keep)
    <3>1. seed = "null" BY <2>2, <2>4
    <3> HIDE DEF seed
    <3> QED BY <3>1
  <2> QED BY <2>3, <2>4
<1>2. d = IF seed # "null" THEN seed
          ELSE IF t.force THEN IF ~IsActive(t) /\ ~spent THEN "resume" ELSE "active"
          ELSE IF IsActive(t)
            THEN IF SlotFree(acc, t) \/ t.keep \/ t.recent \/ spent THEN "active" ELSE "pause"
          ELSE IF (t.done \/ t.fresh) /\ SlotFree(acc, t) /\ ~spent THEN "resume" ELSE "wait"
  BY DEF Decision
<1> HIDE DEF seed, spent, d
<1>3. CASE seed # "null"
  <2>1. d = seed BY <1>2, <1>3
  <2> QED BY <1>1, <1>3, <2>1 DEF Actions, spent, d
<1>4. CASE seed = "null" /\ t.force
  <2>1. d = IF ~IsActive(t) /\ ~spent THEN "resume" ELSE "active" BY <1>2, <1>4
  <2> QED BY <1>4, <2>1 DEF Actions, spent, d
<1>5. CASE seed = "null" /\ ~t.force /\ IsActive(t)
  <2>1. d = IF SlotFree(acc, t) \/ t.keep \/ t.recent \/ spent THEN "active" ELSE "pause" BY <1>2, <1>5
  <2> QED BY <1>5, <2>1 DEF Actions, spent, d
<1>6. CASE seed = "null" /\ ~t.force /\ ~IsActive(t)
  <2>1. d = IF (t.done \/ t.fresh) /\ SlotFree(acc, t) /\ ~spent THEN "resume" ELSE "wait" BY <1>2, <1>6
  <2> QED BY <1>6, <2>1 DEF Actions, spent, d
<1> QED BY <1>3, <1>4, <1>5, <1>6

LEMMA AccountFields ==
  ASSUME NEW H, NEW acc \in Account(H)
  PROVE  /\ acc.downloads \in Nat /\ acc.seeds \in Nat /\ acc.total \in Nat /\ acc.actions \in Nat
         /\ acc.steps \in Seq(Actions \X H)
BY DEF Account

\* The record with these fields.
Entry(a, b, c, d, e) == [downloads |-> a, seeds |-> b, total |-> c, actions |-> d, steps |-> e]

LEMMA EntryIs ==
  ASSUME NEW H, NEW acc \in Account(H)
  PROVE  acc = Entry(acc.downloads, acc.seeds, acc.total, acc.actions, acc.steps)
BY DEF Account, Entry

LEMMA ActEntry ==
  ASSUME NEW a, NEW b, NEW c, NEW d, NEW e, NEW t, NEW action
  PROVE  Act(Entry(a, b, c, d, e), t, action) = Entry(a, b, c, d + 1, Append(e, <<action, t.hash>>))
<1> DEFINE x == Entry(a, b, c, d, e)
           p == d + 1
           q == Append(e, <<action, t.hash>>)
<1>1. x.actions = d /\ x.steps = e BY DEF Entry
<1>2. Act(x, t, action) = [x EXCEPT !.actions = p, !.steps = q]
  <2> HIDE DEF x
  <2> QED BY <1>1 DEF Act
<1> HIDE DEF p, q
<1>3. [x EXCEPT !.actions = p] = Entry(a, b, c, p, e) BY DEF Entry
<1>4. [Entry(a, b, c, p, e) EXCEPT !.steps = q] = Entry(a, b, c, p, q) BY DEF Entry
<1> HIDE DEF x
<1> QED BY <1>2, <1>3, <1>4 DEF p, q, x

LEMMA OccupyEntry ==
  ASSUME NEW a, NEW b, NEW c, NEW d, NEW e, NEW t
  PROVE  Occupy(Entry(a, b, c, d, e), t)
         = Entry(a + (IF t.done THEN 0 ELSE 1), b + (IF t.done THEN 1 ELSE 0), c + 1, d, e)
<1> DEFINE x == Entry(a, b, c, d, e)
           p == a + (IF t.done THEN 0 ELSE 1)
           q == b + (IF t.done THEN 1 ELSE 0)
           r == c + 1
<1>1. x.downloads = a /\ x.seeds = b /\ x.total = c BY DEF Entry
<1>2. Occupy(x, t) = [x EXCEPT !.downloads = p, !.seeds = q, !.total = r]
  <2> HIDE DEF x
  <2> QED BY <1>1 DEF Occupy
<1> HIDE DEF p, q, r
<1>3. [x EXCEPT !.downloads = p] = Entry(p, b, c, d, e) BY DEF Entry
<1>4. [Entry(p, b, c, d, e) EXCEPT !.seeds = q] = Entry(p, q, c, d, e) BY DEF Entry
<1>5. [Entry(p, q, c, d, e) EXCEPT !.total = r] = Entry(p, q, r, d, e) BY DEF Entry
<1> HIDE DEF x
<1>6. [x EXCEPT !.downloads = p, !.seeds = q, !.total = r] = Entry(p, q, r, d, e)
  BY <1>3, <1>4, <1>5
<1>7. Occupy(x, t) = Entry(p, q, r, d, e) BY <1>2, <1>6
<1> QED BY <1>7 DEF p, q, r, x

\* An action is counted and noted down, and takes no slot.
LEMMA ActIs ==
  ASSUME NEW H, NEW acc \in Account(H), NEW t, t.hash \in H, NEW action \in Actions
  PROVE  LET x == Act(acc, t, action)
         IN  /\ x \in Account(H) /\ x.downloads = acc.downloads /\ x.seeds = acc.seeds
             /\ x.total = acc.total /\ x.actions = acc.actions + 1
             /\ x.steps = Append(acc.steps, <<action, t.hash>>)
<1> DEFINE q == Append(acc.steps, <<action, t.hash>>)
           p == acc.actions + 1
           x == Act(acc, t, action)
<1>1. acc.steps \in Seq(Actions \X H) /\ acc.actions \in Nat BY AccountFields
<1>2. q \in Seq(Actions \X H) /\ p \in Nat BY <1>1
<1>3. x = [downloads |-> acc.downloads, seeds |-> acc.seeds, total |-> acc.total,
           actions |-> p, steps |-> q]
  <2> DEFINE a == acc.downloads
             b == acc.seeds
             c == acc.total
             d == acc.actions
             e == acc.steps
  <2>1. acc = Entry(a, b, c, d, e) BY EntryIs
  <2> HIDE DEF a, b, c, d, e
  <2>2. Act(acc, t, action) = Act(Entry(a, b, c, d, e), t, action) BY <2>1
  <2>3. Act(acc, t, action) = Entry(a, b, c, d + 1, Append(e, <<action, t.hash>>)) BY <2>2, ActEntry
  <2> QED BY <2>3 DEF Entry, a, b, c, d, e
<1> HIDE DEF p, q, x
<1>4. x \in Account(H) BY <1>2, <1>3, AccountFields DEF Account
<1> QED BY <1>3, <1>4 DEF p, q, x

\* A slot is taken of the total and of one kind.
LEMMA OccupyIs ==
  ASSUME NEW H, NEW acc \in Account(H), NEW t, t.done \in BOOLEAN
  PROVE  LET x == Occupy(acc, t)
         IN  /\ x \in Account(H) /\ x.actions = acc.actions /\ x.steps = acc.steps
             /\ x.total = acc.total + 1
             /\ x.downloads = acc.downloads + (IF t.done THEN 0 ELSE 1)
             /\ x.seeds = acc.seeds + (IF t.done THEN 1 ELSE 0)
<1> DEFINE p == acc.downloads + (IF t.done THEN 0 ELSE 1)
           q == acc.seeds + (IF t.done THEN 1 ELSE 0)
           r == acc.total + 1
           x == Occupy(acc, t)
<1>1. acc.downloads \in Nat /\ acc.seeds \in Nat /\ acc.total \in Nat BY AccountFields
<1>2. p \in Nat /\ q \in Nat /\ r \in Nat
  <2> HIDE DEF x
  <2> QED BY <1>1
<1>3. x = [downloads |-> p, seeds |-> q, total |-> r, actions |-> acc.actions, steps |-> acc.steps]
  <2> DEFINE a == acc.downloads
             b == acc.seeds
             c == acc.total
             d == acc.actions
             e == acc.steps
  <2>1. acc = Entry(a, b, c, d, e) BY EntryIs
  <2> HIDE DEF a, b, c, d, e
  <2>2. Occupy(acc, t) = Occupy(Entry(a, b, c, d, e), t) BY <2>1
  <2>3. Occupy(acc, t)
        = Entry(a + (IF t.done THEN 0 ELSE 1), b + (IF t.done THEN 1 ELSE 0), c + 1, d, e)
    BY <2>2, OccupyEntry
  <2> QED BY <2>3 DEF Entry, a, b, c, d, e
<1> HIDE DEF p, q, r, x
<1>4. x \in Account(H) BY <1>2, <1>3, AccountFields DEF Account
<1> QED BY <1>3, <1>4 DEF p, q, r, x

\* What a decision costs.
LEMMA ConsiderIs ==
  ASSUME NEW H, NEW acc \in Account(H), NEW t, t.hash \in H, t.done \in BOOLEAN, t.target \in Verdict
  PROVE  LET d == Decision(acc, t)
             c == Consider(acc, t)
             takes == d \in {"active", "resume"}
         IN  /\ c \in Account(H)
             /\ c.steps = IF d \in Actions THEN Append(acc.steps, <<d, t.hash>>) ELSE acc.steps
             /\ c.actions = acc.actions + (IF d \in Actions THEN 1 ELSE 0)
             /\ c.total = acc.total + (IF takes THEN 1 ELSE 0)
             /\ c.downloads = acc.downloads + (IF takes /\ ~t.done THEN 1 ELSE 0)
             /\ c.seeds = acc.seeds + (IF takes /\ t.done THEN 1 ELSE 0)
<1> DEFINE d == Decision(acc, t)
           c == Consider(acc, t)
           acted == IF d \in Actions THEN Act(acc, t, d) ELSE acc
<1>0. \A x \in Nat : x + 0 = x OBVIOUS
<1>1. c = IF d \in {"active", "resume"} THEN Occupy(acted, t) ELSE acted BY DEF Consider
<1> HIDE DEF d, c
<1>2. /\ acted \in Account(H) /\ acted.total = acc.total /\ acted.downloads = acc.downloads
      /\ acted.seeds = acc.seeds /\ acted.actions = acc.actions + (IF d \in Actions THEN 1 ELSE 0)
      /\ acted.steps = IF d \in Actions THEN Append(acc.steps, <<d, t.hash>>) ELSE acc.steps
  <2>1. CASE d \in Actions
    <3>1. acted = Act(acc, t, d) BY <2>1
    <3> HIDE DEF acted
    <3> QED BY <2>1, <3>1, ActIs
  <2>2. CASE d \notin Actions
    <3>1. acted = acc BY <2>2
    <3> HIDE DEF acted
    <3> QED BY <1>0, <2>2, <3>1, AccountFields
  <2> QED BY <2>1, <2>2
<1> HIDE DEF acted
<1>3. CASE d \in {"active", "resume"}
  <2>1. c = Occupy(acted, t) BY <1>1, <1>3
  <2>2. c \in Account(H) /\ c.steps = acted.steps /\ c.actions = acted.actions /\ c.total = acted.total + 1
        /\ c.downloads = acted.downloads + (IF t.done THEN 0 ELSE 1)
        /\ c.seeds = acted.seeds + (IF t.done THEN 1 ELSE 0)
    BY <1>2, <2>1, OccupyIs
  <2> QED BY <1>2, <1>3, <2>2 DEF c, d
<1>4. CASE d \notin {"active", "resume"}
  <2>1. c = acted BY <1>1, <1>4
  <2>2. acc.total \in Nat /\ acc.downloads \in Nat /\ acc.seeds \in Nat BY AccountFields
  <2> QED BY <1>0, <1>2, <1>4, <2>1, <2>2 DEF c, d
<1> QED BY <1>3, <1>4

-----------------------------------------------------------------------------
(* What the walk counts.                                                   *)

\* The places of A that the walk has passed after k steps.
First(A, k) == A \cap (1..k)

LEMMA FirstGrows ==
  ASSUME NEW A, NEW k \in Nat \ {0}
  PROVE  /\ IsFiniteSet(First(A, k)) /\ Cardinality(First(A, k)) \in Nat
         /\ First(A, k) = IF k \in A THEN First(A, k - 1) \cup {k} ELSE First(A, k - 1)
         /\ Cardinality(First(A, k)) = Cardinality(First(A, k - 1)) + (IF k \in A THEN 1 ELSE 0)
<1>1. \A i \in Nat : IsFiniteSet(First(A, i)) /\ Cardinality(First(A, i)) \in Nat
  <2> TAKE i \in Nat
  <2>1. IsFiniteSet(1..i) BY FS_Interval
  <2> QED BY <2>1, FS_Subset, FS_CardinalityType DEF First
<1>2. k - 1 \in Nat /\ 1..k = (1..(k - 1)) \cup {k} /\ k \notin 1..(k - 1) OBVIOUS
<1>3. First(A, k) = IF k \in A THEN First(A, k - 1) \cup {k} ELSE First(A, k - 1)
  BY <1>2 DEF First
<1>4. k \notin First(A, k - 1) BY <1>2 DEF First
<1>5. CASE k \in A
  <2>1. Cardinality(First(A, k - 1) \cup {k}) = Cardinality(First(A, k - 1)) + 1
    BY <1>1, <1>2, <1>4, FS_AddElement
  <2> QED BY <1>1, <1>3, <1>5, <2>1
<1>6. CASE k \notin A
  <2>1. First(A, k) = First(A, k - 1) BY <1>3, <1>6
  <2>2. Cardinality(First(A, k - 1)) + 0 = Cardinality(First(A, k - 1)) BY <1>1, <1>2
  <2> QED BY <1>1, <1>3, <1>6, <2>1, <2>2
<1> QED BY <1>5, <1>6

LEMMA FirstNone == ASSUME NEW A PROVE First(A, 0) = {} /\ Cardinality(First(A, 0)) = 0
<1>1. 1..0 = {} OBVIOUS
<1> QED BY <1>1, FS_EmptySet DEF First

\* A step is noted down behind the others.
LEMMA ToSetAppend ==
  ASSUME NEW T, NEW s \in Seq(T), NEW e
  PROVE  ToSet(Append(s, e)) = ToSet(s) \cup {e}
<1>1. Len(s) \in Nat /\ DOMAIN s = 1..Len(s) OBVIOUS
<1>2. DOMAIN Append(s, e) = 1..(Len(s) + 1) /\ Append(s, e)[Len(s) + 1] = e
      /\ \A i \in 1..Len(s) : Append(s, e)[i] = s[i]
  OBVIOUS
<1>3. 1..(Len(s) + 1) = 1..Len(s) \cup {Len(s) + 1} BY <1>1
<1> QED BY <1>1, <1>2, <1>3 DEF ToSet

\* What the walk decides at place k, where it acts, and who runs when it is carried out.
Fate(S, k) == Decision(Walk(S)[k - 1], Order(S)[k])
Chosen(S) == {k \in 1..Size(S) : Fate(S, k) \in Actions}
Up(S) == {k \in 1..Size(S) : Fate(S, k) = "resume" \/ (Fate(S, k) = "active" /\ IsActive(Order(S)[k]))}
UpSeeds(S) == {k \in Up(S) : Order(S)[k].done}
UpDownloads(S) == {k \in Up(S) : ~Order(S)[k].done}
StepAt(S, k) == <<Fate(S, k), Order(S)[k].hash>>
Hashes(S) == {t.hash : t \in S}
Busy(S) == {t \in S \ Contenders(S) : IsActive(t)}

\* The walk records its actions exactly; and while there is budget left, its counts are
\* those of the torrents that will run.
Counts(S, k, acc) ==
  /\ acc.total = Cardinality(Busy(S)) + Cardinality(First(Up(S), k))
  /\ acc.downloads = Cardinality(First(UpDownloads(S), k))
  /\ acc.seeds = Cardinality(First(UpSeeds(S), k))
WalkInv(S, k) ==
  LET acc == Walk(S)[k]
  IN  /\ acc \in Account(Hashes(S))
      /\ ToSet(acc.steps) = {StepAt(S, i) : i \in First(Chosen(S), k)}
      /\ acc.actions = Cardinality(First(Chosen(S), k))
      /\ acc.actions < Budget => Counts(S, k, acc)

LEMMA OrderIs ==
  ASSUME NEW S, Plannable(S)
  PROVE  /\ Contenders(S) \subseteq S /\ Size(S) \in Nat
         /\ \A k \in 1..Size(S) : Order(S)[k] \in Contenders(S) /\ Order(S)[k] \in S
         /\ \A i, j \in 1..Size(S) : Before(Order(S)[i], Order(S)[j]) <=> i < j
         /\ \A i, j \in 1..Size(S) : Order(S)[i] = Order(S)[j] => i = j
         /\ \A t \in Contenders(S) : \E i \in 1..Size(S) : Order(S)[i] = t
<1>1. Contenders(S) \subseteq S BY DEF Contenders
<1> HIDE DEF Order
<1>2. /\ Size(S) \in Nat /\ Order(S) \in [1..Size(S) -> Contenders(S)]
      /\ \A i, j \in 1..Size(S) : Before(Order(S)[i], Order(S)[j]) <=> i < j
      /\ \A i, j \in 1..Size(S) : Order(S)[i] = Order(S)[j] => i = j
      /\ \A t \in Contenders(S) : \E i \in 1..Size(S) : Order(S)[i] = t
  BY <1>1, RankedIs DEF Size, Order
<1> QED BY <1>1, <1>2

LEMMA WalkStarts == ASSUME NEW S, Plannable(S) PROVE WalkInv(S, 0)
<1> DEFINE b == Cardinality(Busy(S))
<1>1. Walk(S)[0] = Taken(S) BY OrderIs, WalkIs
<1>2. b \in Nat
  <2>1. Busy(S) \subseteq S BY DEF Busy
  <2> QED BY <2>1, FS_Subset, FS_CardinalityType DEF Plannable
<1>3. Taken(S) = [downloads |-> 0, seeds |-> 0, total |-> b, actions |-> 0, steps |-> <<>>]
  BY DEF Taken, NoPlan, Busy
<1> HIDE DEF b
<1>4. <<>> \in Seq(Actions \X Hashes(S)) OBVIOUS
<1>5. Taken(S) \in Account(Hashes(S)) BY <1>2, <1>3, <1>4 DEF Account
<1>6. /\ Taken(S).downloads = 0 /\ Taken(S).seeds = 0 /\ Taken(S).total = b
      /\ Taken(S).actions = 0 /\ Taken(S).steps = <<>>
  BY <1>3
<1>7. ToSet(<<>>) = {} BY DEF ToSet
<1>8. b + 0 = b BY <1>2
<1> QED BY <1>1, <1>5, <1>6, <1>7, <1>8, FirstNone DEF WalkInv, Counts, b

LEMMA WalkGoesOn ==
  ASSUME NEW S, Plannable(S), NEW k \in 1..Size(S), WalkInv(S, k - 1)
  PROVE  WalkInv(S, k)
<1> DEFINE acc == Walk(S)[k - 1]
           c == Walk(S)[k]
           t == Order(S)[k]
           d == Fate(S, k)
           H == Hashes(S)
<1>1. Size(S) \in Nat /\ t \in S BY OrderIs
<1>2. t.hash \in H /\ t.done \in BOOLEAN /\ t.target \in Verdict BY <1>1 DEF Hashes, Plannable
<1>3. /\ acc \in Account(H)
      /\ ToSet(acc.steps) = {StepAt(S, i) : i \in First(Chosen(S), k - 1)}
      /\ acc.actions = Cardinality(First(Chosen(S), k - 1))
      /\ acc.actions < Budget => Counts(S, k - 1, acc)
  BY DEF WalkInv
<1>4. c = Consider(acc, t) /\ d = Decision(acc, t) BY <1>1, WalkIs DEF Fate
<1> HIDE DEF acc, c, t, d, H
<1>5. /\ c \in Account(H)
      /\ c.steps = IF d \in Actions THEN Append(acc.steps, <<d, t.hash>>) ELSE acc.steps
      /\ c.actions = acc.actions + (IF d \in Actions THEN 1 ELSE 0)
      /\ c.total = acc.total + (IF d \in {"active", "resume"} THEN 1 ELSE 0)
      /\ c.downloads = acc.downloads + (IF d \in {"active", "resume"} /\ ~t.done THEN 1 ELSE 0)
      /\ c.seeds = acc.seeds + (IF d \in {"active", "resume"} /\ t.done THEN 1 ELSE 0)
  BY <1>2, <1>3, <1>4, ConsiderIs
<1>6. acc.actions \in Nat /\ acc.total \in Nat /\ acc.downloads \in Nat /\ acc.seeds \in Nat
      /\ acc.steps \in Seq(Actions \X H)
  BY <1>3, AccountFields
<1>7. k \in Nat \ {0} BY <1>1
<1>8. k \in Chosen(S) <=> d \in Actions BY DEF Chosen, d
<1>9. StepAt(S, k) = <<d, t.hash>> BY DEF StepAt, d, t
<1>10. ToSet(c.steps) = {StepAt(S, i) : i \in First(Chosen(S), k)}
  <2>1. CASE d \in Actions
    <3>1. c.steps = Append(acc.steps, <<d, t.hash>>) BY <1>5, <2>1
    <3>2. ToSet(c.steps) = ToSet(acc.steps) \cup {StepAt(S, k)} BY <1>6, <1>9, <3>1, ToSetAppend
    <3>3. First(Chosen(S), k) = First(Chosen(S), k - 1) \cup {k} BY <1>7, <1>8, <2>1, FirstGrows
    <3> QED BY <1>3, <3>2, <3>3
  <2>2. CASE d \notin Actions
    <3>1. c.steps = acc.steps BY <1>5, <2>2
    <3>2. First(Chosen(S), k) = First(Chosen(S), k - 1) BY <1>7, <1>8, <2>2, FirstGrows
    <3> QED BY <1>3, <3>1, <3>2
  <2> QED BY <2>1, <2>2
<1>11. c.actions = Cardinality(First(Chosen(S), k))
  BY <1>3, <1>5, <1>7, <1>8, FirstGrows
<1>12. ASSUME c.actions < Budget PROVE Counts(S, k, c)
  <2>1. acc.actions < Budget BY <1>5, <1>6, <1>12, BudgetAssumption
  <2>2. d = "active" => IsActive(t)
    BY <1>2, <1>4, <2>1, DecisionIs DEF Plannable
  <2>3. k \in Up(S) <=> d \in {"active", "resume"} BY <2>2 DEF Up, d, t
  <2>4. k \in UpSeeds(S) <=> d \in {"active", "resume"} /\ t.done BY <2>3 DEF UpSeeds, t
  <2>5. k \in UpDownloads(S) <=> d \in {"active", "resume"} /\ ~t.done BY <2>3 DEF UpDownloads, t
  <2>6. Counts(S, k - 1, acc) BY <1>3, <2>1
  <2>7. c.downloads = Cardinality(First(UpDownloads(S), k))
    BY <1>5, <1>7, <2>5, <2>6, FirstGrows DEF Counts
  <2>8. c.seeds = Cardinality(First(UpSeeds(S), k))
    BY <1>5, <1>7, <2>4, <2>6, FirstGrows DEF Counts
  <2>9. c.total = Cardinality(Busy(S)) + Cardinality(First(Up(S), k))
    <3>1. Cardinality(Busy(S)) \in Nat
      <4>1. Busy(S) \subseteq S BY DEF Busy
      <4> QED BY <4>1, FS_Subset, FS_CardinalityType DEF Plannable
    <3>2. Cardinality(First(Up(S), k - 1)) \in Nat
      <4>1. IsFiniteSet(1..(k - 1)) BY <1>7, FS_Interval
      <4> QED BY <4>1, FS_Subset, FS_CardinalityType DEF First
    <3>3. Cardinality(First(Up(S), k))
          = Cardinality(First(Up(S), k - 1)) + (IF k \in Up(S) THEN 1 ELSE 0)
      BY <1>7, FirstGrows
    <3>4. acc.total = Cardinality(Busy(S)) + Cardinality(First(Up(S), k - 1)) BY <2>6 DEF Counts
    <3>5. c.total = acc.total + (IF k \in Up(S) THEN 1 ELSE 0) BY <1>5, <2>3
    <3> QED BY <3>1, <3>2, <3>3, <3>4, <3>5
  <2> QED BY <2>7, <2>8, <2>9 DEF Counts
<1> QED BY <1>5, <1>10, <1>11, <1>12 DEF WalkInv, c, H

LEMMA WalkCounts ==
  ASSUME NEW S, Plannable(S)
  PROVE  \A k \in 0..Size(S) : WalkInv(S, k)
<1> DEFINE N == {k \in Nat : k <= Size(S) => WalkInv(S, k)}
<1>1. Size(S) \in Nat BY OrderIs
<1>2. 0 \in N BY WalkStarts
<1>3. ASSUME NEW k \in Nat, k \in N PROVE k + 1 \in N
  <2> SUFFICES ASSUME k + 1 <= Size(S) PROVE WalkInv(S, k + 1) OBVIOUS
  <2>1. k + 1 \in 1..Size(S) /\ (k + 1) - 1 = k /\ k <= Size(S) BY <1>1
  <2>2. WalkInv(S, (k + 1) - 1) BY <1>3, <2>1
  <2> QED BY <2>1, <2>2, WalkGoesOn
<1>4. Nat \subseteq N
  <2> HIDE DEF N
  <2> QED BY <1>2, <1>3, NatSetInduction
<1> QED BY <1>1, <1>4

-----------------------------------------------------------------------------
(* What comes of it.                                                       *)

PlanOf(S) == ToSet(planEngine(S))

LEMMA FateIs ==
  ASSUME NEW S, Plannable(S), NEW k \in 1..Size(S)
  PROVE  LET acc == Walk(S)[k - 1]
             t == Order(S)[k]
             d == Fate(S, k)
             spent == ~(acc.actions < Budget)
         IN  /\ d \in Actions \cup {"active", "wait"}
             /\ d = "remove" => ~t.keep /\ PolicyRemoves(t)
             /\ d = "pause" => ~t.keep /\ (PolicyStops(t) \/ (~spent /\ ~SlotFree(acc, t)))
             /\ d = "active" =>
                  \/ SlotFree(acc, t) \/ t.keep \/ t.force \/ t.recent \/ PolicyKeeps(t) \/ spent
             /\ d = "active" /\ ~IsActive(t) => spent
             /\ d = "resume" => ~spent /\ ~IsActive(t) /\ (t.force \/ SlotFree(acc, t))
             /\ d = "wait" => ~IsActive(t) /\ ((~t.done /\ ~t.fresh) \/ ~SlotFree(acc, t) \/ spent)
<1>1. Order(S)[k].target \in Verdict /\ policy \in Policies BY OrderIs DEF Plannable
<1> QED BY <1>1, DecisionIs, Zenon DEF Fate

\* The plan is what the walk decided, place by place.
LEMMA PlanIs ==
  ASSUME NEW S, Plannable(S)
  PROVE  PlanOf(S) = {StepAt(S, i) : i \in Chosen(S)}
<1>1. Size(S) \in Nat /\ Size(S) \in 0..Size(S) BY OrderIs
<1>2. First(Chosen(S), Size(S)) = Chosen(S) BY DEF First, Chosen
<1>3. ToSet(Walk(S)[Size(S)].steps) = {StepAt(S, i) : i \in First(Chosen(S), Size(S))}
  BY <1>1, WalkCounts DEF WalkInv
<1> QED BY <1>2, <1>3, PlanIsWalk DEF PlanOf

LEMMA DoesIs ==
  ASSUME NEW S, Plannable(S), NEW k \in 1..Size(S), NEW a \in Actions
  PROVE  Does(PlanOf(S), Order(S)[k], a) <=> Fate(S, k) = a
<1> DEFINE t == Order(S)[k]
<1>1. t \in S BY OrderIs
<1>2. ASSUME Fate(S, k) = a PROVE Does(PlanOf(S), t, a)
  <2>1. k \in Chosen(S) /\ StepAt(S, k) = <<a, t.hash>> BY <1>2 DEF Chosen, StepAt
  <2> QED BY <2>1, PlanIs DEF Does
<1>3. ASSUME Does(PlanOf(S), t, a) PROVE Fate(S, k) = a
  <2>1. PICK i \in Chosen(S) : <<a, t.hash>> = StepAt(S, i) BY <1>3, PlanIs DEF Does
  <2>2. i \in 1..Size(S) BY DEF Chosen
  <2>3. Order(S)[i].hash = t.hash /\ Fate(S, i) = a BY <2>1 DEF StepAt
  <2>4. Order(S)[i] \in S BY <2>2, OrderIs
  <2> HIDE DEF t
  <2>5. Order(S)[i] = t BY <1>1, <2>3, <2>4 DEF Plannable
  <2>6. i = k BY <2>2, <2>5, OrderIs DEF t
  <2> QED BY <2>3, <2>6
<1> QED BY <1>2, <1>3

LEMMA OthersIdle ==
  ASSUME NEW S, Plannable(S), NEW t \in S, t \notin Contenders(S)
  PROVE  Idle(PlanOf(S), t)
<1> SUFFICES ASSUME NEW a \in Actions, Does(PlanOf(S), t, a) PROVE FALSE BY DEF Idle
<1>1. PICK i \in Chosen(S) : <<a, t.hash>> = StepAt(S, i) BY PlanIs DEF Does
<1>2. i \in 1..Size(S) BY DEF Chosen
<1>3. Order(S)[i].hash = t.hash BY <1>1 DEF StepAt
<1>4. Order(S)[i] \in S /\ Order(S)[i] \in Contenders(S) BY <1>2, OrderIs
<1>5. Order(S)[i] = t BY <1>3, <1>4 DEF Plannable
<1> QED BY <1>4, <1>5

LEMMA IdleIs ==
  ASSUME NEW S, Plannable(S), NEW k \in 1..Size(S)
  PROVE  Idle(PlanOf(S), Order(S)[k]) <=> Fate(S, k) \notin Actions
BY DoesIs DEF Idle

LEMMA RunsIs ==
  ASSUME NEW S, Plannable(S), NEW k \in 1..Size(S)
  PROVE  Runs(PlanOf(S), Order(S)[k]) <=> k \in Up(S)
<1>1. "resume" \in Actions /\ "active" \notin Actions BY DEF Actions
<1>2. Runs(PlanOf(S), Order(S)[k])
      <=> (IsActive(Order(S)[k]) /\ Fate(S, k) \notin Actions) \/ Fate(S, k) = "resume"
  BY <1>1, DoesIs, IdleIs DEF Runs
<1>3. Fate(S, k) \in Actions \cup {"active", "wait"} /\ (Fate(S, k) = "wait" => ~IsActive(Order(S)[k]))
  BY FateIs
<1> QED BY <1>1, <1>2, <1>3 DEF Up

LEMMA OthersRun ==
  ASSUME NEW S, Plannable(S), NEW t \in S, t \notin Contenders(S)
  PROVE  Runs(PlanOf(S), t) <=> IsActive(t)
<1>1. Idle(PlanOf(S), t) BY OthersIdle
<1>2. ~Does(PlanOf(S), t, "resume") BY <1>1 DEF Idle, Actions
<1> QED BY <1>1, <1>2 DEF Runs

\* Who is ahead of the torrent at place k.
Places(S, A) == {Order(S)[i] : i \in A}

LEMMA AheadIs ==
  ASSUME NEW S, Plannable(S), NEW k \in 1..Size(S)
  PROVE  Ahead(S, PlanOf(S), Order(S)[k]) = Busy(S) \cup Places(S, First(Up(S), k - 1))
<1> DEFINE t == Order(S)[k]
           L == Ahead(S, PlanOf(S), t)
           R == Busy(S) \cup Places(S, First(Up(S), k - 1))
<1>0. Size(S) \in Nat /\ Contenders(S) \subseteq S BY OrderIs
<1>1. ASSUME NEW u \in L PROVE u \in R
  <2>1. u \in S /\ Runs(PlanOf(S), u) /\ (u \in Contenders(S) => Before(u, t)) BY <1>1 DEF Ahead
  <2>2. CASE u \notin Contenders(S) BY <2>1, <2>2, OthersRun DEF Busy
  <2>3. CASE u \in Contenders(S)
    <3>1. PICK i \in 1..Size(S) : Order(S)[i] = u BY <2>3, OrderIs
    <3>2. i \in Up(S) BY <2>1, <3>1, RunsIs
    <3>3. i < k BY <2>1, <2>3, <3>1, OrderIs
    <3>4. i \in First(Up(S), k - 1) BY <1>0, <3>2, <3>3 DEF First
    <3> QED BY <3>1, <3>4 DEF Places
  <2> QED BY <2>2, <2>3
<1>2. ASSUME NEW u \in R PROVE u \in L
  <2>1. CASE u \in Busy(S)
    <3>1. u \in S /\ u \notin Contenders(S) /\ IsActive(u) BY <2>1 DEF Busy
    <3> QED BY <3>1, OthersRun DEF Ahead
  <2>2. CASE u \in Places(S, First(Up(S), k - 1))
    <3>1. PICK i \in First(Up(S), k - 1) : u = Order(S)[i] BY <2>2 DEF Places
    <3>2. i \in Up(S) /\ i \in 1..Size(S) /\ i < k BY <1>0 DEF First, Up
    <3>3. u \in S /\ Runs(PlanOf(S), u) /\ Before(u, t) BY <3>1, <3>2, OrderIs, RunsIs
    <3> QED BY <3>3 DEF Ahead
  <2> QED BY <1>2, <2>1, <2>2
<1> QED BY <1>1, <1>2

LEMMA AlikeIs ==
  ASSUME NEW S, Plannable(S), NEW k \in 1..Size(S)
  PROVE  Alike(S, PlanOf(S), Order(S)[k])
         = Places(S, First(IF Order(S)[k].done THEN UpSeeds(S) ELSE UpDownloads(S), k - 1))
<1> DEFINE t == Order(S)[k]
           A == IF t.done THEN UpSeeds(S) ELSE UpDownloads(S)
           L == Alike(S, PlanOf(S), t)
           R == Places(S, First(A, k - 1))
<1>0. t.done \in BOOLEAN BY OrderIs DEF Plannable
<1>1. \A i \in 1..Size(S) : Order(S)[i].done \in BOOLEAN /\ Order(S)[i].occ # "checking"
  BY OrderIs DEF Plannable, Contenders, Untouchables
<1>2. \A i \in Up(S) : i \in 1..Size(S) BY DEF Up
<1>3. \A i : i \in First(A, k - 1) <=> i \in First(Up(S), k - 1) /\ Order(S)[i].done = t.done
  <2> TAKE i
  <2> QED BY <1>0, <1>1, <1>2 DEF First, UpSeeds, UpDownloads
<1>4. L = {u \in Busy(S) \cup Places(S, First(Up(S), k - 1)) : u.done = t.done /\ u.occ # "checking"}
  BY AheadIs DEF Alike
<1>5. \A u \in Busy(S) : u.occ = "checking"
  BY DEF Busy, Contenders, IsActive, holdsTotalActiveSlot, Untouchables
<1>6. \A i \in First(Up(S), k - 1) : Order(S)[i].occ # "checking" BY <1>1, <1>2 DEF First
<1> HIDE DEF A, t
<1>7. \A u : u \in L <=> u \in R BY <1>3, <1>4, <1>5, <1>6 DEF Places
<1> HIDE DEF L, R
<1>8. L = R BY <1>7
<1> QED BY <1>8 DEF L, R, A, t

LEMMA AtCounts ==
  ASSUME NEW S, Plannable(S), NEW A, A \subseteq 1..Size(S)
  PROVE  /\ IsFiniteSet(Places(S, A)) /\ Cardinality(Places(S, A)) = Cardinality(A)
         /\ Places(S, A) \subseteq Contenders(S)
<1>1. IsFiniteSet(A)
  <2>1. Size(S) \in Int /\ 0 \in Int BY OrderIs
  <2>2. IsFiniteSet(1..Size(S)) BY <2>1, FS_Interval
  <2> QED BY <2>2, FS_Subset
<1> DEFINE f == [i \in A |-> Order(S)[i]]
<1>2. f \in Bijection(A, Places(S, A))
  <2>1. \A i, j \in A : f[i] = f[j] => i = j BY OrderIs
  <2>2. f \in [A -> Places(S, A)] /\ \A u \in Places(S, A) : \E i \in A : f[i] = u BY DEF Places
  <2> HIDE DEF f
  <2> QED BY <2>1, <2>2 DEF Bijection, Injection, Surjection, IsInjective
<1>3. Places(S, A) \subseteq Contenders(S) BY OrderIs DEF Places
<1> QED BY <1>1, <1>2, <1>3, BijectionCounts

\* A budget that is spent on the way is spent in the end.
LEMMA SpentIs ==
  ASSUME NEW S, Plannable(S), NEW k \in 1..Size(S), ~(Walk(S)[k - 1].actions < Budget)
  PROVE  Spent(PlanOf(S))
<1> DEFINE f == [i \in Chosen(S) |-> StepAt(S, i)]
           w == Walk(S)[k - 1].actions
<1>1. Size(S) \in Nat /\ k - 1 \in 0..Size(S) BY OrderIs
<1>2. Chosen(S) \subseteq 1..Size(S) BY DEF Chosen
<1>3. IsFiniteSet(Chosen(S)) /\ Cardinality(Chosen(S)) \in Nat
  <2>1. IsFiniteSet(1..Size(S)) BY <1>1, FS_Interval
  <2> QED BY <1>2, <2>1, FS_Subset, FS_CardinalityType
<1>4. f \in Bijection(Chosen(S), PlanOf(S))
  <2>1. \A i, j \in Chosen(S) : f[i] = f[j] => i = j
    <3> SUFFICES ASSUME NEW i \in Chosen(S), NEW j \in Chosen(S), f[i] = f[j] PROVE i = j OBVIOUS
    <3>1. Order(S)[i].hash = Order(S)[j].hash BY DEF StepAt
    <3>2. Order(S)[i] \in S /\ Order(S)[j] \in S BY <1>2, OrderIs
    <3>3. Order(S)[i] = Order(S)[j] BY <3>1, <3>2 DEF Plannable
    <3> QED BY <1>2, <3>3, OrderIs
  <2>2. f \in [Chosen(S) -> PlanOf(S)] /\ \A u \in PlanOf(S) : \E i \in Chosen(S) : f[i] = u BY PlanIs
  <2> HIDE DEF f
  <2> QED BY <2>1, <2>2 DEF Bijection, Injection, Surjection, IsInjective
<1>5. Cardinality(PlanOf(S)) = Cardinality(Chosen(S)) BY <1>3, <1>4, BijectionCounts
<1>6. w = Cardinality(First(Chosen(S), k - 1)) BY <1>1, WalkCounts DEF WalkInv
<1>7. First(Chosen(S), k - 1) \subseteq Chosen(S) BY DEF First
<1>8. w \in Nat /\ w <= Cardinality(Chosen(S))
  BY <1>3, <1>6, <1>7, FS_Subset, FS_CardinalityType
<1> QED BY <1>3, <1>5, <1>8, BudgetAssumption DEF Spent

\* While there is budget left, the walk finds a slot taken exactly if one is.
LEMMA NoRoomIs ==
  ASSUME NEW S, Plannable(S), NEW k \in 1..Size(S), Walk(S)[k - 1].actions < Budget
  PROVE  NoRoom(S, PlanOf(S), Order(S)[k]) <=> ~SlotFree(Walk(S)[k - 1], Order(S)[k])
<1> DEFINE t == Order(S)[k]
           acc == Walk(S)[k - 1]
<1>1. Size(S) \in Nat /\ k - 1 \in 0..Size(S) /\ Contenders(S) \subseteq S BY OrderIs
<1>2. Counts(S, k - 1, acc) BY <1>1, WalkCounts DEF WalkInv
<1>3. /\ First(Up(S), k - 1) \subseteq 1..Size(S)
      /\ First(UpSeeds(S), k - 1) \subseteq 1..Size(S)
      /\ First(UpDownloads(S), k - 1) \subseteq 1..Size(S)
  BY DEF First, Up, UpSeeds, UpDownloads
<1>4. Cardinality(Ahead(S, PlanOf(S), t)) = acc.total
  <2> DEFINE B == Busy(S)
             F == Places(S, First(Up(S), k - 1))
  <2>1. IsFiniteSet(F) /\ Cardinality(F) = Cardinality(First(Up(S), k - 1)) /\ F \subseteq Contenders(S)
    BY <1>3, AtCounts
  <2>2. B \subseteq S /\ B \cap Contenders(S) = {} BY DEF Busy
  <2>3. IsFiniteSet(B) /\ Cardinality(B) \in Nat BY <2>2, FS_Subset, FS_CardinalityType DEF Plannable
  <2> HIDE DEF B, F
  <2>4. B \cap F = {} BY <2>1, <2>2
  <2>5. Cardinality(F) \in Nat /\ Cardinality({}) = 0 BY <2>1, FS_CardinalityType, FS_EmptySet
  <2>6. Cardinality(B \cup F) = Cardinality(B) + Cardinality(F)
    <3>1. Cardinality(B \cup F) = Cardinality(B) + Cardinality(F) - Cardinality(B \cap F)
      BY <2>1, <2>3, FS_Union
    <3>2. Cardinality(B \cap F) = 0 BY <2>4, <2>5
    <3>3. \A m, n \in Nat : m + n - 0 = m + n OBVIOUS
    <3> QED BY <2>3, <2>5, <3>1, <3>2, <3>3
  <2> QED BY <1>2, <2>1, <2>6, AheadIs DEF Counts, B, F
<1>5. Cardinality(Alike(S, PlanOf(S), t)) = IF t.done THEN acc.seeds ELSE acc.downloads
  <2>1. CASE t.done
    <3>1. Alike(S, PlanOf(S), t) = Places(S, First(UpSeeds(S), k - 1)) BY <2>1, AlikeIs
    <3> QED BY <1>2, <1>3, <2>1, <3>1, AtCounts DEF Counts
  <2>2. CASE ~t.done
    <3>1. Alike(S, PlanOf(S), t) = Places(S, First(UpDownloads(S), k - 1)) BY <2>2, AlikeIs
    <3> QED BY <1>2, <1>3, <2>2, <3>1, AtCounts DEF Counts
  <2> QED BY <2>1, <2>2
<1> HIDE DEF acc, t
<1>6. NoRoom(S, PlanOf(S), t) <=> ~SlotFree(acc, t)
  BY <1>4, <1>5 DEF NoRoom, SlotFree
<1> QED BY <1>6 DEF acc, t

\* While there is budget left, less than it has been spent on those before.
LEMMA ActedCounts ==
  ASSUME NEW S, Plannable(S), NEW k \in 1..Size(S), Walk(S)[k - 1].actions < Budget
  PROVE  Cardinality(Acted(S, PlanOf(S), Order(S)[k])) < Budget
<1> DEFINE t == Order(S)[k]
           F == First(Chosen(S), k - 1)
<1>1. Size(S) \in Nat /\ k - 1 \in 0..Size(S) /\ Contenders(S) \subseteq S BY OrderIs
<1>2. Walk(S)[k - 1].actions = Cardinality(F) BY <1>1, WalkCounts DEF WalkInv
<1>3. F \subseteq 1..Size(S) BY DEF First, Chosen
<1>4. ASSUME NEW u \in Acted(S, PlanOf(S), t) PROVE u \in Places(S, F)
  <2>1. u \in S /\ ~Idle(PlanOf(S), u) /\ Before(u, t) BY <1>4 DEF Acted
  <2>2. u \in Contenders(S) BY <2>1, OthersIdle
  <2>3. PICK i \in 1..Size(S) : Order(S)[i] = u BY <2>2, OrderIs
  <2>4. i \in Chosen(S) BY <2>1, <2>3, IdleIs DEF Chosen
  <2>5. i < k BY <2>1, <2>3, OrderIs
  <2>6. i \in F BY <1>1, <2>4, <2>5 DEF First
  <2> QED BY <2>3, <2>6 DEF Places
<1>5. ASSUME NEW u \in Places(S, F) PROVE u \in Acted(S, PlanOf(S), t)
  <2>1. PICK i \in F : u = Order(S)[i] BY <1>5 DEF Places
  <2>2. i \in Chosen(S) /\ i \in 1..Size(S) /\ i < k BY <1>1 DEF First, Chosen
  <2>3. u \in S /\ ~Idle(PlanOf(S), u) /\ Before(u, t)
    BY <2>1, <2>2, OrderIs, IdleIs DEF Chosen
  <2> QED BY <2>3 DEF Acted
<1>6. Acted(S, PlanOf(S), t) = Places(S, F) BY <1>4, <1>5
<1> HIDE DEF F
<1>7. Cardinality(Places(S, F)) = Cardinality(F) BY <1>3, AtCounts
<1> QED BY <1>2, <1>6, <1>7

\* Every plan keeps its promises.
LEMMA PlanSound == ASSUME NEW S, Plannable(S) PROVE Sound(S, PlanOf(S))
<1> SUFFICES ASSUME NEW t \in S
             PROVE  /\ ~Idle(PlanOf(S), t) => t \in Contenders(S)
                    /\ Does(PlanOf(S), t, "pause") \/ Does(PlanOf(S), t, "remove") => ~t.keep
                    /\ Does(PlanOf(S), t, "remove") => PolicyRemoves(t)
                    /\ Does(PlanOf(S), t, "pause") => NoRoom(S, PlanOf(S), t) \/ PolicyStops(t)
                    /\ ForSlot(PlanOf(S), t) => Cardinality(Acted(S, PlanOf(S), t)) < Budget
                    /\ t \in Contenders(S) /\ Runs(PlanOf(S), t) /\ NoRoom(S, PlanOf(S), t)
                         => Vetoed(PlanOf(S), t)
                    /\ t \in Contenders(S) /\ ~Runs(PlanOf(S), t) /\ Idle(PlanOf(S), t)
                         => NoRoom(S, PlanOf(S), t) \/ Spent(PlanOf(S)) \/ (~t.done /\ ~t.fresh)
  BY DEF Sound
<1>1. CASE t \notin Contenders(S)
  <2>1. Idle(PlanOf(S), t) BY <1>1, OthersIdle
  <2>2. /\ ~Does(PlanOf(S), t, "pause") /\ ~Does(PlanOf(S), t, "remove")
        /\ ~Does(PlanOf(S), t, "resume")
    BY <2>1 DEF Idle, Actions
  <2> QED BY <1>1, <2>1, <2>2 DEF ForSlot
<1>2. CASE t \in Contenders(S)
  <2>1. PICK k \in 1..Size(S) : Order(S)[k] = t BY <1>2, OrderIs
  <2> DEFINE acc == Walk(S)[k - 1]
             d == Fate(S, k)
             spent == ~(acc.actions < Budget)
             P == PlanOf(S)
  <2>2. /\ d \in Actions \cup {"active", "wait"}
        /\ d = "remove" => ~t.keep /\ PolicyRemoves(t)
        /\ d = "pause" => ~t.keep /\ (PolicyStops(t) \/ (~spent /\ ~SlotFree(acc, t)))
        /\ d = "active" =>
             \/ SlotFree(acc, t) \/ t.keep \/ t.force \/ t.recent \/ PolicyKeeps(t) \/ spent
        /\ d = "active" /\ ~IsActive(t) => spent
        /\ d = "resume" => ~spent /\ ~IsActive(t) /\ (t.force \/ SlotFree(acc, t))
        /\ d = "wait" => ~IsActive(t) /\ ((~t.done /\ ~t.fresh) \/ ~SlotFree(acc, t) \/ spent)
    BY <2>1, FateIs
  <2>3. /\ Does(P, t, "pause") <=> d = "pause"
        /\ Does(P, t, "remove") <=> d = "remove"
        /\ Does(P, t, "resume") <=> d = "resume"
    BY <2>1, DoesIs DEF Actions
  <2>4. Idle(P, t) <=> d \notin Actions BY <2>1, IdleIs
  <2>5. Runs(P, t) <=> d = "resume" \/ (d = "active" /\ IsActive(t)) BY <2>1, RunsIs DEF Up
  <2>6. spent => Spent(P) BY <2>1, SpentIs
  <2>7. ~spent => (NoRoom(S, P, t) <=> ~SlotFree(acc, t)) BY <2>1, NoRoomIs
  <2>11. ~spent => Cardinality(Acted(S, P, t)) < Budget BY <2>1, ActedCounts
  <2> HIDE DEF acc, d, spent, P
  <2>8. Does(P, t, "pause") => NoRoom(S, P, t) \/ PolicyStops(t) BY <2>2, <2>3, <2>7
  <2>12. ForSlot(P, t) => Cardinality(Acted(S, P, t)) < Budget BY <2>2, <2>3, <2>11 DEF ForSlot
  <2>9. Runs(P, t) /\ NoRoom(S, P, t) => Vetoed(P, t) BY <2>2, <2>5, <2>6, <2>7 DEF Vetoed
  <2>10. ~Runs(P, t) /\ Idle(P, t) => NoRoom(S, P, t) \/ Spent(P) \/ (~t.done /\ ~t.fresh)
    BY <2>2, <2>4, <2>5, <2>6, <2>7
  <2> QED BY <1>2, <2>2, <2>3, <2>8, <2>9, <2>10, <2>12 DEF P
<1> QED BY <1>1, <1>2

-----------------------------------------------------------------------------
(* apply: the steps of one kind after the other.                           *)

PickStep(plan, a, f, k) ==
  IF k = 0 THEN <<>> ELSE IF plan[k][1] = a THEN Append(f[k - 1], plan[k]) ELSE f[k - 1]
IsPick(plan, a, n, f) == f = [k \in 0..n |-> PickStep(plan, a, f, k)]
Pick(plan, a) == CHOOSE f : IsPick(plan, a, Len(plan), f)

LEMMA OfKindIsPick == ASSUME NEW plan, NEW a PROVE OfKind(plan, a) = Pick(plan, a)[Len(plan)]
BY DEF OfKind, Pick, IsPick, PickStep

LEMMA PickExists ==
  ASSUME NEW plan, NEW a, NEW n \in Nat
  PROVE  \E f : IsPick(plan, a, n, f)
<1> DEFINE N == {k \in Nat : \E f : IsPick(plan, a, k, f)}
<1>1. 0 \in N
  <2> DEFINE f == [i \in 0..0 |-> <<>>]
  <2>1. \A i \in 0..0 : i = 0 OBVIOUS
  <2>2. \A i \in 0..0 : PickStep(plan, a, f, i) = <<>> BY <2>1 DEF PickStep
  <2>3. IsPick(plan, a, 0, f) BY <2>2 DEF IsPick
  <2> QED BY <2>3
<1>2. ASSUME NEW k \in Nat, k \in N PROVE k + 1 \in N
  <2>1. PICK f : IsPick(plan, a, k, f) BY <1>2
  <2> DEFINE h == [i \in 0..(k + 1) |-> PickStep(plan, a, f, i)]
  <2>2. ASSUME NEW i \in 0..(k + 1) PROVE PickStep(plan, a, f, i) = PickStep(plan, a, h, i)
    <3>1. CASE i = 0 BY <3>1 DEF PickStep
    <3>2. CASE i # 0
      <4>1. i - 1 \in 0..k /\ i - 1 \in 0..(k + 1) BY <3>2
      <4>2. f[i - 1] = PickStep(plan, a, f, i - 1) BY <2>1, <4>1 DEF IsPick
      <4>3. h[i - 1] = PickStep(plan, a, f, i - 1) BY <4>1
      <4> HIDE DEF h
      <4> QED BY <3>2, <4>2, <4>3 DEF PickStep
    <3> QED BY <3>1, <3>2
  <2>3. h = [i \in 0..(k + 1) |-> PickStep(plan, a, f, i)] OBVIOUS
  <2> HIDE DEF h
  <2>4. IsPick(plan, a, k + 1, h) BY <2>2, <2>3 DEF IsPick
  <2> QED BY <2>4
<1>3. Nat \subseteq N
  <2> HIDE DEF N
  <2> QED BY <1>1, <1>2, NatSetInduction
<1> QED BY <1>3

LEMMA OfKindTyped ==
  ASSUME NEW T, NEW plan \in Seq(T), NEW a
  PROVE  OfKind(plan, a) \in Seq(T)
<1> DEFINE n == Len(plan)
           f == Pick(plan, a)
           N == {k \in Nat : k <= n => f[k] \in Seq(T)}
<1>1. n \in Nat OBVIOUS
<1>2. IsPick(plan, a, n, f) BY <1>1, PickExists DEF Pick
<1>3. \A k \in 0..n : f[k] = PickStep(plan, a, f, k) BY <1>2 DEF IsPick
<1> HIDE DEF f
<1>4. 0 \in N
  <2>1. f[0] = <<>> BY <1>1, <1>3 DEF PickStep
  <2>2. f[0] \in Seq(T) BY <2>1
  <2> HIDE DEF n
  <2> QED BY <2>2
<1>5. ASSUME NEW k \in Nat, k \in N PROVE k + 1 \in N
  <2> SUFFICES ASSUME k + 1 <= n PROVE f[k + 1] \in Seq(T) OBVIOUS
  <2>1. f[k] \in Seq(T) /\ (k + 1) - 1 = k /\ k + 1 \in 0..n /\ k + 1 \in 1..n /\ k + 1 # 0 BY <1>1, <1>5
  <2>2. plan[k + 1] \in T BY <2>1
  <2>3. f[k + 1] = IF plan[k + 1][1] = a THEN Append(f[k], plan[k + 1]) ELSE f[k]
    BY <1>3, <2>1 DEF PickStep
  <2>4. Append(f[k], plan[k + 1]) \in Seq(T) BY <2>1, <2>2
  <2> QED BY <2>1, <2>3, <2>4
<1>6. Nat \subseteq N
  <2> HIDE DEF N
  <2> QED BY <1>4, <1>5, NatSetInduction
<1>7. f[n] \in Seq(T) BY <1>1, <1>6
<1> QED BY <1>7, OfKindIsPick DEF f

LEMMA ApplyOrderTyped ==
  ASSUME NEW T, NEW plan \in Seq(T) PROVE ApplyOrder(plan) \in Seq(T)
<1>1. /\ OfKind(plan, "remove") \in Seq(T) /\ OfKind(plan, "pause") \in Seq(T)
      /\ OfKind(plan, "resume") \in Seq(T)
  BY OfKindTyped
<1> QED BY <1>1 DEF ApplyOrder

-----------------------------------------------------------------------------
(* The planner's torrents.                                                 *)

LEMMA TorrentsPlannable ==
  ASSUME NEW s \in [Torrents -> Snapshot], facts \in [Torrents -> Facts], policy \in Policies
  PROVE  Plannable(PlannerTorrents(s)) /\ Hashes(PlannerTorrents(s)) \subseteq Torrents
<1> DEFINE S == PlannerTorrents(s)
           G == {g \in Torrents : s[g].state # "gone"}
<1>1. IsFiniteSet(S)
  <2>1. IsFiniteSet(G) BY FiniteAssumption, FS_Subset
  <2> DEFINE f == [h \in G |-> PlannerTorrent(s, h)]
  <2>2. f \in Surjection(G, S) BY DEF Surjection, PlannerTorrents
  <2> HIDE DEF f, G, S
  <2> QED BY <2>1, <2>2, FS_Surjection
<1>2. \A t \in S : \E h \in G : t = PlannerTorrent(s, h) BY DEF PlannerTorrents
<1>3. ASSUME NEW h \in G
      PROVE  LET t == PlannerTorrent(s, h)
             IN  /\ t.hash = h /\ t.rank = Rank[h] /\ t.score \in Nat /\ t.rank \in Nat
                 /\ t.target \in Verdict /\ t.done \in BOOLEAN /\ t.occ \in OccupancyClass
                 /\ t.fresh = ~window
  <2> DEFINE t == PlannerTorrent(s, h)
             done == s[h].prog = Full
             o == IF "exclude" \in overrides[h] THEN "excluded"
                  ELSE classify(s[h].state, done, h \in parked, note[h] # "none")
  <2>1. s[h] \in Snapshot /\ s[h].state # "gone" OBVIOUS
  <2>2. s[h].prog \in Nat BY <2>1, FullAssumption DEF Snapshot
  <2>3. Rank[h] \in Nat BY RankAssumption
  <2>4. facts[h].target \in Verdict BY DEF Facts
  <2>5. s[h].state \in {"running", "queued", "paused", "checking"} BY <2>1 DEF Snapshot, States
  <2>6. o \in OccupancyClass BY <2>5 DEF classify, OccupancyClass, Untouchables
  <2>7. /\ t.hash = h /\ t.rank = Rank[h] /\ t.score = s[h].prog /\ t.target = facts[h].target
        /\ t.done = done /\ t.occ = o /\ t.fresh = ~window
    BY DEF PlannerTorrent
  <2> HIDE DEF t, o
  <2> QED BY <2>2, <2>3, <2>4, <2>6, <2>7 DEF t
<1> HIDE DEF S, G
<1>4. \A t \in S : /\ t.score \in Nat /\ t.rank \in Nat /\ t.occ \in OccupancyClass
                   /\ t.target \in Verdict /\ t.done \in BOOLEAN
  BY <1>2, <1>3
<1>5. ASSUME NEW t \in S, NEW u \in S, t.hash = u.hash \/ t.rank = u.rank PROVE t = u
  <2>1. PICK g \in G : t = PlannerTorrent(s, g) BY <1>2
  <2>2. PICK h \in G : u = PlannerTorrent(s, h) BY <1>2
  <2>3. /\ t.hash = g /\ t.rank = Rank[g] /\ u.hash = h /\ u.rank = Rank[h]
    BY <1>3, <2>1, <2>2
  <2>4. g \in Torrents /\ h \in Torrents BY DEF G
  <2>5. g = h BY <1>5, <2>3, <2>4, RankAssumption
  <2> QED BY <2>1, <2>2, <2>5
<1>6. Plannable(S) BY <1>1, <1>4, <1>5 DEF Plannable
<1>7. Hashes(S) \subseteq Torrents
  <2>1. \A t \in S : t.hash \in Torrents BY <1>2, <1>3 DEF G
  <2> QED BY <2>1 DEF Hashes
<1> QED BY <1>6, <1>7 DEF S

\* A plan is a sequence of steps.
LEMMA PlanTyped ==
  ASSUME NEW s \in [Torrents -> Snapshot], facts \in [Torrents -> Facts], policy \in Policies
  PROVE  planEngine(PlannerTorrents(s)) \in Seq(Steps)
<1> DEFINE S == PlannerTorrents(s)
           H == Hashes(S)
<1>1. Plannable(S) /\ H \subseteq Torrents BY TorrentsPlannable
<1> HIDE DEF S
<1>2. Size(S) \in Nat /\ Size(S) \in 0..Size(S) BY <1>1, OrderIs
<1>3. Walk(S)[Size(S)] \in Account(H) BY <1>1, <1>2, WalkCounts DEF WalkInv
<1>4. planEngine(S) \in Seq(Actions \X H) BY <1>3, AccountFields, PlanIsWalk
<1>5. Actions \X H \subseteq Steps BY <1>1 DEF Steps
<1> HIDE DEF H
<1>6. planEngine(S) \in Seq(Steps) BY <1>4, <1>5
<1> QED BY <1>6 DEF S

-----------------------------------------------------------------------------
(* Types.                                                                  *)

\* The local variables of a sweep and of a deactivation; a sweep that is to plan has
\* its snapshots, and one that carries a plan out has steps left.
SweepOK(s) ==
  /\ IsRecord(s, {"pc", "mode", "snaps", "todo", "write"})
  /\ s.pc \in {"idle", "read", "plan", "apply", "forget", "verify", "remember"}
  /\ s.mode \in {"native", "observe", "managed"}
  /\ s.snaps = <<>> \/ s.snaps \in [Torrents -> Snapshot]
  /\ s.pc = "plan" => s.snaps \in [Torrents -> Snapshot]
  /\ s.todo \in Seq(Steps)
  /\ s.todo = <<>> <=> s.pc \in {"idle", "read", "plan"}
  /\ s.write \in {"none", "fresh"}
OffOK(o) ==
  /\ IsRecord(o, {"pc", "todo", "resume"})
  /\ o.pc \in {"idle", "mode", "resume", "delete"}
  /\ o.todo \subseteq Torrents /\ o.resume \in BOOLEAN

\* The tables, what people and the clock decide, and the histories.
TablesOK ==
  /\ parked \subseteq Torrents
  /\ overrides \in [Torrents -> SUBSET Kinds]
  /\ mode \in {"native", "observe", "managed"}
  /\ facts \in [Torrents -> Facts] /\ policy \in Policies
  /\ window \in BOOLEAN
  /\ explained \subseteq Torrents
  /\ events \in 0..MaxEvents
EngineOK ==
  /\ engine \in [Torrents -> Snapshot] /\ snap \in [Torrents -> Snapshot]
  /\ stopper \in [Torrents -> {"nobody", "scheduler", "other"}]
NotesOK == note \in [Torrents -> {"none", "fresh", "old"}]

TypeInv == EngineOK /\ NotesOK /\ TablesOK /\ SweepOK(sweep) /\ OffOK(off)

LEMMA TypeInvOK == TypeInv => TypeOK
<1> SUFFICES ASSUME TypeInv PROVE TypeOK OBVIOUS
<1>1. ToSet(sweep.todo) \subseteq Steps
  <2>1. sweep.todo \in Seq(Steps) BY DEF TypeInv, SweepOK
  <2> QED BY <2>1 DEF ToSet
<1> QED BY <1>1 DEF TypeInv, EngineOK, NotesOK, TablesOK, SweepOK, OffOK, TypeOK

LEMMA NoSweepOK == SweepOK(NoSweep) /\ OffOK(NotOff)
<1>1. <<>> \in Seq(Steps) OBVIOUS
<1>2. SweepOK(NoSweep) BY <1>1 DEF SweepOK, IsRecord, NoSweep
<1> QED BY <1>2 DEF OffOK, IsRecord, NotOff

LEMMA CarryOK == ASSUME NEW steps \in Seq(Steps) PROVE SweepOK(Carry(steps))
<1>1. CASE steps = <<>> BY <1>1, NoSweepOK DEF Carry
<1>2. CASE steps # <<>>
  <2> DEFINE c == [NoSweep EXCEPT !.pc = "apply", !.todo = steps]
  <2>1. /\ IsRecord(c, {"pc", "mode", "snaps", "todo", "write"}) /\ c.pc = "apply"
        /\ c.mode = "native" /\ c.snaps = <<>> /\ c.todo = steps /\ c.write = "none"
    BY DEF IsRecord, NoSweep
  <2> HIDE DEF c
  <2>2. Carry(steps) = c BY <1>2 DEF Carry, c
  <2> QED BY <1>2, <2>1, <2>2 DEF SweepOK
<1> QED BY <1>1, <1>2

LEMMA DoneOK ==
  ASSUME SweepOK(sweep), sweep.todo # <<>> PROVE SweepOK(Done)
<1>1. Tail(sweep.todo) \in Seq(Steps) BY DEF SweepOK
<1> QED BY <1>1, CarryOK DEF Done

LEMMA AtOK ==
  ASSUME SweepOK(sweep), sweep.todo # <<>>, NEW pc \in {"forget", "verify", "remember"}
  PROVE  SweepOK(At(pc)) /\ At(pc).todo = sweep.todo /\ At(pc).pc = pc
<1> DEFINE c == At(pc)
<1>1. /\ IsRecord(c, {"pc", "mode", "snaps", "todo", "write"}) /\ c.pc = pc
      /\ c.mode = sweep.mode /\ c.snaps = sweep.snaps /\ c.todo = sweep.todo /\ c.write = sweep.write
  BY DEF At, SweepOK, IsRecord
<1> HIDE DEF c
<1>2. SweepOK(c) BY <1>1 DEF SweepOK
<1> QED BY <1>1, <1>2 DEF c

LEMMA FreshOK ==
  ASSUME SweepOK(sweep), sweep.todo # <<>>
  PROVE  SweepOK([At("remember") EXCEPT !.write = "fresh"])
<1> DEFINE b == At("remember")
           c == [b EXCEPT !.write = "fresh"]
<1>1. SweepOK(b) /\ b.todo # <<>> /\ b.pc = "remember" BY AtOK
<1> HIDE DEF b
<1>2. /\ IsRecord(c, {"pc", "mode", "snaps", "todo", "write"}) /\ c.pc = b.pc
      /\ c.mode = b.mode /\ c.snaps = b.snaps /\ c.todo = b.todo /\ c.write = "fresh"
  BY <1>1 DEF SweepOK, IsRecord
<1> HIDE DEF c
<1>3. SweepOK(c) BY <1>1, <1>2 DEF SweepOK
<1> QED BY <1>3 DEF b, c

\* The torrent of the step in hand.
LEMMA HeadOK ==
  ASSUME SweepOK(sweep), sweep.todo # <<>>
  PROVE  Head(sweep.todo) \in Steps /\ Head(sweep.todo)[2] \in Torrents
<1>1. Head(sweep.todo) \in Steps BY DEF SweepOK
<1> QED BY <1>1 DEF Steps

LEMMA EngineWritten ==
  ASSUME EngineOK, NEW h \in Torrents, NEW s \in States, SetState(h, s)
  PROVE  engine' \in [Torrents -> Snapshot]
<1>1. engine \in [Torrents -> Snapshot] /\ engine[h] \in Snapshot BY DEF EngineOK
<1> DEFINE c == [engine[h] EXCEPT !.state = s]
<1>2. c \in Snapshot BY <1>1 DEF Snapshot
<1>3. engine' = [engine EXCEPT ![h] = c] BY DEF SetState
<1> HIDE DEF c
<1> QED BY <1>1, <1>2, <1>3

LEMMA PauseOK ==
  ASSUME EngineOK, NEW h \in Torrents, NEW who \in {"scheduler", "other"}, EnginePause(h, who)
  PROVE  engine' \in [Torrents -> Snapshot] /\ stopper' \in [Torrents -> {"nobody", "scheduler", "other"}]
<1>1. SetState(h, "paused") BY DEF EnginePause
<1>2. engine' \in [Torrents -> Snapshot] BY <1>1, EngineWritten DEF States
<1>3. stopper \in [Torrents -> {"nobody", "scheduler", "other"}] BY DEF EngineOK
<1>4. stopper' = [stopper EXCEPT ![h] = IF Paused(h) THEN @ ELSE who] BY DEF EnginePause
<1>5. stopper' \in [Torrents -> {"nobody", "scheduler", "other"}] BY <1>3, <1>4
<1> QED BY <1>2, <1>5

LEMMA ResumeOK ==
  ASSUME EngineOK, NEW h \in Torrents, EngineResume(h)
  PROVE  engine' \in [Torrents -> Snapshot] /\ stopper' \in [Torrents -> {"nobody", "scheduler", "other"}]
<1>1. PICK s \in {"running", "queued"} :
        SetState(h, IF engine[h].state \in {"paused", "queued"} THEN s ELSE engine[h].state)
  BY DEF EngineResume
<1>2. engine[h] \in Snapshot BY DEF EngineOK
<1>3. (IF engine[h].state \in {"paused", "queued"} THEN s ELSE engine[h].state) \in States
  BY <1>2 DEF Snapshot, States
<1>4. engine' \in [Torrents -> Snapshot] BY <1>1, <1>3, EngineWritten
<1>5. stopper \in [Torrents -> {"nobody", "scheduler", "other"}] BY DEF EngineOK
<1>6. stopper' = [stopper EXCEPT ![h] = "nobody"] BY DEF EngineResume
<1>7. stopper' \in [Torrents -> {"nobody", "scheduler", "other"}] BY <1>5, <1>6
<1> QED BY <1>4, <1>7

LEMMA EventsOK == ASSUME TablesOK, Happens \/ UNCHANGED events PROVE events' \in 0..MaxEvents
BY BoundAssumption DEF TablesOK, Happens

\* What a step does to each part of the state.
LEMMA SweepStepOK == ASSUME TypeInv, [Next]_vars PROVE SweepOK(sweep')
<1>1. SweepOK(sweep) BY DEF TypeInv
<1>2. \A a, h : Doing(a, h) => sweep.todo # <<>> BY DEF Doing
<1>3. ASSUME sweep.todo # <<>>, sweep' = Done PROVE SweepOK(sweep') BY <1>1, <1>3, DoneOK
<1>4. CASE Tick
  <2>1. mode \in {"native", "observe", "managed"} /\ sweep.pc = "idle"
        /\ sweep' = [sweep EXCEPT !.pc = "read", !.mode = mode]
    BY <1>4 DEF Tick, TypeInv, TablesOK
  <2> DEFINE c == [sweep EXCEPT !.pc = "read", !.mode = mode]
  <2>2. /\ IsRecord(c, {"pc", "mode", "snaps", "todo", "write"}) /\ c.pc = "read"
        /\ c.mode = mode /\ c.snaps = sweep.snaps /\ c.todo = sweep.todo /\ c.write = sweep.write
    BY <1>1 DEF SweepOK, IsRecord
  <2>3. sweep' = c BY <2>1
  <2> HIDE DEF c
  <2>4. SweepOK(c) BY <1>1, <2>1, <2>2 DEF SweepOK
  <2> QED BY <2>3, <2>4
<1>13. CASE ReadSnapshots
  <2>1. snap \in [Torrents -> Snapshot] /\ sweep.pc = "read"
        /\ sweep' = [sweep EXCEPT !.pc = "plan", !.snaps = snap]
    BY <1>13 DEF ReadSnapshots, TypeInv, EngineOK
  <2> DEFINE c == [sweep EXCEPT !.pc = "plan", !.snaps = snap]
  <2>2. /\ IsRecord(c, {"pc", "mode", "snaps", "todo", "write"}) /\ c.pc = "plan"
        /\ c.mode = sweep.mode /\ c.snaps = snap /\ c.todo = sweep.todo /\ c.write = sweep.write
    BY <1>1 DEF SweepOK, IsRecord
  <2>3. sweep' = c BY <2>1
  <2> HIDE DEF c
  <2>4. SweepOK(c) BY <1>1, <2>1, <2>2 DEF SweepOK
  <2> QED BY <2>3, <2>4
<1>5. CASE Plan
  <2>1. sweep.snaps \in [Torrents -> Snapshot]
        /\ facts \in [Torrents -> Facts] /\ policy \in Policies
    BY <1>1, <1>5 DEF Plan, SweepOK, TypeInv, TablesOK
  <2> DEFINE plan == planEngine(PlannerTorrents(sweep.snaps))
             steps == IF sweep.mode = "managed" THEN ApplyOrder(plan) ELSE <<>>
  <2>2. plan \in Seq(Steps) BY <2>1, PlanTyped
  <2>3. sweep' = Carry(steps) BY <1>5 DEF Plan
  <2> HIDE DEF plan
  <2>4. ApplyOrder(plan) \in Seq(Steps) /\ <<>> \in Seq(Steps) BY <2>2, ApplyOrderTyped
  <2>5. steps \in Seq(Steps) BY <2>4
  <2> QED BY <2>3, <2>5, CarryOK
<1>6. CASE \E h \in Torrents : CleanUp(h)
  <2>1. sweep.todo # <<>> /\ (sweep' = Done \/ sweep' = At("forget")) BY <1>2, <1>6 DEF CleanUp
  <2> QED BY <1>1, <1>3, <2>1, AtOK
<1>7. CASE \E h \in Torrents : Forget(h) \/ CommandFails(h) \/ Remember(h)
  BY <1>2, <1>3, <1>7 DEF Forget, CommandFails, Remember
<1>8. CASE \E h \in Torrents : Command(h) \/ CommandIgnored(h)
  <2>1. sweep.todo # <<>> /\ (sweep' = Done \/ sweep' = At("verify"))
    BY <1>2, <1>8 DEF Command, CommandIgnored
  <2> QED BY <1>1, <1>3, <2>1, AtOK
<1>9. CASE \E h \in Torrents : Verify(h)
  <2>1. /\ sweep.todo # <<>>
        /\ \/ sweep' = Done
           \/ sweep' = At("remember")
           \/ sweep' = [At("remember") EXCEPT !.write = "fresh"]
    BY <1>2, <1>9 DEF Verify
  <2> QED BY <1>1, <1>3, <2>1, AtOK, FreshOK
<1>10. CASE Restart BY <1>10, NoSweepOK DEF Restart
<1>11. CASE UNCHANGED sweep BY <1>1, <1>11
<1>12. \/ Tick \/ ReadSnapshots \/ Plan \/ Restart \/ UNCHANGED sweep
       \/ \E h \in Torrents :
            \/ CleanUp(h) \/ Forget(h) \/ CommandFails(h) \/ Remember(h) \/ Command(h)
            \/ CommandIgnored(h) \/ Verify(h)
  BY DEF Next, vars, SetPolicy, SweepStep, DeactivateStep, DeactivateMode, DeactivateDelete, DeactivateResume,
         Sync, Window, EngineStart, Download, GrowOld, Seed, Person, Parking, SetOverride,
         ClearOverride, Activate, SetMode, Deactivate
<1> QED BY <1>4, <1>5, <1>6, <1>7, <1>8, <1>9, <1>10, <1>11, <1>12, <1>13

LEMMA OffStepOK == ASSUME TypeInv, [Next]_vars PROVE OffOK(off')
<1>1. OffOK(off) BY DEF TypeInv
<1>2. CASE \E resume \in BOOLEAN : Deactivate(resume)
  <2>1. PICK r \in BOOLEAN : off' = [pc |-> "mode", todo |-> Held, resume |-> r /\ Held # {}]
    BY <1>2 DEF Deactivate
  <2>2. Held \subseteq Torrents BY DEF Held
  <2> QED BY <2>1, <2>2 DEF OffOK, IsRecord
<1>3. CASE DeactivateMode
  <2> DEFINE o == [off EXCEPT !.pc = "resume"]
  <2>1. IsRecord(o, {"pc", "todo", "resume"}) /\ o.pc = "resume" /\ o.todo = off.todo
        /\ o.resume = off.resume
    BY <1>1 DEF OffOK, IsRecord
  <2>2. off' = o \/ off' = NotOff BY <1>3 DEF DeactivateMode
  <2> HIDE DEF o
  <2>3. OffOK(o) BY <1>1, <2>1 DEF OffOK
  <2> QED BY <2>2, <2>3, NoSweepOK
<1>4. CASE \E h \in Torrents : DeactivateResume(h)
  <2>1. PICK h \in Torrents : DeactivateResume(h) BY <1>4
  <2> DEFINE q == IF off.todo = {h} THEN "delete" ELSE off.pc
             t == off.todo \ {h}
             o == [off EXCEPT !.todo = t, !.pc = q]
  <2>2. off' = o BY <1>1, <2>1 DEF DeactivateResume, OffOK, IsRecord
  <2>3. q \in {"idle", "mode", "resume", "delete"} /\ t \subseteq Torrents BY <1>1 DEF OffOK
  <2> HIDE DEF q, t
  <2>4. IsRecord(o, {"pc", "todo", "resume"}) /\ o.pc = q /\ o.todo = t /\ o.resume = off.resume
    BY <1>1 DEF OffOK, IsRecord
  <2> HIDE DEF o
  <2>5. OffOK(o) BY <1>1, <2>3, <2>4 DEF OffOK
  <2> QED BY <2>2, <2>5
<1>5. CASE DeactivateDelete \/ Restart BY <1>5, NoSweepOK DEF DeactivateDelete, Restart
<1>6. CASE UNCHANGED off BY <1>1, <1>6
<1>7. \/ DeactivateMode \/ DeactivateDelete \/ Restart \/ UNCHANGED off
      \/ \E h \in Torrents : DeactivateResume(h)
      \/ \E resume \in BOOLEAN : Deactivate(resume)
  BY DEF Next, vars, SetPolicy, SweepStep, DeactivateStep, ReadSnapshots, Plan, CleanUp, Forget, Command, CommandFails, CommandIgnored, Verify,
         Remember, Tick, Sync, Window, EngineStart, Download, GrowOld, Seed, Person, Parking,
         SetOverride, ClearOverride, Activate, SetMode
<1> QED BY <1>2, <1>3, <1>4, <1>5, <1>6, <1>7

LEMMA NotesStepOK == ASSUME TypeInv, [Next]_vars PROVE NotesOK'
<1>1. note \in [Torrents -> {"none", "fresh", "old"}] /\ sweep.write \in {"none", "fresh"}
  BY DEF TypeInv, NotesOK, SweepOK
<1>2. \/ note' = [h \in Torrents |-> "none"]
      \/ \E h \in Torrents, w \in {"none", "fresh", "old"} : note' = [note EXCEPT ![h] = w]
      \/ UNCHANGED note
  BY <1>1
  DEF Next, vars, db, SetPolicy, SweepStep, DeactivateStep, ReadSnapshots, Plan, CleanUp, Forget, Command, CommandFails, CommandIgnored, Verify,
      Remember, Tick, Sync, Window, EngineStart, Download, GrowOld, Seed, Person, Parking, SetOverride,
      ClearOverride, Activate, SetMode, Restart, Deactivate, DeactivateMode, DeactivateDelete,
      DeactivateResume
<1> QED BY <1>1, <1>2 DEF NotesOK

LEMMA EngineStepOK == ASSUME TypeInv, [Next]_vars PROVE EngineOK'
<1>1. EngineOK BY DEF TypeInv
<1>2. /\ engine \in [Torrents -> Snapshot] /\ snap \in [Torrents -> Snapshot]
      /\ stopper \in [Torrents -> {"nobody", "scheduler", "other"}]
  BY <1>1 DEF EngineOK
<1>3. snap' = snap \/ snap' = engine
  BY DEF Next, vars, db, SetPolicy, SweepStep, DeactivateStep, ReadSnapshots, Plan, CleanUp, Forget, Command, CommandFails, CommandIgnored, Verify,
         Remember, Tick, Sync, Window, EngineStart, Download, GrowOld, Seed, Person, Parking, SetOverride,
         ClearOverride, Activate, SetMode, Restart, Deactivate, DeactivateMode, DeactivateDelete,
         DeactivateResume
<1>4. \/ \E h \in Torrents, s \in States : SetState(h, s) /\ UNCHANGED stopper
      \/ \E h \in Torrents, who \in {"scheduler", "other"} : EnginePause(h, who)
      \/ \E h \in Torrents : EngineResume(h)
      \/ \E h \in Torrents : Download(h)
      \/ UNCHANGED <<engine, stopper>>
  <2>1. {"running", "checking", "gone"} \subseteq States BY DEF States
  <2>2. CASE SweepStep
    BY <2>1, <2>2 DEF SweepStep, ReadSnapshots, Plan, CleanUp, Forget, Command, CommandFails, CommandIgnored, Verify, Remember
  <2>3. CASE DeactivateStep \/ Restart \/ Tick \/ Sync \/ Window \/ Activate
    BY <2>3 DEF DeactivateStep, DeactivateMode, DeactivateDelete, DeactivateResume, Restart, Tick, Sync,
                Window, Activate
  <2>4. CASE \/ \E m \in {"native", "observe"} : SetMode(m)
             \/ \E p \in Policies : SetPolicy(p)
             \/ \E resume \in BOOLEAN : Deactivate(resume)
    BY <2>4 DEF SetMode, SetPolicy, Deactivate
  <2>5. CASE \E h \in Torrents :
               \/ EngineStart(h) \/ Download(h) \/ GrowOld(h) \/ Seed(h) \/ Person(h) \/ Parking(h)
               \/ \E k \in Kinds : SetOverride(h, k) \/ ClearOverride(h, k)
    BY <2>1, <2>5 DEF EngineStart, GrowOld, Seed, Person, Parking, SetOverride, ClearOverride
  <2>6. CASE UNCHANGED vars BY <2>6 DEF vars
  <2> QED BY <2>2, <2>3, <2>4, <2>5, <2>6 DEF Next
<1>5. engine' \in [Torrents -> Snapshot] /\ stopper' \in [Torrents -> {"nobody", "scheduler", "other"}]
  <2>1. CASE \E h \in Torrents : Download(h)
    <3>1. PICK h \in Torrents : Download(h) BY <2>1
    <3> DEFINE c == [engine[h] EXCEPT !.prog = @ + 1]
    <3>2. engine[h] \in Snapshot /\ engine[h].prog < Full BY <1>2, <3>1 DEF Download
    <3>3. c \in Snapshot BY <3>2, FullAssumption DEF Snapshot
    <3>4. engine' = [engine EXCEPT ![h] = c] /\ UNCHANGED stopper BY <3>1 DEF Download
    <3> HIDE DEF c
    <3> QED BY <1>2, <3>3, <3>4
  <2> QED BY <1>1, <1>2, <1>4, <2>1, EngineWritten, PauseOK, ResumeOK
<1> QED BY <1>2, <1>3, <1>5 DEF EngineOK

LEMMA TablesStepOK == ASSUME TypeInv, [Next]_vars PROVE TablesOK'
<1>1. TablesOK /\ SweepOK(sweep) BY DEF TypeInv
<1>2. events' \in 0..MaxEvents
  <2>1. Happens \/ UNCHANGED events
    BY DEF Acts, Next, vars, db, env, SetPolicy, SweepStep, DeactivateStep, ReadSnapshots, Plan, CleanUp, Forget, Command, CommandFails, CommandIgnored,
      Verify, Remember, Tick, Sync, Window, EngineStart, Download, GrowOld, Seed, Person, Parking,
      SetOverride, ClearOverride, Activate, SetMode, Restart, Deactivate, DeactivateMode,
      DeactivateDelete, DeactivateResume
  <2> QED BY <1>1, <2>1, EventsOK
<1>3. explained' \subseteq Torrents
  <2>1. explained \subseteq Torrents /\ Held \subseteq Torrents BY <1>1 DEF TablesOK, Held
  <2>2. sweep.pc \in {"verify", "remember"} => Head(sweep.todo)[2] \in Torrents
    BY <1>1, HeadOK DEF SweepOK
  <2>3. CASE SweepStep
    BY <2>1, <2>3 DEF SweepStep, ReadSnapshots, Plan, CleanUp, Forget, Command, CommandFails, CommandIgnored, Verify, Remember
  <2>4. CASE DeactivateStep
    BY <2>1, <2>4 DEF DeactivateStep, DeactivateMode, DeactivateDelete, DeactivateResume
  <2>5. CASE Restart BY <2>1, <2>2, <2>5 DEF Restart
  <2>6. CASE \E h \in Torrents : Person(h) \/ Parking(h)
    BY <2>1, <2>6 DEF Person, Parking, Outlived
  <2>7. CASE \/ Tick \/ Sync \/ Window \/ Activate \/ UNCHANGED vars
             \/ \E m \in {"native", "observe"} : SetMode(m)
             \/ \E p \in Policies : SetPolicy(p)
             \/ \E resume \in BOOLEAN : Deactivate(resume)
             \/ \E h \in Torrents :
                  \/ EngineStart(h) \/ Download(h) \/ GrowOld(h) \/ Seed(h)
                  \/ \E k \in Kinds : SetOverride(h, k) \/ ClearOverride(h, k)
    BY <2>1, <2>7 DEF vars, Tick, Sync, Window, Activate, SetMode, SetPolicy, Deactivate, EngineStart, Download,
                      GrowOld, Seed, SetOverride, ClearOverride
  <2> QED BY <2>3, <2>4, <2>5, <2>6, <2>7 DEF Next
<1>4. parked' \subseteq Torrents /\ window' \in BOOLEAN
  <2>1. parked \subseteq Torrents /\ window \in BOOLEAN BY <1>1 DEF TablesOK
  <2>2. UNCHANGED window \/ window' = ~window
    BY DEF Next, vars, db, env, SetPolicy, SweepStep, DeactivateStep, ReadSnapshots, Plan, CleanUp, Forget, Command, CommandFails, CommandIgnored,
      Verify, Remember, Tick, Sync, Window, EngineStart, Download, GrowOld, Seed, Person, Parking,
      SetOverride, ClearOverride, Activate, SetMode, Restart, Deactivate, DeactivateMode,
      DeactivateDelete, DeactivateResume
  <2>3. UNCHANGED parked \/ \E h \in Torrents : parked' = parked \cup {h} \/ parked' = parked \ {h}
    BY DEF Next, vars, db, env, SetPolicy, SweepStep, DeactivateStep, ReadSnapshots, Plan, CleanUp, Forget, Command, CommandFails, CommandIgnored,
      Verify, Remember, Tick, Sync, Window, EngineStart, Download, GrowOld, Seed, Person, Parking,
      SetOverride, ClearOverride, Activate, SetMode, Restart, Deactivate, DeactivateMode,
      DeactivateDelete, DeactivateResume
  <2> QED BY <2>1, <2>2, <2>3
<1>5. mode' \in {"native", "observe", "managed"}
  <2>1. UNCHANGED mode \/ mode' \in {"native", "observe", "managed"}
    BY DEF Next, vars, db, env, SetPolicy, SweepStep, DeactivateStep, ReadSnapshots, Plan, CleanUp, Forget, Command, CommandFails, CommandIgnored,
      Verify, Remember, Tick, Sync, Window, EngineStart, Download, GrowOld, Seed, Person, Parking,
      SetOverride, ClearOverride, Activate, SetMode, Restart, Deactivate, DeactivateMode,
      DeactivateDelete, DeactivateResume
  <2> QED BY <1>1, <2>1 DEF TablesOK
<1>6. overrides' \in [Torrents -> SUBSET Kinds]
  <2>1. overrides \in [Torrents -> SUBSET Kinds] BY <1>1 DEF TablesOK
  <2>2. UNCHANGED overrides \/ \E h \in Torrents, k \in Kinds : SetOverride(h, k) \/ ClearOverride(h, k)
    <3>1. CASE \/ SweepStep \/ DeactivateStep \/ Restart \/ Tick \/ Sync \/ Window \/ Activate
               \/ \E m \in {"native", "observe"} : SetMode(m)
               \/ \E p \in Policies : SetPolicy(p)
               \/ \E resume \in BOOLEAN : Deactivate(resume)
               \/ UNCHANGED vars
      BY <3>1 DEF vars, db, SetPolicy, SweepStep, DeactivateStep, ReadSnapshots, Plan, CleanUp, Forget, Command, CommandFails, CommandIgnored,
        Verify, Remember, Tick, Sync, Window, Activate, SetMode, Restart, Deactivate, DeactivateMode,
        DeactivateDelete, DeactivateResume
    <3>2. CASE \E h \in Torrents : EngineStart(h) \/ Download(h) \/ GrowOld(h) \/ Seed(h) \/ Person(h) \/ Parking(h)
      <4>1. UNCHANGED overrides BY <3>2 DEF db, EngineStart, Download, GrowOld, Seed, Person, Parking
      <4> QED BY <4>1
    <3>3. CASE \E h \in Torrents, k \in Kinds : SetOverride(h, k) \/ ClearOverride(h, k) BY <3>3
    <3> QED BY <3>1, <3>2, <3>3 DEF Next
  <2>3. \A h \in Torrents, k \in Kinds :
          /\ SetOverride(h, k) => overrides' = [overrides EXCEPT ![h] = @ \cup {k}]
          /\ ClearOverride(h, k) => overrides' = [overrides EXCEPT ![h] = @ \ {k}]
    BY DEF SetOverride, ClearOverride
  <2>4. \A h \in Torrents, k \in Kinds :
          /\ [overrides EXCEPT ![h] = @ \cup {k}] \in [Torrents -> SUBSET Kinds]
          /\ [overrides EXCEPT ![h] = @ \ {k}] \in [Torrents -> SUBSET Kinds]
    BY <2>1
  <2> QED BY <2>1, <2>2, <2>3, <2>4
<1>7. facts' \in [Torrents -> Facts]
  <2> DEFINE F == Facts
  <2>1. facts \in [Torrents -> F] BY <1>1 DEF TablesOK
  <2> DEFINE Changed(h) == \/ \E v \in Verdict : facts' = [facts EXCEPT ![h].target = v]
                           \/ facts' = [facts EXCEPT ![h].late = TRUE]
                           \/ \E l \in {1, 2} : facts' = [facts EXCEPT ![h].library = l]
  <2>2. UNCHANGED facts \/ \E h \in Torrents : Changed(h)
    <3>1. CASE \/ SweepStep \/ DeactivateStep \/ Restart \/ Tick \/ Sync \/ Window \/ Activate
               \/ \E m \in {"native", "observe"} : SetMode(m)
               \/ \E p \in Policies : SetPolicy(p)
               \/ \E resume \in BOOLEAN : Deactivate(resume)
               \/ UNCHANGED vars
      BY <3>1 DEF vars, env, SetPolicy, SweepStep, DeactivateStep, ReadSnapshots, Plan, CleanUp, Forget, Command, CommandFails, CommandIgnored,
        Verify, Remember, Tick, Sync, Window, Activate, SetMode, Restart, Deactivate, DeactivateMode,
        DeactivateDelete, DeactivateResume
    <3>2. CASE \E h \in Torrents :
                 \/ EngineStart(h) \/ Download(h) \/ GrowOld(h) \/ Person(h) \/ Parking(h)
                 \/ \E k \in Kinds : SetOverride(h, k) \/ ClearOverride(h, k)
      <4>1. UNCHANGED facts
        BY <3>2 DEF env, EngineStart, Download, GrowOld, Person, Parking, SetOverride, ClearOverride
      <4> QED BY <4>1
    <3>3. CASE \E h \in Torrents : Seed(h)
      <4>1. PICK h \in Torrents : Seed(h) BY <3>3
      <4>2. Changed(h) BY <4>1, Zenon DEF Seed
      <4> HIDE DEF Changed
      <4> QED BY <4>2
    <3> QED BY <3>1, <3>2, <3>3 DEF Next
  <2>3. ASSUME NEW h \in Torrents, NEW c \in F, facts' = [facts EXCEPT ![h] = c]
        PROVE  facts' \in [Torrents -> F]
    <3> HIDE DEF F
    <3> QED BY <2>1, <2>3
  <2>4. ASSUME NEW h \in Torrents, NEW v \in Verdict, facts' = [facts EXCEPT ![h].target = v]
        PROVE  facts' \in [Torrents -> F]
    <3>1. [facts[h] EXCEPT !.target = v] \in F BY <2>1 DEF Facts
    <3>2. facts' = [facts EXCEPT ![h] = [facts[h] EXCEPT !.target = v]] BY <2>4
    <3> QED BY <2>3, <3>1, <3>2
  <2>5. ASSUME NEW h \in Torrents, facts' = [facts EXCEPT ![h].late = TRUE]
        PROVE  facts' \in [Torrents -> F]
    <3>1. [facts[h] EXCEPT !.late = TRUE] \in F BY <2>1 DEF Facts
    <3>2. facts' = [facts EXCEPT ![h] = [facts[h] EXCEPT !.late = TRUE]] BY <2>5
    <3> QED BY <2>3, <3>1, <3>2
  <2>6. ASSUME NEW h \in Torrents, NEW l \in {1, 2}, facts' = [facts EXCEPT ![h].library = l]
        PROVE  facts' \in [Torrents -> F]
    <3>1. [facts[h] EXCEPT !.library = l] \in F BY <2>1 DEF Facts
    <3>2. facts' = [facts EXCEPT ![h] = [facts[h] EXCEPT !.library = l]] BY <2>6
    <3> QED BY <2>3, <3>1, <3>2
  <2> QED BY <2>1, <2>2, <2>4, <2>5, <2>6
<1>8. policy' \in Policies
  <2>1. UNCHANGED policy \/ \E p \in Policies : policy' = p
    <3>1. CASE \/ SweepStep \/ DeactivateStep \/ Restart \/ Tick \/ Sync \/ Window \/ Activate
               \/ \E m \in {"native", "observe"} : SetMode(m)
               \/ \E p \in Policies : SetPolicy(p)
               \/ \E resume \in BOOLEAN : Deactivate(resume)
               \/ UNCHANGED vars
      BY <3>1 DEF vars, env, SetPolicy, SweepStep, DeactivateStep, ReadSnapshots, Plan, CleanUp, Forget,
        Command, CommandFails, CommandIgnored, Verify, Remember, Tick, Sync, Window, Activate, SetMode,
        Restart, Deactivate, DeactivateMode, DeactivateDelete, DeactivateResume
    <3>2. CASE \E h \in Torrents :
                 \/ EngineStart(h) \/ Download(h) \/ GrowOld(h) \/ Seed(h) \/ Person(h) \/ Parking(h)
                 \/ \E k \in Kinds : SetOverride(h, k) \/ ClearOverride(h, k)
      <4>1. UNCHANGED policy
        BY <3>2 DEF env, EngineStart, Download, GrowOld, Seed, Person, Parking, SetOverride, ClearOverride
      <4> QED BY <4>1
    <3> QED BY <3>1, <3>2 DEF Next
  <2> QED BY <1>1, <2>1 DEF TablesOK
<1> QED BY <1>2, <1>3, <1>4, <1>5, <1>6, <1>7, <1>8 DEF TablesOK

LEMMA FactsOf ==
  ASSUME NEW V, NEW L, NEW R, NEW V0, NEW L0, NEW R0, V0 \subseteq V, L0 \subseteq L, R0 \subseteq R
  PROVE  [target : V0, late : L0, library : R0] \subseteq [target : V, late : L, library : R]
OBVIOUS

LEMMA TypeInitially == Init => TypeInv
<1> SUFFICES ASSUME Init PROVE TypeInv OBVIOUS
<1>1. /\ engine \in [Torrents -> [state : {"running"}, prog : 0..Full]] /\ snap = engine
      /\ facts \in [Torrents -> [target : {"not_met", "met"}, late : {FALSE}, library : {0, 2}]]
      /\ policy \in Policies
      /\ note = [h \in Torrents |-> "none"] /\ parked = {} /\ overrides = [h \in Torrents |-> {}]
      /\ mode = "managed" /\ window = FALSE /\ sweep = NoSweep /\ off = NotOff
      /\ stopper = [h \in Torrents |-> "nobody"] /\ explained = {} /\ events = 0
  BY DEF Init
<1>2. engine \in [Torrents -> Snapshot]
  <2>1. [state : {"running"}, prog : 0..Full] \subseteq Snapshot BY DEF Snapshot, States
  <2> HIDE DEF Snapshot
  <2> QED BY <1>1, <2>1
<1>3. facts \in [Torrents -> Facts]
  <2> DEFINE A == [target : {"not_met", "met"}, late : {FALSE}, library : {0, 2}]
             B == Facts
  <2>1. A \subseteq B
    <3>1. {"not_met", "met"} \subseteq Verdict BY DEF Verdict
    <3>2. {FALSE} \subseteq BOOLEAN OBVIOUS
    <3>3. {0, 2} \subseteq 0..2 BY SMT
    <3> QED BY <3>1, <3>2, <3>3, FactsOf DEF Facts
  <2>2. facts \in [Torrents -> A] BY <1>1
  <2> HIDE DEF A, B
  <2>3. facts \in [Torrents -> B] BY <2>1, <2>2
  <2> QED BY <2>3 DEF B
<1>4. EngineOK BY <1>1, <1>2 DEF EngineOK
<1>5. TablesOK
  <2>1. 0 \in 0..MaxEvents BY BoundAssumption
  <2>2. [h \in Torrents |-> {}] \in [Torrents -> SUBSET Kinds] OBVIOUS
  <2>3. /\ parked = {} /\ overrides = [h \in Torrents |-> {}] /\ mode = "managed" /\ window = FALSE
        /\ explained = {} /\ events = 0 /\ policy \in Policies
    BY <1>1
  <2> QED BY <1>3, <2>1, <2>2, <2>3 DEF TablesOK
<1>6. NotesOK BY <1>1 DEF NotesOK
<1> QED BY <1>1, <1>4, <1>5, <1>6, NoSweepOK DEF TypeInv

LEMMA TypeStep == TypeInv /\ [Next]_vars => TypeInv'
<1> SUFFICES ASSUME TypeInv, [Next]_vars PROVE TypeInv' OBVIOUS
<1>1. SweepOK(sweep') /\ OffOK(off') BY SweepStepOK, OffStepOK
<1>2. SweepOK(sweep)' /\ OffOK(off)' BY <1>1 DEF SweepOK, OffOK
<1> QED BY <1>2, EngineStepOK, NotesStepOK, TablesStepOK DEF TypeInv

\* In every reachable state the tables have the columns the code declares and a sweep
\* carries out steps of some plan, on torrents of which there are finitely many.
THEOREM TypeInvariant == Spec => []TypeInv
BY TypeInitially, TypeStep, PTL DEF Spec

\* The variables have their types, whatever planEngine returns to the sweep: its steps
\* are known actions on known torrents.
THEOREM TypeCorrect == Spec => []TypeOK
BY TypeInvariant, TypeInvOK, PTL

\* Of the plan that planEngine makes of the snapshots a sweep has read, for any number of
\* torrents, any policies and any budget: who is vetoed or under somebody's authority is
\* left alone, nothing is removed that the seeding policy does not give up, no slot is
\* handed out beyond a limit or the budget, and no torrent waits while a less urgent one
\* of its kind runs or a slot is free, unless the budget of actions is spent.
THEOREM PlansSound == Spec => []PlanIsSound
<1>1. TypeInv => PlanIsSound
  <2> SUFFICES ASSUME TypeInv, sweep.pc = "plan"
               PROVE  Sound(PlannerTorrents(sweep.snaps), PlanOf(PlannerTorrents(sweep.snaps)))
    BY DEF PlanIsSound, PlanOf
  <2>1. Plannable(PlannerTorrents(sweep.snaps))
    BY TorrentsPlannable DEF TypeInv, SweepOK, TablesOK
  <2> QED BY <2>1, PlanSound
<1> QED BY <1>1, TypeInvariant, PTL
==============================================================================
