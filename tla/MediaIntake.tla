------------------------------ MODULE MediaIntake ------------------------------
(***************************************************************************)
(* Media intake of one downloaded payload (media-intake): what triggers an *)
(* intake, the pipeline that drives it through its stages, the operator's  *)
(* controls, the seeding reconciler and supersession.                      *)
(*                                                                         *)
(* A job row is the intake of the payload under its idempotency key; there *)
(* are several only because supersession frees the key.  Every call is an  *)
(* activation that yields at each database access; transition() is a read  *)
(* with a check and then an unconditional write.                           *)
(*                                                                         *)
(* Left out: what a stage measures (any stage that can may throw or ask    *)
(* for quarantine), several files per payload, the event timeline, storage *)
(* profiles (one exists), placement by reflink and by provider relocation, *)
(* the fallback from a link to a copy (a run with Strategy = "copy" is it),*)
(* the second try at failed after a refused quarantine.                    *)
(***************************************************************************)
EXTENDS IntakeState, Naturals, FiniteSets

CONSTANTS
  Jobs,         \* job ids
  NoJob,
  Calls,        \* activations that can be in flight together
  Strategy,     \* how files are placed: "hardlink", "copy" or "move"
  Occupied,     \* another release holds the canonical name from the start
  RuleManaged,  \* the payload comes from a managed RSS rule, else from an intent
  Sources,      \* who acts, besides the stages
  ReleaseTo,    \* the states an operator's release may name
  MaxEdges,     \* bound: torrent.completed events
  MaxTries,     \* bound: retries
  MaxAdds,      \* bound: times the torrent is added again
  MaxRestarts   \* bound: restarts of the process

ASSUME StrategyAssumption == Strategy \in {"hardlink", "copy", "move"}
ASSUME RuleAssumption == {RuleManaged, Occupied} \subseteq BOOLEAN
ASSUME BoundsAssumption == {MaxEdges, MaxTries, MaxAdds, MaxRestarts} \subseteq Nat
ASSUME ReleaseAssumption == ReleaseTo \subseteq INTAKE_STATES
ASSUME JobAssumption == NoJob \notin Jobs

VARIABLES
  row,      \* database: job -> [state, key, resume, lib, placed]
  intent,   \* database: the intent of the payload
  engine,   \* the torrent is in the engine, complete
  source,   \* the payload is in staging
  canon,    \* what holds the canonical name in the library
  copies,   \* files made from the payload in the library, counted up to 2
  act,      \* activation -> where it stands and its local variables
  used      \* how much of each bound is used up

vars == <<row, intent, engine, source, canon, copies, act, used>>
world == <<engine, source, canon, copies>>

\* The stages registered with the pipeline, by the state they produce.
Registered ==
  {"verified", "identified", "quality_scored", "ready_to_import", "importing",
   "imported", "metadata_ready", "artwork_ready", "subtitle_ready", "seeding"}

Row == [state : INTAKE_STATES \cup {"absent"}, key : BOOLEAN,
        resume : INTAKE_STATES \cup {"none"}, lib : BOOLEAN, placed : BOOLEAN]
Phases == {"idle", "find", "create", "spend", "load", "stage", "place", "aside", "exec",
           "record", "check", "commit", "archive"}
Callers == {"none", "edge", "sweep", "operator", "reconciler"}
Activation == [pc : Phases, by : Callers, j : Jobs \cup {NoJob},
               state : INTAKE_STATES, to : INTAKE_STATES, from : INTAKE_STATES,
               resume : INTAKE_STATES \cup {"none"}, pipeline : BOOLEAN]

\* Rows, activations and the file system keep their types; a stage that ran past
\* the end of the line would not.
TypeOK ==
  /\ row \in [Jobs -> Row]
  /\ intent \in {"none", "open", "consumed"}
  /\ engine \in BOOLEAN /\ source \in BOOLEAN
  /\ canon \in {"none", "linked", "other"} /\ copies \in 0..2
  /\ act \in [Calls -> Activation]
  /\ used \in [edges : 0..MaxEdges, tries : 0..MaxTries, adds : 0..MaxAdds,
               restarts : 0..MaxRestarts]

Absent == [state |-> "absent", key |-> FALSE, resume |-> "none", lib |-> FALSE,
           placed |-> FALSE]
Idle == [pc |-> "idle", by |-> "none", j |-> NoJob, state |-> "completed",
         to |-> "completed", from |-> "completed", resume |-> "none", pipeline |-> FALSE]

\* The download has finished; nothing has been taken up yet.
Init ==
  /\ row = [j \in Jobs |-> Absent]
  /\ intent = IF RuleManaged THEN "none" ELSE "open"
  /\ engine = TRUE /\ source = TRUE
  /\ canon = (IF Occupied THEN "other" ELSE "none") /\ copies = 0
  /\ act = [c \in Calls |-> Idle]
  /\ used = [edges |-> 0, tries |-> 0, adds |-> 0, restarts |-> 0]

State(j) == row[j].state
At(c, p) == act[c].pc = p
Goto(c, p) == act' = [act EXCEPT ![c].pc = p]
Return(c) == act' = [act EXCEPT ![c] = Idle]
Begin(c, p, who, j) ==
  /\ At(c, "idle")
  /\ act' = [act EXCEPT ![c] = [Idle EXCEPT !.pc = p, !.by = who, !.j = j]]
\* The pipeline's loop goes on from state s.
LoopAt(c, s) ==
  act' = [act EXCEPT ![c] = [Idle EXCEPT !.pc = "stage", !.by = act[c].by, !.j = act[c].j,
                                         !.state = s, !.pipeline = TRUE]]
\* transition(to) is next for activation c.
Ask(c, to) == act' = [act EXCEPT ![c].pc = "check", ![c].to = to]
Spend(b, max) == used[b] < max /\ used' = [used EXCEPT ![b] = @ + 1]

----------------------------------------------------------------------------
(* What starts an intake: onCompleted and sweepIntents, then stage.         *)

\* intentFor and ruleFor: an open intent answers first, then the managed rule.
Managed == intent = "open" \/ RuleManaged

\* torrent.completed.
OnCompleted(c) ==
  /\ "edge" \in Sources /\ engine
  /\ Spend("edges", MaxEdges)
  /\ IF Managed THEN Begin(c, "find", "edge", NoJob)
     ELSE At(c, "idle") /\ UNCHANGED act
  /\ UNCHANGED <<row, intent, world>>

Sweeping == \E c \in Calls : act[c].by = "sweep" /\ act[c].pc \in {"find", "create", "spend"}

\* sweepIntents: an unspent intent whose torrent the engine reports complete.
SweepIntents(c) ==
  /\ "sweep" \in Sources /\ ~Sweeping
  /\ intent = "open" /\ engine
  /\ Begin(c, "find", "sweep", NoJob)
  /\ UNCHANGED <<row, intent, world, used>>

\* Mutant: the intent is spent before the intake exists.
FindJobSpends(c) ==
  /\ At(c, "find")
  /\ intent' = IF intent = "open" THEN "consumed" ELSE intent
  /\ Goto(c, "create")
  /\ UNCHANGED <<row, world, used>>

\* enqueue: the job that has the key is the answer.
FindJob(c) ==
  /\ At(c, "find")
  /\ \/ /\ \A j \in Jobs : ~row[j].key
        /\ Goto(c, "create")
     \/ \E j \in Jobs : row[j].key /\ act' = [act EXCEPT ![c].pc = "spend", ![c].j = j]
  /\ UNCHANGED <<row, intent, world, used>>

\* The insert; the unique key makes it throw when another call was faster.
CreateJob(c) ==
  /\ At(c, "create")
  /\ \/ /\ \E j \in Jobs : row[j].key
        /\ Return(c) /\ UNCHANGED row
     \/ /\ \A j \in Jobs : ~row[j].key
        /\ \E j \in Jobs :
             /\ State(j) = "absent"
             /\ row' = [row EXCEPT ![j] = [Absent EXCEPT !.state = "completed", !.key = TRUE]]
             /\ act' = [act EXCEPT ![c].pc = "spend", ![c].j = j]
  /\ UNCHANGED <<intent, world, used>>

\* Mutant: enqueued and never run.
SpendIntentStops(c) ==
  /\ At(c, "spend")
  /\ intent' = IF intent = "open" THEN "consumed" ELSE intent
  /\ Return(c)
  /\ UNCHANGED <<row, world, used>>

\* The intent is closed, then the pipeline runs, whatever state the job is in.
SpendIntent(c) ==
  /\ At(c, "spend")
  /\ intent' = IF intent = "open" THEN "consumed" ELSE intent
  /\ Goto(c, "load")
  /\ UNCHANGED <<row, world, used>>

----------------------------------------------------------------------------
(* IntakePipelineService.advance.                                           *)

Load(c) ==
  /\ At(c, "load")
  /\ LoopAt(c, State(act[c].j))
  /\ UNCHANGED <<row, intent, world, used>>

\* What a stage may ask for: the state it produces, quarantine, or failed because
\* it threw.  verifyStage looks at the source ...
VerifyAsks == {"quarantined"} \cup (IF source THEN {"verified"} ELSE {})
\* ... identifyStage for a library of the release's kind, which it records ...
IdentifyAsks == {"identified", "quarantined", "failed"}
\* ... readyStage at the library recorded ...
ReadyAsks(j) ==
  {"quarantined", "failed"} \cup (IF row[j].lib THEN {"ready_to_import"} ELSE {})
\* ... metadataStage for the item of the file recorded as imported.
MetadataAsks(j) ==
  {"quarantined", "failed"} \cup
    (IF row[j].lib /\ row[j].placed THEN {"metadata_ready"} ELSE {})
\* Artwork and subtitles are best effort, but the read of the job before them may
\* throw; seedingStage, which tells the media server, catches everything.
EnrichAsks(want) == {want} \cup (IF want = "seeding" THEN {} ELSE {"failed"})

\* The stage table.  qualityStage is best effort too; importingStage only marks.
StageAsks(j, want) ==
  CASE want = "verified"        -> VerifyAsks
    [] want = "identified"      -> IdentifyAsks
    [] want = "ready_to_import" -> ReadyAsks(j)
    [] want = "metadata_ready"  -> MetadataAsks(j)
    [] want \in {"artwork_ready", "subtitle_ready", "seeding"} -> EnrichAsks(want)
    [] want = "quality_scored"  -> {want, "failed"}
    [] want = "importing"       -> {want}

\* Mutant: a state nobody produces is skipped instead of stopped at.
RunStageSkips(c) ==
  /\ At(c, "stage")
  /\ Ask(c, NextState(act[c].state))
  /\ UNCHANGED <<row, intent, world, used>>

\* One turn of the loop: the stage after the local state, if there is one.
RunStage(c) ==
  /\ At(c, "stage")
  /\ LET j    == act[c].j
         want == NextState(act[c].state)
     IN \/ want \notin Registered /\ Return(c) /\ UNCHANGED row
        \/ want = "imported" /\ Goto(c, "place") /\ UNCHANGED row
        \/ /\ want \in Registered \ {"imported"}
           /\ \E to \in StageAsks(j, want) :
                /\ Ask(c, to)
                /\ row' = IF to = "identified" THEN [row EXCEPT ![j].lib = TRUE] ELSE row
  /\ UNCHANGED <<intent, world, used>>

\* Mutant: whatever holds the name is set aside.
PlaceSetsAside(c) ==
  /\ At(c, "place")
  /\ IF ~row[act[c].j].lib \/ ~source THEN Ask(c, "quarantined")
     ELSE IF canon = "none" THEN Goto(c, "exec") ELSE Goto(c, "aside")
  /\ UNCHANGED <<row, intent, world, used>>

\* Mutant: the file found to be placed already is not recorded.
PlaceForgetsFound(c) ==
  /\ At(c, "place")
  /\ IF ~row[act[c].j].lib \/ ~source THEN Ask(c, "quarantined")
     ELSE CASE canon = "none"   -> Goto(c, "exec")
            [] canon = "linked" -> Ask(c, "imported")
            [] canon = "other"  -> Goto(c, "aside")
  /\ UNCHANGED <<row, intent, world, used>>

\* Mutant: the destination library is not looked up.
PlaceAnywhere(c) ==
  /\ At(c, "place") /\ source
  /\ Goto(c, CASE canon = "none" -> "exec" [] canon = "linked" -> "record"
                [] canon = "other" -> "aside")
  /\ UNCHANGED <<row, intent, world, used>>

\* importedStage: the plan, which may throw or yield nothing to place, and a look at
\* the destination.  The same inode is this payload, placed before; any other file has
\* to make room.
Place(c) ==
  /\ At(c, "place")
  /\ \/ \E to \in {"quarantined", "failed"} : Ask(c, to)
     \/ /\ row[act[c].j].lib /\ source
        /\ Goto(c, CASE canon = "none" -> "exec" [] canon = "linked" -> "record"
                      [] canon = "other" -> "aside")
  /\ UNCHANGED <<row, intent, world, used>>

\* setAside: whatever has the name by now is renamed; a rename may throw.
SetAside(c) ==
  /\ At(c, "aside")
  /\ \/ Ask(c, "failed") /\ UNCHANGED canon
     \/ Goto(c, "exec") /\ canon' = "none"
  /\ UNCHANGED <<row, intent, engine, source, copies, used>>

\* assertDestinationFree.
DestinationFree == canon = "none"

\* placeFile: never onto an occupied name.
PlaceFile ==
  /\ DestinationFree /\ source
  /\ canon' = IF Strategy = "hardlink" THEN "linked" ELSE "other"
  /\ copies' = IF copies < 2 THEN copies + 1 ELSE copies
  /\ source' = (Strategy # "move")
  /\ UNCHANGED engine

\* ImportStrategyService.execute; it may throw.
Execute(c) ==
  /\ At(c, "exec")
  /\ \/ Ask(c, "failed") /\ UNCHANGED world
     \/ PlaceFile /\ Goto(c, "record")
  /\ UNCHANGED <<row, intent, used>>

\* importedPath.
RecordPlaced(c) ==
  /\ At(c, "record")
  /\ row' = [row EXCEPT ![act[c].j].placed = TRUE]
  /\ Ask(c, "imported")
  /\ UNCHANGED <<intent, world, used>>

----------------------------------------------------------------------------
(* MediaIntakeService.transition.                                           *)

\* The read and the check.  The pipeline turns a refusal into failed; a refused
\* failed, and a refusal to anyone else, is an error to the caller.
CheckMove(c) ==
  /\ At(c, "check")
  /\ LET r == row[act[c].j]
     IN \/ /\ CanTransition(r.state, act[c].to)
           /\ act' = [act EXCEPT ![c].pc = "commit", ![c].from = r.state,
                                 ![c].resume = r.resume]
        \/ /\ ~CanTransition(r.state, act[c].to)
           /\ IF act[c].pipeline /\ act[c].to # "failed"
                THEN Ask(c, "failed") ELSE Return(c)
  /\ UNCHANGED <<row, intent, world, used>>

\* Mutant: where it failed is read again when the failure is written.
CommitRereads(c) ==
  /\ At(c, "commit")
  /\ row' = [row EXCEPT ![act[c].j].state = act[c].to,
                        ![act[c].j].resume = IF act[c].to = "failed"
                                               THEN State(act[c].j) ELSE act[c].resume]
  /\ IF act[c].pipeline /\ act[c].to = NextState(act[c].state)
       THEN LoopAt(c, act[c].to) ELSE Return(c)
  /\ UNCHANGED <<intent, world, used>>

\* The write, without a condition on the state read; the pipeline goes on from
\* the state it wanted and stops at failed or quarantined.
CommitMove(c) ==
  /\ At(c, "commit")
  /\ LET to == act[c].to
     IN /\ row' = [row EXCEPT
             ![act[c].j].state = to,
             ![act[c].j].resume = CASE to = "failed" -> act[c].from
                                    [] to = "queued" -> "none"
                                    [] OTHER -> act[c].resume]
        /\ IF act[c].pipeline /\ to = NextState(act[c].state)
             THEN LoopAt(c, to) ELSE Return(c)
  /\ UNCHANGED <<intent, world, used>>

----------------------------------------------------------------------------
(* The operator, the reconciler, supersession and restarts.                 *)

Advance(c, j) ==
  /\ "advance" \in Sources /\ State(j) # "absent"
  /\ Begin(c, "load", "operator", j)
  /\ UNCHANGED <<row, intent, world, used>>

\* retry: back to the state the failure happened in; nothing runs it on.
Retry(c, j) ==
  /\ "retry" \in Sources /\ State(j) = "failed" /\ At(c, "idle")
  /\ Spend("tries", MaxTries)
  /\ act' = [act EXCEPT ![c] = [Idle EXCEPT
       !.pc = "check", !.by = "operator", !.j = j,
       !.to = IF row[j].resume = "none" THEN "completed" ELSE row[j].resume]]
  /\ UNCHANGED <<row, intent, world>>

\* cancel, and release to a state the operator names: transition judges both.
Operate(c, j, to) ==
  /\ IF to = "cancelled" THEN "cancel" \in Sources ELSE "release" \in Sources
  /\ State(j) # "absent" /\ At(c, "idle")
  /\ act' = [act EXCEPT ![c] = [Idle EXCEPT !.pc = "check", !.by = "operator", !.j = j,
                                            !.to = to]]
  /\ UNCHANGED <<row, intent, world, used>>

\* reconcile: a seeding intake whose torrent is gone.
Reconcile(c, j) ==
  /\ "reconcile" \in Sources /\ State(j) = "seeding" /\ ~engine /\ At(c, "idle")
  /\ \A d \in Calls : act[d].by # "reconciler"
  /\ act' = [act EXCEPT ![c] = [Idle EXCEPT !.pc = "check", !.by = "reconciler", !.j = j,
                                            !.to = "archived"]]
  /\ UNCHANGED <<row, intent, world, used>>

\* The RSS history reset: a live torrent goes with its payload and its library
\* copy, then the jobs do.  A file of another release keeps the name.
TearDown(c) ==
  /\ "supersede" \in Sources
  /\ Begin(c, "archive", "operator", NoJob)
  /\ \/ /\ engine /\ engine' = FALSE /\ source' = FALSE /\ copies' = 0
        /\ canon' \in {"none"} \cup ({canon} \ {"linked"})
     \/ ~engine /\ UNCHANGED world
  /\ UNCHANGED <<row, intent, used>>

\* supersedeByHash: archived and the key freed, from any state.
SupersedeByHash(c) ==
  /\ At(c, "archive")
  /\ row' = [j \in Jobs |->
       IF State(j) \in {"absent", "archived"} THEN row[j]
       ELSE [row[j] EXCEPT !.state = "archived", !.key = FALSE]]
  /\ Return(c)
  /\ UNCHANGED <<intent, world, used>>

\* The operator removes the torrent, with or without its data ...
RemoveTorrent ==
  /\ "remove" \in Sources /\ engine
  /\ engine' = FALSE
  /\ source' \in {source, FALSE}
  /\ UNCHANGED <<row, intent, canon, copies, act, used>>

\* ... and adds it again for managed intake, which reopens the intent; a failure
\* to record it is only logged.
AddAgain ==
  /\ ~engine /\ Spend("adds", MaxAdds)
  /\ engine' = TRUE /\ source' = TRUE
  /\ intent' \in {"open", intent}
  /\ canon' = IF source \/ canon = "none" THEN canon ELSE "other"
  /\ UNCHANGED <<row, copies, act>>

\* Nothing of an intake is resumed on boot.
Restart ==
  /\ Spend("restarts", MaxRestarts)
  /\ act' = [c \in Calls |-> Idle]
  /\ UNCHANGED <<row, intent, world>>

----------------------------------------------------------------------------
Step(c) ==
  \/ FindJob(c) \/ CreateJob(c) \/ SpendIntent(c)
  \/ Load(c) \/ RunStage(c) \/ Place(c) \/ SetAside(c) \/ Execute(c) \/ RecordPlaced(c)
  \/ CheckMove(c) \/ CommitMove(c) \/ SupersedeByHash(c)

Next ==
  \/ \E c \in Calls :
       \/ Step(c) \/ OnCompleted(c) \/ SweepIntents(c) \/ TearDown(c)
       \/ \E j \in Jobs :
            \/ Advance(c, j) \/ Retry(c, j) \/ Reconcile(c, j)
            \/ \E to \in ReleaseTo \cup {"cancelled"} : Operate(c, j, to)
  \/ RemoveTorrent \/ AddAgain \/ Restart

Spec == Init /\ [][Next]_vars

\* Database and file system calls return and the sweep's interval keeps firing;
\* no event and no operator needs to come.
FairSpec ==
  /\ Spec
  /\ \A c \in Calls : WF_vars(Step(c))
  /\ WF_vars(\E c \in Calls : SweepIntents(c))

----------------------------------------------------------------------------
(* Properties.                                                              *)

\* A payload that was downloaded once is in the library once: "a race with the edge
\* costs one redundant lookup, not a double import" (sweepIntents), and "resuming
\* cannot double-place" (importedStage).
PlacedOnce == used.adds = 0 => copies <= 1

\* Nothing is placed that was never identified, wherever a release or a retry
\* re-entered the pipeline ("would silently import something that was never
\* identified", advance).
PlacedIsIdentified == \A j \in Jobs : row[j].placed => row[j].lib

\* An intake shown as imported or beyond has its library file recorded, also when the
\* process stopped between placing the file and recording it and the stage that ran
\* again found it in place (importedStage): metadataStage looks for the item of that
\* file, and what was reported imported is not looked at again.  An operator may release
\* a failed intake past the placement.
Imported == {"imported", "metadata_ready", "artwork_ready", "subtitle_ready", "seeding"}
ImportedIsPlaced ==
  ReleaseTo \cap Imported = {} => \A j \in Jobs : State(j) \in Imported => row[j].placed

\* A failed intake can be retried: whatever ran beside the call that failed it, what it
\* remembers is a state on the line that the machine lets it re-enter ("so a retry
\* resumes there", transition), never the end somebody else brought it to meanwhile.
RetryResumes == \A j \in Jobs : State(j) = "failed" => CanTransition("failed", row[j].resume)

\* A spent intent has an intake behind it: "Spend the intent only once the intake
\* exists", or the download is lost.
IntentBacked == intent = "consumed" => \E j \in Jobs : State(j) # "absent"

\* An intent is answered although no completion edge ever comes, as long as the
\* torrent is there, and the intake comes to rest: imported and seeding, or somewhere
\* an operator looks.
AtRest(j) == State(j) \in TERMINAL_INTAKE_STATES \cup {"seeding"}
Settles ==
  /\ []<>(intent # "open" \/ ~engine)
  /\ \A j \in Jobs : State(j) # "absent" ~> AtRest(j)

----------------------------------------------------------------------------
(* Expectations the code does not meet, without a run of their own (README). *)

\* A quarantined intake moves on only because a person said so: "a human must look
\* at this before anything else happens".  Supersession archives it.
QuarantineHeld ==
  [][\A j \in Jobs :
       State(j) = "quarantined" /\ State(j)' # "quarantined" =>
         \/ State(j)' = "archived"
         \/ \E c \in Calls : At(c, "commit") /\ act[c].j = j /\ act[c].by = "operator"]_vars

\* How far an intake has got; a failed one is where it failed.
Progress(j) ==
  LET s == IF State(j) = "failed" THEN row[j].resume ELSE State(j)
  IN IF s = "none" THEN 0 ELSE CHOOSE i \in DOMAIN LINE : LINE[i] = s

\* Nothing is undone.  Cancelled and archived are final for everyone but
\* supersession ("states the pipeline will never leave on its own"), and no failure,
\* retry or restart takes an intake back along the line: only an operator's release
\* to a state of their choice does.
NeverFallsBack ==
  [][\A j \in Jobs :
       /\ State(j) \in {"cancelled", "archived"} => State(j)' \in {State(j), "archived"}
       /\ {State(j), State(j)'} \cap {"absent", "quarantined", "cancelled", "archived"} = {}
            => \/ Progress(j)' >= Progress(j)
               \/ \E c \in Calls : At(c, "commit") /\ act[c].by = "operator"
                                    /\ ~act[c].pipeline /\ act[c].to \in ReleaseTo]_vars

\* What spends an intent is an intake that can still import: re-adding a torrent
\* reopens its intent because "a spent row would leave the re-add unimported".
SpentOnLiveJob ==
  [][intent = "open" /\ intent' = "consumed" =>
       \E j \in Jobs : row[j].key /\ State(j) \notin {"cancelled", "archived"}]_vars
=============================================================================
