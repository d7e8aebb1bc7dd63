--------------------------- MODULE MediaIntakeProofs ---------------------------
(***************************************************************************)
(* Proofs about media intake, for every number of jobs, overlapping calls  *)
(* and restarts and every bound; PlacedOnceCorrect says of which placement *)
(* it is.                                                                  *)
(***************************************************************************)
EXTENDS MediaIntake, TLAPS

\* The phases in which an activation holds an intake, and those past the look-up
\* of its library.
Holding == Phases \ {"idle", "find", "create", "archive"}
Placing == {"aside", "exec", "record"}

\* An activation at work on an intake has one that exists.
HoldsJob ==
  \A c \in Calls : act[c].pc \in Holding =>
    act[c].j \in Jobs /\ row[act[c].j].state # "absent"

\* An activation that places has seen the library of its intake.
PlacesIdentified == \A c \in Calls : act[c].pc \in Placing => row[act[c].j].lib

\* A row that does not exist yet holds nothing, the idempotency key included.
AbsentIsBlank == \A j \in Jobs : row[j].state = "absent" => row[j] = Absent

IntakeInv ==
  /\ TypeOK /\ HoldsJob /\ PlacesIdentified /\ AbsentIsBlank
  /\ PlacedIsIdentified /\ IntentBacked

\* What no step of anyone does to a row: forget it, or forget its library.
RowsGrow ==
  \A j \in Jobs :
    /\ row[j].state # "absent" => row'[j].state # "absent"
    /\ row[j].lib => row'[j].lib
    /\ row'[j].placed => row[j].placed \/ row'[j].lib
    /\ row'[j].state = "absent" => row'[j] = row[j]

LEMMA StateFacts ==
  /\ "absent" \notin INTAKE_STATES
  /\ {"completed", "failed", "quarantined", "cancelled", "archived", "imported",
      "verified", "identified"} \subseteq INTAKE_STATES
  /\ Registered \subseteq INTAKE_STATES
<1>1. DOMAIN LINE = 1..14
  BY DEF LINE
<1>2. LINE[3] = "completed" /\ LINE[4] = "verified" /\ LINE[5] = "identified"
      /\ LINE[6] = "quality_scored" /\ LINE[7] = "ready_to_import" /\ LINE[8] = "importing"
      /\ LINE[9] = "imported" /\ LINE[10] = "metadata_ready" /\ LINE[11] = "artwork_ready"
      /\ LINE[12] = "subtitle_ready" /\ LINE[13] = "seeding" /\ LINE[14] = "archived"
  BY DEF LINE
<1>3. \A i \in 1..14 : LINE[i] # "absent"
  BY DEF LINE
<1> QED BY <1>1, <1>2, <1>3 DEF INTAKE_STATES, Registered

\* One activation moves on, the others stay: what is left to show is about it.
LEMMA Moved ==
  ASSUME IntakeInv, NEW c \in Calls, NEW a \in Activation,
         act' = [act EXCEPT ![c] = a], RowsGrow,
         a.pc \in Holding => a.j \in Jobs /\ row'[a.j].state # "absent",
         a.pc \in Placing => row'[a.j].lib
  PROVE  act' \in [Calls -> Activation] /\ HoldsJob' /\ PlacesIdentified'
<1>1. act \in [Calls -> Activation]
  BY DEF IntakeInv, TypeOK
<1>2. act'[c] = a /\ \A d \in Calls : d # c => act'[d] = act[d]
  BY <1>1
<1>3. HoldsJob'
  <2> SUFFICES ASSUME NEW d \in Calls, act'[d].pc \in Holding
               PROVE  act'[d].j \in Jobs /\ row'[act'[d].j].state # "absent"
    BY DEF HoldsJob
  <2>1. CASE d = c
    BY <2>1, <1>2
  <2>2. CASE d # c
    BY <2>2, <1>2 DEF IntakeInv, HoldsJob, RowsGrow
  <2> QED BY <2>1, <2>2
<1>4. PlacesIdentified'
  <2> SUFFICES ASSUME NEW d \in Calls, act'[d].pc \in Placing
               PROVE  row'[act'[d].j].lib
    BY DEF PlacesIdentified
  <2>1. CASE d = c
    BY <2>1, <1>2
  <2>2. CASE d # c
    <3>1. act[d].pc \in Holding
      BY <2>2, <1>2 DEF Holding, Placing, Phases
    <3> QED BY <2>2, <3>1, <1>2 DEF IntakeInv, HoldsJob, PlacesIdentified, RowsGrow
  <2> QED BY <2>1, <2>2
<1> QED BY <1>1, <1>3, <1>4

LEMMA Grown ==
  ASSUME IntakeInv, RowsGrow
  PROVE  PlacedIsIdentified' /\ AbsentIsBlank' /\ (intent' = intent => IntentBacked')
BY DEF RowsGrow, IntakeInv, PlacedIsIdentified, AbsentIsBlank, IntentBacked, State

\* What the type invariant says of one activation and of its intake.
LEMMA OfActivation ==
  ASSUME IntakeInv, NEW c \in Calls
  PROVE  /\ act[c] \in Activation
         /\ act[c].pc \in Holding => /\ act[c].j \in Jobs
                                    /\ row[act[c].j] \in Row
                                    /\ row[act[c].j].state \in INTAKE_STATES
         /\ act[c].pc \in Placing => row[act[c].j].lib
BY DEF IntakeInv, TypeOK, HoldsJob, PlacesIdentified, Row

\* The steps that move one activation and change nothing else.
LEMMA MoveOnly ==
  ASSUME IntakeInv, NEW c \in Calls, NEW a \in Activation,
         act' = [act EXCEPT ![c] = a],
         a.pc \in Holding => a.j \in Jobs /\ row[a.j].state # "absent",
         a.pc \in Placing => row[a.j].lib,
         UNCHANGED <<row, intent>>,
         engine' \in BOOLEAN, source' \in BOOLEAN,
         canon' \in {"none", "linked", "other"}, copies' \in 0..2,
         used' \in [edges : 0..MaxEdges, tries : 0..MaxTries, adds : 0..MaxAdds,
                   restarts : 0..MaxRestarts]
  PROVE  IntakeInv'
<1>1. RowsGrow
  BY DEF RowsGrow
<1>2. act' \in [Calls -> Activation] /\ HoldsJob' /\ PlacesIdentified'
  BY <1>1, Moved
<1>3. PlacedIsIdentified' /\ AbsentIsBlank' /\ IntentBacked'
  BY <1>1, Grown
<1> QED BY <1>2, <1>3 DEF IntakeInv, TypeOK

\* The parts of the type invariant that few steps touch.
LEMMA WorldTypes ==
  ASSUME IntakeInv
  PROVE  /\ row \in [Jobs -> Row] /\ intent \in {"none", "open", "consumed"}
         /\ engine \in BOOLEAN /\ source \in BOOLEAN
         /\ canon \in {"none", "linked", "other"} /\ copies \in 0..2
         /\ used \in [edges : 0..MaxEdges, tries : 0..MaxTries, adds : 0..MaxAdds,
                      restarts : 0..MaxRestarts]
BY DEF IntakeInv, TypeOK

LEMMA IdleType == Idle \in Activation /\ Idle.pc = "idle"
BY StateFacts DEF Idle, Activation, Phases, Callers

LEMMA FindJobInv ==
  ASSUME IntakeInv, NEW c \in Calls, FindJob(c)
  PROVE  IntakeInv'
<1> USE OfActivation, WorldTypes
<1>u. UNCHANGED <<row, intent, engine, source, canon, copies, used>>
  BY DEF FindJob, world
<1>1. CASE Goto(c, "create")
  <2> DEFINE a == [act[c] EXCEPT !.pc = "create"]
  <2>1. a \in Activation /\ a.pc = "create" /\ act' = [act EXCEPT ![c] = a]
    BY <1>1 DEF Goto, Activation, Phases
  <2> QED BY <2>1, <1>u, MoveOnly DEF Holding, Placing
<1>2. CASE \E j \in Jobs : row[j].key /\ act' = [act EXCEPT ![c].pc = "spend", ![c].j = j]
  <2>1. PICK j \in Jobs : row[j].key /\ act' = [act EXCEPT ![c].pc = "spend", ![c].j = j]
    BY <1>2
  <2> DEFINE a == [act[c] EXCEPT !.pc = "spend", !.j = j]
  <2>2. a \in Activation /\ a.pc = "spend" /\ a.j = j /\ act' = [act EXCEPT ![c] = a]
    BY <2>1 DEF Activation, Phases
  <2>3. row[j].state # "absent"
    BY <2>1 DEF IntakeInv, AbsentIsBlank, Absent
  <2> QED BY <2>2, <2>3, <1>u, MoveOnly DEF Placing
<1> QED BY <1>1, <1>2 DEF FindJob

LEMMA CreateJobInv ==
  ASSUME IntakeInv, NEW c \in Calls, CreateJob(c)
  PROVE  IntakeInv'
<1> USE OfActivation, WorldTypes
<1>u. UNCHANGED <<intent, engine, source, canon, copies, used>>
  BY DEF CreateJob, world
<1>1. CASE Return(c) /\ UNCHANGED row
  BY <1>1, <1>u, IdleType, MoveOnly DEF Return, Holding, Placing
<1>2. CASE \E j \in Jobs :
             /\ State(j) = "absent"
             /\ row' = [row EXCEPT ![j] = [Absent EXCEPT !.state = "completed", !.key = TRUE]]
             /\ act' = [act EXCEPT ![c].pc = "spend", ![c].j = j]
  <2>1. PICK j \in Jobs :
             /\ State(j) = "absent"
             /\ row' = [row EXCEPT ![j] = [Absent EXCEPT !.state = "completed", !.key = TRUE]]
             /\ act' = [act EXCEPT ![c].pc = "spend", ![c].j = j]
    BY <1>2
  <2> DEFINE a == [act[c] EXCEPT !.pc = "spend", !.j = j]
  <2> DEFINE r == [Absent EXCEPT !.state = "completed", !.key = TRUE]
  <2>2. a \in Activation /\ a.pc = "spend" /\ a.j = j /\ act' = [act EXCEPT ![c] = a]
    BY <2>1 DEF Activation, Phases
  <2>3. r \in Row /\ r.state = "completed" /\ ~r.placed
    BY StateFacts DEF Row, Absent
  <2>4. row' \in [Jobs -> Row] /\ row'[j] = r /\ \A i \in Jobs : i # j => row'[i] = row[i]
    BY <2>1, <2>3
  <2>5. ~row[j].lib
    BY <2>1 DEF State, IntakeInv, AbsentIsBlank, Absent
  <2>6. RowsGrow
    BY <2>3, <2>4, <2>5 DEF RowsGrow
  <2>7. act' \in [Calls -> Activation] /\ HoldsJob' /\ PlacesIdentified'
    BY <2>2, <2>3, <2>4, <2>6, Moved DEF Placing
  <2> QED BY <1>u, <2>4, <2>6, <2>7, Grown DEF IntakeInv, TypeOK
<1> QED BY <1>1, <1>2 DEF CreateJob

LEMMA SpendIntentInv ==
  ASSUME IntakeInv, NEW c \in Calls, SpendIntent(c)
  PROVE  IntakeInv'
<1> USE OfActivation, WorldTypes
<1>u. UNCHANGED <<row, engine, source, canon, copies, used>>
      /\ intent' \in {"none", "open", "consumed"}
  BY DEF SpendIntent, world
<1> DEFINE a == [act[c] EXCEPT !.pc = "load"]
<1>1. a \in Activation /\ a.pc = "load" /\ a.j = act[c].j /\ act' = [act EXCEPT ![c] = a]
  BY DEF SpendIntent, Goto, Activation, Phases
<1>2. act[c].pc \in Holding
  BY DEF SpendIntent, At, Holding, Phases
<1>3. RowsGrow
  BY <1>u DEF RowsGrow
<1>4. act' \in [Calls -> Activation] /\ HoldsJob' /\ PlacesIdentified'
  BY <1>u, <1>1, <1>2, <1>3, StateFacts, Moved DEF Placing
<1>5. IntentBacked'
  BY <1>u, <1>2, StateFacts DEF IntentBacked, State
<1> QED BY <1>u, <1>3, <1>4, <1>5, Grown DEF IntakeInv, TypeOK

LEMMA LoopAtType ==
  ASSUME IntakeInv, NEW c \in Calls, NEW s \in INTAKE_STATES, act[c].pc \in Holding,
         LoopAt(c, s)
  PROVE  \E a \in Activation : a.pc = "stage" /\ a.j = act[c].j
                                /\ act' = [act EXCEPT ![c] = a]
<1> DEFINE a == [Idle EXCEPT !.pc = "stage", !.by = act[c].by, !.j = act[c].j,
                             !.state = s, !.pipeline = TRUE]
<1>1. a \in Activation /\ a.pc = "stage" /\ a.j = act[c].j
  BY IdleType, OfActivation DEF Activation, Phases, Idle
<1> QED BY <1>1 DEF LoopAt

LEMMA AskType ==
  ASSUME IntakeInv, NEW c \in Calls, NEW to \in INTAKE_STATES, act[c].pc \in Holding,
         Ask(c, to)
  PROVE  \E a \in Activation : a.pc = "check" /\ a.j = act[c].j
                                /\ act' = [act EXCEPT ![c] = a]
<1> DEFINE a == [act[c] EXCEPT !.pc = "check", !.to = to]
<1>1. a \in Activation /\ a.pc = "check" /\ a.j = act[c].j
  BY OfActivation DEF Activation, Phases
<1> QED BY <1>1, OfActivation DEF Ask

LEMMA GotoType ==
  ASSUME IntakeInv, NEW c \in Calls, NEW p \in Phases, Goto(c, p)
  PROVE  \E a \in Activation : a.pc = p /\ a.j = act[c].j
                                /\ act' = [act EXCEPT ![c] = a]
<1> DEFINE a == [act[c] EXCEPT !.pc = p]
<1>1. a \in Activation /\ a.pc = p /\ a.j = act[c].j
  BY OfActivation DEF Activation
<1> QED BY <1>1, OfActivation DEF Goto

\* An activation that goes on with its intake, whatever it writes to the row.
LEMMA GoesOn ==
  ASSUME IntakeInv, NEW c \in Calls, act[c].pc \in Holding,
         \E a \in Activation : /\ a.j = act[c].j /\ act' = [act EXCEPT ![c] = a]
                               /\ a.pc \in Placing => row'[act[c].j].lib,
         RowsGrow, row' \in [Jobs -> Row], UNCHANGED <<intent, used>>,
         engine' \in BOOLEAN, source' \in BOOLEAN,
         canon' \in {"none", "linked", "other"}, copies' \in 0..2
  PROVE  IntakeInv'
<1>1. PICK a \in Activation : /\ a.j = act[c].j /\ act' = [act EXCEPT ![c] = a]
                              /\ a.pc \in Placing => row'[act[c].j].lib
  OBVIOUS
<1>2. act[c].j \in Jobs /\ row'[act[c].j].state # "absent"
  BY OfActivation, StateFacts DEF RowsGrow
<1>3. act' \in [Calls -> Activation] /\ HoldsJob' /\ PlacesIdentified'
  BY <1>1, <1>2, Moved
<1> QED BY <1>3, Grown, WorldTypes DEF IntakeInv, TypeOK

LEMMA ReturnInv ==
  ASSUME IntakeInv, NEW c \in Calls, Return(c), RowsGrow, row' \in [Jobs -> Row],
         UNCHANGED <<intent, used, world>>
  PROVE  IntakeInv'
<1>1. act' \in [Calls -> Activation] /\ HoldsJob' /\ PlacesIdentified'
  BY Moved, IdleType DEF Return, Holding, Placing
<1> QED BY <1>1, Grown, WorldTypes DEF IntakeInv, TypeOK, world

LEMMA LoadInv ==
  ASSUME IntakeInv, NEW c \in Calls, Load(c)
  PROVE  IntakeInv'
<1>1. act[c].pc \in Holding
  BY DEF Load, At, Holding, Phases
<1>2. \E a \in Activation : a.pc = "stage" /\ a.j = act[c].j /\ act' = [act EXCEPT ![c] = a]
  BY <1>1, OfActivation, LoopAtType DEF Load, State
<1>3. RowsGrow /\ UNCHANGED <<row, intent, engine, source, canon, copies, used>>
  BY DEF RowsGrow, Load, world
<1> QED BY <1>1, <1>2, <1>3, WorldTypes, GoesOn DEF Placing

LEMMA RunStageInv ==
  ASSUME IntakeInv, NEW c \in Calls, RunStage(c)
  PROVE  IntakeInv'
<1> DEFINE j == act[c].j
           want == NextState(act[c].state)
<1>1. act[c].pc \in Holding /\ j \in Jobs
  BY OfActivation DEF RunStage, At, Holding, Phases
<1>2. UNCHANGED <<intent, engine, source, canon, copies, used>>
  BY DEF RunStage, world
<1>3. CASE Return(c) /\ UNCHANGED row
  BY <1>2, <1>3, WorldTypes, ReturnInv DEF RowsGrow, world
<1>4. CASE Goto(c, "place") /\ UNCHANGED row
  <2>1. \E a \in Activation : a.pc = "place" /\ a.j = j /\ act' = [act EXCEPT ![c] = a]
    BY <1>4, GotoType DEF Phases
  <2>2. RowsGrow
    BY <1>4 DEF RowsGrow
  <2> QED BY <1>1, <1>2, <1>4, <2>1, <2>2, WorldTypes, GoesOn DEF Placing
<1>5. CASE /\ want \in Registered \ {"imported"}
           /\ \E to \in StageAsks(j, want) :
                /\ Ask(c, to)
                /\ row' = IF to = "identified" THEN [row EXCEPT ![j].lib = TRUE] ELSE row
  <2>1. PICK to \in StageAsks(j, want) :
                /\ Ask(c, to)
                /\ row' = IF to = "identified" THEN [row EXCEPT ![j].lib = TRUE] ELSE row
    BY <1>5
  <2>2. StageAsks(j, want) \subseteq {want, "quarantined", "failed"}
    BY <1>5 DEF StageAsks, VerifyAsks, IdentifyAsks, ReadyAsks, MetadataAsks, EnrichAsks,
                Registered
  <2>3. to \in INTAKE_STATES
    BY <1>5, <2>1, <2>2, StateFacts
  <2>4. \E a \in Activation : a.pc = "check" /\ a.j = j /\ act' = [act EXCEPT ![c] = a]
    BY <1>1, <2>1, <2>3, AskType
  <2>5. row' \in [Jobs -> Row] /\ RowsGrow
    <3>1. [row[j] EXCEPT !.lib = TRUE] \in Row
      BY <1>1, OfActivation DEF Row
    <3>2. CASE to = "identified"
      BY <1>1, <2>1, <3>1, <3>2, OfActivation, StateFacts, WorldTypes DEF RowsGrow, Row
    <3>3. CASE to # "identified"
      BY <2>1, <3>3, WorldTypes DEF RowsGrow
    <3> QED BY <3>2, <3>3
  <2> QED BY <1>1, <1>2, <2>4, <2>5, WorldTypes, GoesOn DEF Placing
<1> QED BY <1>3, <1>4, <1>5 DEF RunStage

LEMMA PlaceInv ==
  ASSUME IntakeInv, NEW c \in Calls, Place(c) \/ SetAside(c) \/ Execute(c)
  PROVE  IntakeInv'
<1>1. act[c].pc \in Holding
  BY DEF Place, SetAside, Execute, At, Holding, Phases
<1>2. UNCHANGED <<row, intent, used>> /\ RowsGrow
  BY DEF Place, SetAside, Execute, RowsGrow
<1>3. /\ engine' \in BOOLEAN /\ source' \in BOOLEAN
      /\ canon' \in {"none", "linked", "other"} /\ copies' \in 0..2
  <2>1. CASE Place(c) \/ SetAside(c)
    BY <2>1, WorldTypes DEF Place, SetAside, world
  <2>2. CASE Execute(c)
    <3>1. CASE UNCHANGED world
      BY <3>1, WorldTypes DEF world
    <3>2. CASE /\ canon' = IF Strategy = "hardlink" THEN "linked" ELSE "other"
               /\ copies' = IF copies < 2 THEN copies + 1 ELSE copies
               /\ source' = (Strategy # "move")
               /\ UNCHANGED engine
      <4>1. canon' \in {"none", "linked", "other"} /\ copies' \in 0..2
        BY <3>2, WorldTypes
      <4>2. engine' \in BOOLEAN /\ source' \in BOOLEAN
        BY <3>2, WorldTypes, Zenon
      <4> QED BY <4>1, <4>2
    <3> QED BY <2>2, <3>1, <3>2 DEF Execute, PlaceFile
  <2> QED BY <2>1, <2>2
<1>4. CASE \E to \in {"quarantined", "failed"} : Ask(c, to)
  <2>1. \E a \in Activation : a.pc = "check" /\ a.j = act[c].j /\ act' = [act EXCEPT ![c] = a]
    BY <1>1, <1>4, StateFacts, AskType
  <2> QED BY <1>1, <1>2, <1>3, <2>1, WorldTypes, GoesOn DEF Placing
<1>5. CASE row[act[c].j].lib /\ \E p \in Placing : Goto(c, p)
  <2>1. \E a \in Activation : a.j = act[c].j /\ act' = [act EXCEPT ![c] = a]
    BY <1>5, GotoType DEF Placing, Phases
  <2> QED BY <1>1, <1>2, <1>3, <1>5, <2>1, WorldTypes, GoesOn
<1>6. (\E to \in {"quarantined", "failed"} : Ask(c, to))
        \/ (row[act[c].j].lib /\ \E p \in Placing : Goto(c, p))
  <2>1. CASE Place(c)
    BY <2>1, WorldTypes DEF Place, Placing
  <2>2. CASE SetAside(c)
    BY <2>2, OfActivation DEF SetAside, At, Placing
  <2>3. CASE Execute(c)
    BY <2>3, OfActivation DEF Execute, At, Placing
  <2> QED BY <2>1, <2>2, <2>3
<1> QED BY <1>4, <1>5, <1>6

LEMMA RecordPlacedInv ==
  ASSUME IntakeInv, NEW c \in Calls, RecordPlaced(c)
  PROVE  IntakeInv'
<1> DEFINE j == act[c].j
<1>1. act[c].pc \in Holding /\ act[c].pc \in Placing
  BY DEF RecordPlaced, At, Holding, Placing, Phases
<1>2. j \in Jobs /\ row[j].lib /\ row[j] \in Row
  BY <1>1, OfActivation
<1>3. UNCHANGED <<intent, engine, source, canon, copies, used>>
  BY DEF RecordPlaced, world
<1>4. row' \in [Jobs -> Row] /\ RowsGrow
  <2>1. [row[j] EXCEPT !.placed = TRUE] \in Row
    BY <1>2 DEF Row
  <2>2. row' = [row EXCEPT ![j] = [row[j] EXCEPT !.placed = TRUE]]
    BY DEF RecordPlaced
  <2>3. row[j].state # "absent"
    BY <1>1, OfActivation, StateFacts
  <2> QED BY <1>2, <2>1, <2>2, <2>3, WorldTypes DEF RowsGrow, Row
<1>5. \E a \in Activation : a.pc = "check" /\ a.j = j /\ act' = [act EXCEPT ![c] = a]
  BY <1>1, StateFacts, AskType DEF RecordPlaced
<1> QED BY <1>1, <1>3, <1>4, <1>5, WorldTypes, GoesOn DEF Placing

LEMMA CheckMoveInv ==
  ASSUME IntakeInv, NEW c \in Calls, CheckMove(c)
  PROVE  IntakeInv'
<1> DEFINE r == row[act[c].j]
<1>1. act[c].pc \in Holding
  BY DEF CheckMove, At, Holding, Phases
<1>2. UNCHANGED <<row, intent, engine, source, canon, copies, used>> /\ RowsGrow
  BY DEF CheckMove, world, RowsGrow
<1>3. CASE act' = [act EXCEPT ![c].pc = "commit", ![c].from = r.state, ![c].resume = r.resume]
  <2> DEFINE a == [act[c] EXCEPT !.pc = "commit", !.from = r.state, !.resume = r.resume]
  <2>1. r.state \in INTAKE_STATES /\ r.resume \in INTAKE_STATES \cup {"none"}
    BY <1>1, OfActivation DEF Row
  <2>2. a \in Activation /\ a.pc = "commit" /\ a.j = act[c].j
    BY <2>1, OfActivation DEF Activation, Phases
  <2>3. act' = [act EXCEPT ![c] = a]
    BY <1>3, OfActivation
  <2> QED BY <1>1, <1>2, <2>2, <2>3, WorldTypes, GoesOn DEF Placing
<1>4. CASE Ask(c, "failed")
  <2>1. \E a \in Activation : a.pc = "check" /\ a.j = act[c].j /\ act' = [act EXCEPT ![c] = a]
    BY <1>1, <1>4, StateFacts, AskType
  <2> QED BY <1>1, <1>2, <2>1, WorldTypes, GoesOn DEF Placing
<1>5. CASE Return(c)
  BY <1>2, <1>5, WorldTypes, ReturnInv DEF world
<1> QED BY <1>3, <1>4, <1>5 DEF CheckMove

LEMMA CommitMoveInv ==
  ASSUME IntakeInv, NEW c \in Calls, CommitMove(c)
  PROVE  IntakeInv'
<1> DEFINE j == act[c].j
           to == act[c].to
           resume == CASE to = "failed" -> act[c].from
                       [] to = "queued" -> "none"
                       [] OTHER -> act[c].resume
           r == [row[j] EXCEPT !.state = to, !.resume = resume]
<1>1. act[c].pc \in Holding
  BY DEF CommitMove, At, Holding, Phases
<1>2. UNCHANGED <<intent, engine, source, canon, copies, used>>
  BY DEF CommitMove, world
<1>3. row' \in [Jobs -> Row] /\ RowsGrow
  <2>1. to \in INTAKE_STATES /\ resume \in INTAKE_STATES \cup {"none"}
    BY OfActivation DEF Activation
  <2>2. j \in Jobs /\ row[j] \in Row
    BY <1>1, OfActivation
  <2> HIDE DEF resume
  <2>3. r \in Row /\ r.state = to /\ r.lib = row[j].lib /\ r.placed = row[j].placed
    BY <2>1, <2>2 DEF Row
  <2>4. row' = [row EXCEPT ![j] = r]
    BY <2>2, WorldTypes DEF CommitMove, resume
  <2> HIDE DEF r
  <2>5. row' \in [Jobs -> Row] /\ row'[j] = r /\ \A i \in Jobs : i # j => row'[i] = row[i]
    BY <2>2, <2>3, <2>4, WorldTypes
  <2> QED BY <2>1, <2>3, <2>5, StateFacts DEF RowsGrow
<1>4. CASE LoopAt(c, to)
  <2>1. \E a \in Activation : a.pc = "stage" /\ a.j = j /\ act' = [act EXCEPT ![c] = a]
    BY <1>1, <1>4, OfActivation, LoopAtType DEF Activation
  <2> QED BY <1>1, <1>2, <1>3, <2>1, WorldTypes, GoesOn DEF Placing
<1>5. CASE Return(c)
  BY <1>2, <1>3, <1>5, ReturnInv DEF world
<1> QED BY <1>4, <1>5 DEF CommitMove

LEMMA SupersedeInv ==
  ASSUME IntakeInv, NEW c \in Calls, SupersedeByHash(c)
  PROVE  IntakeInv'
<1>1. UNCHANGED <<intent, used, world>> /\ Return(c)
  BY DEF SupersedeByHash
<1>2. \A j \in Jobs : [row[j] EXCEPT !.state = "archived", !.key = FALSE] \in Row
  <2> TAKE j \in Jobs
  <2>1. row[j] \in Row
    BY WorldTypes
  <2> QED BY <2>1, StateFacts DEF Row
<1>3. row' \in [Jobs -> Row]
  BY <1>2, WorldTypes DEF SupersedeByHash
<1>4. RowsGrow
  <2> SUFFICES ASSUME NEW j \in Jobs
               PROVE  /\ row[j].state # "absent" => row'[j].state # "absent"
                      /\ row[j].lib => row'[j].lib
                      /\ row'[j].placed => row[j].placed \/ row'[j].lib
                      /\ row'[j].state = "absent" => row'[j] = row[j]
    BY DEF RowsGrow
  <2>1. row[j] \in Row
    BY WorldTypes
  <2>2. CASE row'[j] = row[j]
    BY <2>2
  <2>3. CASE row'[j] = [row[j] EXCEPT !.state = "archived", !.key = FALSE]
    BY <2>1, <2>3 DEF Row
  <2> QED BY <2>2, <2>3 DEF SupersedeByHash, State
<1> QED BY <1>1, <1>3, <1>4, ReturnInv

LEMMA SpendType ==
  ASSUME IntakeInv, NEW b \in {"edges", "tries", "adds", "restarts"},
         Spend(b, CASE b = "edges" -> MaxEdges [] b = "tries" -> MaxTries
                    [] b = "adds" -> MaxAdds [] b = "restarts" -> MaxRestarts)
  PROVE  used' \in [edges : 0..MaxEdges, tries : 0..MaxTries, adds : 0..MaxAdds,
                   restarts : 0..MaxRestarts]
BY WorldTypes, BoundsAssumption DEF Spend

LEMMA BeginType ==
  ASSUME NEW c \in Calls, NEW p \in Phases, NEW who \in Callers,
         NEW j \in Jobs \cup {NoJob}, Begin(c, p, who, j)
  PROVE  \E a \in Activation : a.pc = p /\ a.j = j /\ act' = [act EXCEPT ![c] = a]
<1> DEFINE a == [Idle EXCEPT !.pc = p, !.by = who, !.j = j]
<1>1. a \in Activation /\ a.pc = p /\ a.j = j
  BY IdleType DEF Activation, Idle
<1> QED BY <1>1 DEF Begin

LEMMA TriggersInv ==
  ASSUME IntakeInv, NEW c \in Calls, OnCompleted(c) \/ SweepIntents(c) \/ TearDown(c)
  PROVE  IntakeInv'
<1>1. CASE OnCompleted(c)
  <2>1. used' \in [edges : 0..MaxEdges, tries : 0..MaxTries, adds : 0..MaxAdds,
                  restarts : 0..MaxRestarts]
    BY <1>1, SpendType DEF OnCompleted
  <2>2. UNCHANGED <<row, intent, engine, source, canon, copies>>
    BY <1>1 DEF OnCompleted, world
  <2>3. CASE Begin(c, "find", "edge", NoJob)
    <3>1. PICK a \in Activation : a.pc = "find" /\ act' = [act EXCEPT ![c] = a]
      BY <2>3, BeginType DEF Phases, Callers
    <3> QED BY <2>1, <2>2, <3>1, WorldTypes, MoveOnly DEF Holding, Placing
  <2>4. CASE UNCHANGED act
    BY <2>1, <2>2, <2>4 DEF IntakeInv, TypeOK, HoldsJob, PlacesIdentified, AbsentIsBlank,
                            PlacedIsIdentified, IntentBacked, State
  <2> QED BY <1>1, <2>3, <2>4 DEF OnCompleted
<1>2. CASE SweepIntents(c)
  <2>1. PICK a \in Activation : a.pc = "find" /\ act' = [act EXCEPT ![c] = a]
    BY <1>2, BeginType DEF SweepIntents, Phases, Callers
  <2>2. UNCHANGED <<row, intent, engine, source, canon, copies, used>>
    BY <1>2 DEF SweepIntents, world
  <2> QED BY <2>1, <2>2, WorldTypes, MoveOnly DEF Holding, Placing
<1>3. CASE TearDown(c)
  <2>1. PICK a \in Activation : a.pc = "archive" /\ act' = [act EXCEPT ![c] = a]
    BY <1>3, BeginType DEF TearDown, Phases, Callers
  <2>2. /\ UNCHANGED <<row, intent, used>>
        /\ engine' \in BOOLEAN /\ source' \in BOOLEAN
        /\ canon' \in {"none", "linked", "other"} /\ copies' \in 0..2
    <3>1. CASE UNCHANGED world
      BY <1>3, <3>1, WorldTypes DEF TearDown, world
    <3>2. CASE /\ engine' = FALSE /\ source' = FALSE /\ copies' = 0
               /\ canon' \in {"none"} \cup ({canon} \ {"linked"})
      <4>1. UNCHANGED <<row, intent, used>>
        BY <1>3 DEF TearDown
      <4>2. engine' \in BOOLEAN /\ source' \in BOOLEAN
        BY <3>2, Zenon
      <4>3. canon' \in {"none", "linked", "other"} /\ copies' \in 0..2
        BY <3>2, WorldTypes
      <4> QED BY <4>1, <4>2, <4>3
    <3> QED BY <1>3, <3>1, <3>2 DEF TearDown
  <2> QED BY <2>1, <2>2, WorldTypes, MoveOnly DEF Holding, Placing
<1> QED BY <1>1, <1>2, <1>3

LEMMA OperatorInv ==
  ASSUME IntakeInv, NEW c \in Calls, NEW j \in Jobs,
         \/ Advance(c, j) \/ Retry(c, j) \/ Reconcile(c, j)
         \/ \E to \in ReleaseTo \cup {"cancelled"} : Operate(c, j, to)
  PROVE  IntakeInv'
<1>1. CASE Advance(c, j)
  <2>1. PICK a \in Activation : a.pc = "load" /\ a.j = j /\ act' = [act EXCEPT ![c] = a]
    BY <1>1, BeginType DEF Advance, Phases, Callers
  <2>2. UNCHANGED <<row, intent, engine, source, canon, copies, used>> /\ row[j].state # "absent"
    BY <1>1 DEF Advance, world, State
  <2> QED BY <2>1, <2>2, WorldTypes, MoveOnly DEF Placing
<1>2. ASSUME NEW to \in INTAKE_STATES, NEW who \in Callers, row[j].state # "absent",
             act' = [act EXCEPT ![c] = [Idle EXCEPT !.pc = "check", !.by = who, !.j = j,
                                                    !.to = to]],
             UNCHANGED <<row, intent, engine, source, canon, copies>>,
             used' \in [edges : 0..MaxEdges, tries : 0..MaxTries, adds : 0..MaxAdds,
                       restarts : 0..MaxRestarts]
      PROVE  IntakeInv'
  <2> DEFINE a == [Idle EXCEPT !.pc = "check", !.by = who, !.j = j, !.to = to]
  <2>1. a \in Activation /\ a.pc = "check" /\ a.j = j
    BY IdleType DEF Activation, Idle, Phases
  <2> HIDE DEF a
  <2>2. act' = [act EXCEPT ![c] = a]
    BY <1>2 DEF a
  <2> QED BY <1>2, <2>1, <2>2, WorldTypes, MoveOnly DEF Placing
<1>3. CASE Retry(c, j)
  <2> DEFINE to == IF row[j].resume = "none" THEN "completed" ELSE row[j].resume
  <2>1. to \in INTAKE_STATES
    BY WorldTypes, StateFacts DEF Row
  <2>2. used' \in [edges : 0..MaxEdges, tries : 0..MaxTries, adds : 0..MaxAdds,
                  restarts : 0..MaxRestarts]
    BY <1>3, SpendType DEF Retry
  <2>3. /\ row[j].state # "absent" /\ UNCHANGED <<row, intent, engine, source, canon, copies>>
        /\ act' = [act EXCEPT ![c] = [Idle EXCEPT !.pc = "check", !.by = "operator", !.j = j,
                                                  !.to = to]]
    BY <1>3 DEF Retry, State, world
  <2> HIDE DEF to
  <2> QED BY <1>2, <2>1, <2>2, <2>3 DEF Callers
<1>4. CASE Reconcile(c, j)
  <2>1. /\ row[j].state # "absent"
        /\ UNCHANGED <<row, intent, engine, source, canon, copies, used>>
        /\ act' = [act EXCEPT ![c] = [Idle EXCEPT !.pc = "check", !.by = "reconciler", !.j = j,
                                                  !.to = "archived"]]
    BY <1>4 DEF Reconcile, State, world
  <2> QED BY <1>2, <2>1, StateFacts, WorldTypes DEF Callers
<1>5. CASE \E to \in ReleaseTo \cup {"cancelled"} : Operate(c, j, to)
  <2>1. PICK to \in ReleaseTo \cup {"cancelled"} : Operate(c, j, to)
    BY <1>5
  <2>2. to \in INTAKE_STATES
    BY StateFacts, ReleaseAssumption
  <2>3. /\ row[j].state # "absent"
        /\ UNCHANGED <<row, intent, engine, source, canon, copies, used>>
        /\ act' = [act EXCEPT ![c] = [Idle EXCEPT !.pc = "check", !.by = "operator", !.j = j,
                                                  !.to = to]]
    BY <2>1 DEF Operate, State, world
  <2> QED BY <1>2, <2>2, <2>3, WorldTypes DEF Callers
<1> QED BY <1>1, <1>3, <1>4, <1>5

LEMMA OutsideInv ==
  ASSUME IntakeInv, RemoveTorrent \/ AddAgain \/ Restart
  PROVE  IntakeInv'
<1>1. UNCHANGED row /\ RowsGrow
  BY DEF RemoveTorrent, AddAgain, Restart, RowsGrow
<1>2. PlacedIsIdentified' /\ AbsentIsBlank'
  BY <1>1, Grown
<1>3. CASE RemoveTorrent
  <2>1. UNCHANGED <<intent, canon, copies, act, used>>
    BY <1>3 DEF RemoveTorrent
  <2>2. engine' \in BOOLEAN /\ source' \in BOOLEAN
    BY <1>3, WorldTypes, Zenon DEF RemoveTorrent
  <2>3. HoldsJob' /\ PlacesIdentified'
    BY <1>1, <2>1 DEF IntakeInv, HoldsJob, PlacesIdentified
  <2>4. IntentBacked'
    BY <1>1, <2>1, Grown
  <2> QED BY <1>1, <1>2, <2>1, <2>2, <2>3, <2>4 DEF IntakeInv, TypeOK
<1>4. CASE AddAgain
  <2>1. UNCHANGED <<copies, act>> /\ intent' \in {"open", intent}
    BY <1>4 DEF AddAgain
  <2>2. engine' \in BOOLEAN /\ source' \in BOOLEAN
    BY <1>4, Zenon DEF AddAgain
  <2>3. canon' \in {"none", "linked", "other"}
    BY <1>4, WorldTypes DEF AddAgain
  <2>4. used' \in [edges : 0..MaxEdges, tries : 0..MaxTries, adds : 0..MaxAdds,
                  restarts : 0..MaxRestarts]
    BY <1>4, SpendType DEF AddAgain
  <2>5. HoldsJob' /\ PlacesIdentified'
    BY <1>1, <2>1 DEF IntakeInv, HoldsJob, PlacesIdentified
  <2>6. IntentBacked'
    <3>1. CASE intent' = "open"
      BY <3>1 DEF IntentBacked
    <3>2. CASE UNCHANGED intent
      BY <1>1, <3>2, Grown
    <3> QED BY <2>1, <3>1, <3>2
  <2> QED BY <1>1, <1>2, <2>1, <2>2, <2>3, <2>4, <2>5, <2>6, WorldTypes
          DEF IntakeInv, TypeOK
<1>5. CASE Restart
  <2>1. act' = [c \in Calls |-> Idle] /\ UNCHANGED <<intent, engine, source, canon, copies>>
    BY <1>5 DEF Restart, world
  <2>2. act' \in [Calls -> Activation] /\ HoldsJob' /\ PlacesIdentified'
    BY <2>1, IdleType DEF HoldsJob, PlacesIdentified, Holding, Placing
  <2>3. used' \in [edges : 0..MaxEdges, tries : 0..MaxTries, adds : 0..MaxAdds,
                  restarts : 0..MaxRestarts]
    BY <1>5, SpendType DEF Restart
  <2>4. IntentBacked'
    BY <1>1, <2>1, Grown
  <2> QED BY <1>1, <1>2, <2>1, <2>2, <2>3, <2>4 DEF IntakeInv, TypeOK
<1> QED BY <1>3, <1>4, <1>5

LEMMA InitInv == Init => IntakeInv
<1> SUFFICES ASSUME Init PROVE IntakeInv
  OBVIOUS
<1>1. Absent \in Row
  BY DEF Absent, Row
<1>2. TypeOK
  <2>1. row \in [Jobs -> Row] /\ act \in [Calls -> Activation]
    BY <1>1, IdleType DEF Init
  <2>2. intent \in {"none", "open", "consumed"} /\ canon \in {"none", "linked", "other"}
        /\ copies \in 0..2
    BY DEF Init
  <2>3. engine \in BOOLEAN /\ source \in BOOLEAN
    BY Zenon DEF Init
  <2>4. used \in [edges : 0..MaxEdges, tries : 0..MaxTries, adds : 0..MaxAdds,
                 restarts : 0..MaxRestarts]
    BY BoundsAssumption DEF Init
  <2> QED BY <2>1, <2>2, <2>3, <2>4 DEF TypeOK
<1>3. HoldsJob /\ PlacesIdentified
  BY IdleType DEF Init, HoldsJob, PlacesIdentified, Holding, Placing
<1>4. AbsentIsBlank /\ PlacedIsIdentified /\ IntentBacked
  BY DEF Init, AbsentIsBlank, PlacedIsIdentified, IntentBacked, Absent
<1> QED BY <1>2, <1>3, <1>4 DEF IntakeInv

LEMMA NextInv == IntakeInv /\ [Next]_vars => IntakeInv'
<1> SUFFICES ASSUME IntakeInv, [Next]_vars PROVE IntakeInv'
  OBVIOUS
<1>1. ASSUME NEW c \in Calls, Step(c) PROVE IntakeInv'
  BY <1>1, FindJobInv, CreateJobInv, SpendIntentInv, LoadInv, RunStageInv, PlaceInv,
     RecordPlacedInv, CheckMoveInv, CommitMoveInv, SupersedeInv DEF Step
<1>2. ASSUME NEW c \in Calls, OnCompleted(c) \/ SweepIntents(c) \/ TearDown(c)
      PROVE  IntakeInv'
  BY <1>2, TriggersInv
<1>3. CASE RemoveTorrent \/ AddAgain \/ Restart
  BY <1>3, OutsideInv
<1>4. CASE UNCHANGED vars
  BY <1>4 DEF vars, world, IntakeInv, TypeOK, HoldsJob, PlacesIdentified, AbsentIsBlank,
              PlacedIsIdentified, IntentBacked, State
<1> QED BY <1>1, <1>2, <1>3, <1>4, OperatorInv DEF Next

\* The inductive invariant holds in every state.
THEOREM IntakeInvariant == Spec => []IntakeInv
BY InitInv, NextInv, PTL DEF Spec

\* The variables of the intake keep their types, for every number of jobs, calls
\* and restarts.
THEOREM IntakeTypeCorrect == Spec => []TypeOK
<1>1. IntakeInv => TypeOK
  BY DEF IntakeInv
<1> QED BY <1>1, IntakeInvariant, PTL

\* importedStage places only what identifyStage gave a library, wherever releases,
\* retries, restarts and overlapping calls re-enter advance.
THEOREM PlacedIsIdentifiedCorrect == Spec => []PlacedIsIdentified
<1>1. IntakeInv => PlacedIsIdentified
  BY DEF IntakeInv
<1> QED BY <1>1, IntakeInvariant, PTL

\* stage spends an intent only behind an intake that exists, at whatever write the
\* process stops.
THEOREM IntentBackedCorrect == Spec => []IntentBacked
<1>1. IntakeInv => IntentBacked
  BY DEF IntakeInv
<1> QED BY <1>1, IntakeInvariant, PTL

----------------------------------------------------------------------------
(* One library file per payload.                                            *)

\* The inductive invariant for links to a free name: the name is this payload's link as
\* soon as there is one, and nobody saw another file there and is about to move it.
LinkedOnce ==
  used.adds = 0 =>
    /\ copies = 0 \/ (copies = 1 /\ canon = "linked")
    /\ canon # "other" /\ \A c \in Calls : act[c].pc # "aside"

\* The one for moves: what was placed is no longer in staging.
MovedOnce == used.adds = 0 => copies = 0 \/ (copies = 1 /\ ~source)

\* Only adding the torrent again counts as such.
LEMMA SpendAdds ==
  ASSUME IntakeInv, NEW b \in {"edges", "tries", "adds", "restarts"}, NEW max,
         Spend(b, max)
  PROVE  IF b = "adds" THEN used'.adds # 0 ELSE used'.adds = used.adds
<1>1. used.adds \in Nat
  BY WorldTypes, BoundsAssumption
<1>2. used' = [used EXCEPT ![b] = @ + 1]
  BY DEF Spend
<1> QED BY <1>1, <1>2, WorldTypes

\* Where a step takes its activation: the library keeps its files unless that is said.
LEMMA Steps ==
  ASSUME IntakeInv, NEW c \in Calls, Step(c)
  PROVE  /\ UNCHANGED <<engine, used>>
         /\ \A d \in Calls \ {c} : act'[d] = act[d]
         /\ \/ UNCHANGED <<source, canon, copies>> /\ act'[c].pc # "aside"
            \/ UNCHANGED <<source, canon, copies>> /\ act'[c].pc = "aside" /\ canon = "other"
            \/ UNCHANGED <<source, copies>> /\ act[c].pc = "aside" /\ act'[c].pc # "aside"
                 /\ canon' = "none"
            \/ act[c].pc = "exec" /\ act'[c].pc # "aside" /\ PlaceFile
<1> USE OfActivation, WorldTypes
<1>0. act \in [Calls -> Activation]
  BY DEF IntakeInv, TypeOK
<1>g. ASSUME NEW p \in Phases, Goto(c, p)
      PROVE  act'[c].pc = p /\ \A d \in Calls \ {c} : act'[d] = act[d]
  BY <1>0, <1>g, GotoType
<1>r. ASSUME Return(c)
      PROVE  act'[c].pc # "aside" /\ \A d \in Calls \ {c} : act'[d] = act[d]
  BY <1>0, <1>r, IdleType DEF Return
<1>a. ASSUME NEW to \in INTAKE_STATES, act[c].pc \in Holding, Ask(c, to)
      PROVE  act'[c].pc # "aside" /\ \A d \in Calls \ {c} : act'[d] = act[d]
  <2>1. PICK a \in Activation : a.pc = "check" /\ act' = [act EXCEPT ![c] = a]
    BY <1>a, AskType
  <2> QED BY <1>0, <2>1
<1>l. ASSUME NEW s \in INTAKE_STATES, act[c].pc \in Holding, LoopAt(c, s)
      PROVE  act'[c].pc # "aside" /\ \A d \in Calls \ {c} : act'[d] = act[d]
  <2>1. PICK a \in Activation : a.pc = "stage" /\ act' = [act EXCEPT ![c] = a]
    BY <1>l, LoopAtType
  <2> QED BY <1>0, <2>1
<1>1. CASE FindJob(c)
  <2>1. UNCHANGED <<engine, source, canon, copies, used>> BY <1>1 DEF FindJob, world
  <2>2. CASE Goto(c, "create")
    BY <2>1, <2>2, <1>g DEF Phases
  <2>3. CASE \E j \in Jobs : act' = [act EXCEPT ![c].pc = "spend", ![c].j = j]
    <3>1. PICK j \in Jobs : act' = [act EXCEPT ![c].pc = "spend", ![c].j = j] BY <2>3
    <3>2. act'[c].pc = "spend" /\ \A d \in Calls \ {c} : act'[d] = act[d]
      BY <1>0, <3>1 DEF Activation
    <3> QED BY <2>1, <3>2
  <2> QED BY <1>1, <2>2, <2>3 DEF FindJob
<1>2. CASE CreateJob(c)
  <2>1. UNCHANGED <<engine, source, canon, copies, used>> BY <1>2 DEF CreateJob, world
  <2>2. CASE Return(c)
    BY <2>1, <2>2, <1>r
  <2>3. CASE \E j \in Jobs : act' = [act EXCEPT ![c].pc = "spend", ![c].j = j]
    <3>1. PICK j \in Jobs : act' = [act EXCEPT ![c].pc = "spend", ![c].j = j] BY <2>3
    <3>2. act'[c].pc = "spend" /\ \A d \in Calls \ {c} : act'[d] = act[d]
      BY <1>0, <3>1 DEF Activation
    <3> QED BY <2>1, <3>2
  <2> QED BY <1>2, <2>2, <2>3 DEF CreateJob
<1>3. CASE SpendIntent(c)
  BY <1>3, <1>g DEF SpendIntent, Phases, world
<1>4. CASE Load(c)
  <2>1. act[c].pc \in Holding BY <1>4 DEF Load, At, Holding, Phases
  <2> QED BY <1>4, <1>l, <2>1 DEF Load, State, world
<1>5. CASE RunStage(c)
  <2>0. UNCHANGED <<engine, source, canon, copies, used>> /\ act[c].pc \in Holding
    BY <1>5 DEF RunStage, world, At, Holding, Phases
  <2> DEFINE j == act[c].j
             want == NextState(act[c].state)
  <2>1. CASE Return(c)
    BY <2>0, <2>1, <1>r
  <2>2. CASE Goto(c, "place")
    BY <2>0, <2>2, <1>g DEF Phases
  <2>3. ASSUME want \in Registered \ {"imported"}, NEW to \in StageAsks(j, want), Ask(c, to)
        PROVE  act'[c].pc # "aside" /\ \A d \in Calls \ {c} : act'[d] = act[d]
    <3>1. StageAsks(j, want) \subseteq {want, "quarantined", "failed"}
      BY <2>3 DEF StageAsks, VerifyAsks, IdentifyAsks, ReadyAsks, MetadataAsks, EnrichAsks,
                  Registered
    <3>2. to \in INTAKE_STATES
      BY <2>3, <3>1, StateFacts
    <3> QED BY <2>0, <2>3, <3>2, <1>a
  <2> QED BY <1>5, <2>0, <2>1, <2>2, <2>3 DEF RunStage
<1>6. CASE Place(c)
  <2>0. UNCHANGED <<engine, source, canon, copies, used>> /\ act[c].pc \in Holding
    BY <1>6 DEF Place, world, At, Holding, Phases
  <2>1. CASE \E to \in {"quarantined", "failed"} : Ask(c, to)
    BY <2>0, <2>1, <1>a, StateFacts
  <2>2. CASE \E p \in {"exec", "record"} : Goto(c, p)
    BY <2>0, <2>2, <1>g DEF Phases
  <2>3. CASE Goto(c, "aside") /\ canon = "other"
    BY <2>0, <2>3, <1>g DEF Phases
  <2>4. \/ \E to \in {"quarantined", "failed"} : Ask(c, to)
        \/ Goto(c, CASE canon = "none" -> "exec" [] canon = "linked" -> "record"
                      [] canon = "other" -> "aside")
    BY <1>6 DEF Place
  <2>5. \/ \E to \in {"quarantined", "failed"} : Ask(c, to)
        \/ \E p \in {"exec", "record"} : Goto(c, p)
        \/ Goto(c, "aside") /\ canon = "other"
    BY <2>4
  <2> QED BY <2>1, <2>2, <2>3, <2>5
<1>7. CASE SetAside(c)
  <2>0. UNCHANGED <<engine, source, copies, used>> /\ act[c].pc = "aside"
        /\ act[c].pc \in Holding
    BY <1>7 DEF SetAside, At, Holding, Phases
  <2>1. CASE Ask(c, "failed") /\ UNCHANGED canon
    BY <2>0, <2>1, <1>a, StateFacts
  <2>2. CASE Goto(c, "exec") /\ canon' = "none"
    BY <2>0, <2>2, <1>g DEF Phases
  <2> QED BY <1>7, <2>1, <2>2 DEF SetAside
<1>8. CASE Execute(c)
  <2>0. UNCHANGED used /\ act[c].pc = "exec" /\ act[c].pc \in Holding
    BY <1>8 DEF Execute, At, Holding, Phases
  <2>1. CASE Ask(c, "failed") /\ UNCHANGED world
    BY <2>0, <2>1, <1>a, StateFacts DEF world
  <2>2. CASE PlaceFile /\ Goto(c, "record")
    <3>1. act'[c].pc # "aside" /\ \A d \in Calls \ {c} : act'[d] = act[d]
      BY <2>2, <1>g DEF Phases
    <3>2. UNCHANGED engine
      BY <2>2 DEF PlaceFile
    <3> QED BY <2>0, <2>2, <3>1, <3>2
  <2> QED BY <1>8, <2>1, <2>2 DEF Execute
<1>9. CASE RecordPlaced(c)
  <2>1. act[c].pc \in Holding BY <1>9 DEF RecordPlaced, At, Holding, Phases
  <2> QED BY <1>9, <1>a, <2>1, StateFacts DEF RecordPlaced, world
<1>10. CASE CheckMove(c)
  <2>0. UNCHANGED <<engine, source, canon, copies, used>> /\ act[c].pc \in Holding
    BY <1>10 DEF CheckMove, world, At, Holding, Phases
  <2>1. CASE Ask(c, "failed")
    BY <2>0, <2>1, <1>a, StateFacts
  <2>2. CASE Return(c)
    BY <2>0, <2>2, <1>r
  <2>3. ASSUME act' = [act EXCEPT ![c].pc = "commit", ![c].from = row[act[c].j].state,
                                  ![c].resume = row[act[c].j].resume]
        PROVE  act'[c].pc # "aside" /\ \A d \in Calls \ {c} : act'[d] = act[d]
    BY <1>0, <2>3 DEF Activation
  <2> QED BY <1>10, <2>0, <2>1, <2>2, <2>3 DEF CheckMove
<1>11. CASE CommitMove(c)
  <2>0. UNCHANGED <<engine, source, canon, copies, used>> /\ act[c].pc \in Holding
        /\ act[c].to \in INTAKE_STATES
    BY <1>11 DEF CommitMove, world, At, Holding, Phases, Activation
  <2>1. LoopAt(c, act[c].to) \/ Return(c)
    BY <1>11 DEF CommitMove
  <2> QED BY <2>0, <2>1, <1>l, <1>r
<1>12. CASE SupersedeByHash(c)
  BY <1>12, <1>r DEF SupersedeByHash, world
<1> QED BY <1>1, <1>2, <1>3, <1>4, <1>5, <1>6, <1>7, <1>8, <1>9, <1>10, <1>11, <1>12
        DEF Step

\* The calls of operators and triggers begin at other steps, and so do a restart and the
\* torrent's comings and goings; a reset takes the library's files with it.
LEMMA OtherSteps ==
  ASSUME IntakeInv, [Next]_vars, ~\E c \in Calls : Step(c)
  PROVE  /\ \A c \in Calls : act'[c].pc = "aside" => act[c].pc = "aside"
         /\ \/ UNCHANGED <<canon, copies>> /\ used'.adds = used.adds /\ (source' => source)
            \/ /\ canon' \in {"none"} \cup ({canon} \ {"linked"}) /\ copies' = 0
               /\ used'.adds = used.adds
            \/ used'.adds # 0
<1> USE WorldTypes
<1>0. act \in [Calls -> Activation]
  BY DEF IntakeInv, TypeOK
<1>b. ASSUME NEW c \in Calls, NEW a, act' = [act EXCEPT ![c] = a], a.pc # "aside"
      PROVE  \A d \in Calls : act'[d].pc = "aside" => act[d].pc = "aside"
  BY <1>0, <1>b
<1>1. ASSUME NEW c \in Calls, OnCompleted(c)
      PROVE  /\ \A d \in Calls : act'[d].pc = "aside" => act[d].pc = "aside"
             /\ UNCHANGED <<source, canon, copies>> /\ used'.adds = used.adds
  <2>1. UNCHANGED <<source, canon, copies>> /\ used'.adds = used.adds
    BY <1>1, SpendAdds DEF OnCompleted, world
  <2>2. CASE Begin(c, "find", "edge", NoJob)
    <3>1. PICK a \in Activation : a.pc = "find" /\ act' = [act EXCEPT ![c] = a]
      BY <2>2, BeginType DEF Phases, Callers
    <3> QED BY <2>1, <3>1, <1>b
  <2>3. CASE UNCHANGED act
    BY <2>1, <2>3
  <2> QED BY <1>1, <2>2, <2>3 DEF OnCompleted
<1>2. ASSUME NEW c \in Calls, SweepIntents(c)
      PROVE  /\ \A d \in Calls : act'[d].pc = "aside" => act[d].pc = "aside"
             /\ UNCHANGED <<source, canon, copies>> /\ used'.adds = used.adds
  <2>1. PICK a \in Activation : a.pc = "find" /\ act' = [act EXCEPT ![c] = a]
    BY <1>2, BeginType DEF SweepIntents, Phases, Callers
  <2> QED BY <1>2, <2>1, <1>b DEF SweepIntents, world
<1>3. ASSUME NEW c \in Calls, TearDown(c)
      PROVE  /\ \A d \in Calls : act'[d].pc = "aside" => act[d].pc = "aside"
             /\ \/ UNCHANGED <<source, canon, copies>>
                \/ canon' \in {"none"} \cup ({canon} \ {"linked"}) /\ copies' = 0
             /\ used'.adds = used.adds
  <2>1. PICK a \in Activation : a.pc = "archive" /\ act' = [act EXCEPT ![c] = a]
    BY <1>3, BeginType DEF TearDown, Phases, Callers
  <2> QED BY <1>3, <2>1, <1>b DEF TearDown, world
<1>4. ASSUME NEW c \in Calls, NEW j \in Jobs, Advance(c, j)
      PROVE  /\ \A d \in Calls : act'[d].pc = "aside" => act[d].pc = "aside"
             /\ UNCHANGED <<source, canon, copies>> /\ used'.adds = used.adds
  <2>1. PICK a \in Activation : a.pc = "load" /\ act' = [act EXCEPT ![c] = a]
    BY <1>4, BeginType DEF Advance, Phases, Callers
  <2> QED BY <1>4, <2>1, <1>b DEF Advance, world
<1>5. ASSUME NEW c \in Calls, NEW who, NEW j, NEW to,
             act' = [act EXCEPT ![c] = [Idle EXCEPT !.pc = "check", !.by = who, !.j = j,
                                                    !.to = to]]
      PROVE  \A d \in Calls : act'[d].pc = "aside" => act[d].pc = "aside"
  <2>1. [Idle EXCEPT !.pc = "check", !.by = who, !.j = j, !.to = to].pc = "check"
    BY DEF Idle
  <2> QED BY <1>5, <2>1, <1>b
<1>6. ASSUME NEW c \in Calls, NEW j \in Jobs, Retry(c, j)
      PROVE  /\ \A d \in Calls : act'[d].pc = "aside" => act[d].pc = "aside"
             /\ UNCHANGED <<source, canon, copies>> /\ used'.adds = used.adds
  <2>1. UNCHANGED <<source, canon, copies>> /\ used'.adds = used.adds
    BY <1>6, SpendAdds DEF Retry, world
  <2>2. \A d \in Calls : act'[d].pc = "aside" => act[d].pc = "aside"
    BY <1>6, <1>5 DEF Retry
  <2> QED BY <2>1, <2>2
<1>7. ASSUME NEW c \in Calls, NEW j \in Jobs, Reconcile(c, j)
      PROVE  /\ \A d \in Calls : act'[d].pc = "aside" => act[d].pc = "aside"
             /\ UNCHANGED <<source, canon, copies>> /\ used'.adds = used.adds
  <2>1. UNCHANGED <<source, canon, copies>> /\ used'.adds = used.adds
    BY <1>7 DEF Reconcile, world
  <2>2. \A d \in Calls : act'[d].pc = "aside" => act[d].pc = "aside"
    BY <1>7, <1>5 DEF Reconcile
  <2> QED BY <2>1, <2>2
<1>8. ASSUME NEW c \in Calls, NEW j \in Jobs, NEW to, Operate(c, j, to)
      PROVE  /\ \A d \in Calls : act'[d].pc = "aside" => act[d].pc = "aside"
             /\ UNCHANGED <<source, canon, copies>> /\ used'.adds = used.adds
  <2>1. UNCHANGED <<source, canon, copies>> /\ used'.adds = used.adds
    BY <1>8 DEF Operate, world
  <2>2. \A d \in Calls : act'[d].pc = "aside" => act[d].pc = "aside"
    BY <1>8, <1>5 DEF Operate
  <2> QED BY <2>1, <2>2
<1>9. ASSUME RemoveTorrent
      PROVE  /\ UNCHANGED <<act, canon, copies>> /\ used'.adds = used.adds
             /\ source' => source
  <2>1. UNCHANGED <<act, canon, copies>> /\ used'.adds = used.adds
    BY <1>9 DEF RemoveTorrent
  <2>2. source' => source
    <3>1. source' \in {source, FALSE} BY <1>9 DEF RemoveTorrent
    <3> QED BY <3>1, Zenon
  <2> QED BY <2>1, <2>2
<1>10. ASSUME AddAgain PROVE act' = act /\ used'.adds # 0
  BY <1>10, SpendAdds DEF AddAgain
<1>11. ASSUME Restart
       PROVE  /\ \A d \in Calls : act'[d].pc = "aside" => act[d].pc = "aside"
              /\ UNCHANGED <<source, canon, copies>> /\ used'.adds = used.adds
  BY <1>11, SpendAdds, IdleType DEF Restart, world
<1>12. ASSUME UNCHANGED vars
       PROVE  UNCHANGED <<act, source, canon, copies, used>>
  BY <1>12 DEF vars, world
<1>13. CASE \E c \in Calls : OnCompleted(c) \/ SweepIntents(c) \/ TearDown(c)
  BY <1>13, <1>1, <1>2, <1>3
<1>14. CASE \E c \in Calls, j \in Jobs :
              \/ Advance(c, j) \/ Retry(c, j) \/ Reconcile(c, j)
              \/ \E to \in ReleaseTo \cup {"cancelled"} : Operate(c, j, to)
  BY <1>14, <1>4, <1>6, <1>7, <1>8
<1>15. CASE RemoveTorrent \/ AddAgain \/ Restart \/ UNCHANGED vars
  BY <1>15, <1>9, <1>10, <1>11, <1>12
<1> QED BY <1>13, <1>14, <1>15 DEF Next

LEMMA LinkedOnceInit == Init /\ ~Occupied => LinkedOnce
BY IdleType DEF Init, LinkedOnce

\* assertDestinationFree keeps two calls from both linking, and the inode comparison a
\* later one from linking again.
LEMMA LinkedOnceNext ==
  ASSUME Strategy = "hardlink", IntakeInv, LinkedOnce, [Next]_vars
  PROVE  LinkedOnce'
<1> SUFFICES ASSUME used'.adds = 0
             PROVE  /\ copies' = 0 \/ (copies' = 1 /\ canon' = "linked")
                    /\ canon' # "other" /\ \A d \in Calls : act'[d].pc # "aside"
  BY DEF LinkedOnce
<1>1. ASSUME NEW c \in Calls, Step(c)
      PROVE  /\ copies' = 0 \/ (copies' = 1 /\ canon' = "linked")
             /\ canon' # "other" /\ \A d \in Calls : act'[d].pc # "aside"
  <2>0. /\ used' = used /\ \A d \in Calls \ {c} : act'[d] = act[d]
        /\ \/ UNCHANGED <<source, canon, copies>> /\ act'[c].pc # "aside"
           \/ UNCHANGED <<source, canon, copies>> /\ act'[c].pc = "aside" /\ canon = "other"
           \/ UNCHANGED <<source, copies>> /\ act[c].pc = "aside" /\ act'[c].pc # "aside"
                /\ canon' = "none"
           \/ act[c].pc = "exec" /\ act'[c].pc # "aside" /\ PlaceFile
    BY <1>1, Steps
  <2>1. CASE UNCHANGED <<canon, copies>> /\ act'[c].pc # "aside"
    BY <2>0, <2>1 DEF LinkedOnce
  <2>2. CASE act'[c].pc # "aside" /\ PlaceFile
    <3>1. canon = "none" /\ canon' = "linked" /\ copies' = copies + 1 /\ copies = 0
      BY <2>0, <2>2 DEF PlaceFile, DestinationFree, LinkedOnce
    <3> QED BY <2>0, <2>2, <3>1 DEF LinkedOnce
  <2> QED BY <2>0, <2>1, <2>2 DEF LinkedOnce
<1>2. CASE ~\E c \in Calls : Step(c)
  <2>1. /\ \A d \in Calls : act'[d].pc = "aside" => act[d].pc = "aside"
        /\ used'.adds = used.adds
        /\ \/ UNCHANGED <<canon, copies>>
           \/ canon' \in {"none"} \cup ({canon} \ {"linked"}) /\ copies' = 0
    BY <1>2, OtherSteps
  <2> QED BY <2>1 DEF LinkedOnce
<1> QED BY <1>1, <1>2

\* A moved payload cannot be placed a second time: its source is gone.
LEMMA MovedOnceNext ==
  ASSUME Strategy = "move", IntakeInv, MovedOnce, [Next]_vars
  PROVE  MovedOnce'
<1> SUFFICES ASSUME used'.adds = 0
             PROVE  copies' = 0 \/ (copies' = 1 /\ ~source')
  BY DEF MovedOnce
<1>1. ASSUME NEW c \in Calls, Step(c) PROVE copies' = 0 \/ (copies' = 1 /\ ~source')
  <2>0. used' = used /\ (UNCHANGED <<source, copies>> \/ PlaceFile)
    BY <1>1, Steps
  <2>1. CASE UNCHANGED <<source, copies>>
    BY <2>0, <2>1 DEF MovedOnce
  <2>2. CASE PlaceFile
    <3>1. source /\ ~source'
      BY <2>2 DEF PlaceFile
    <3>2. copies = 0
      BY <2>0, <3>1 DEF MovedOnce
    <3> QED BY <2>2, <3>1, <3>2 DEF PlaceFile
  <2> QED BY <2>0, <2>1, <2>2
<1>2. CASE ~\E c \in Calls : Step(c)
  <2>1. /\ used'.adds = used.adds
        /\ (UNCHANGED copies /\ (source' => source)) \/ copies' = 0
    BY <1>2, OtherSteps
  <2> QED BY <2>1 DEF MovedOnce
<1> QED BY <1>1, <1>2

\* However many events, sweeps, operators and restarts overlap, a payload that is moved,
\* or linked to a name nothing else held, is in the library once: the loser of a race
\* finds the name taken, and a resumed intake finds its own link or no source
\* (importedStage, assertDestinationFree, placeFile).
THEOREM PlacedOnceCorrect ==
  ASSUME Strategy = "move" \/ (Strategy = "hardlink" /\ ~Occupied)
  PROVE  Spec => []PlacedOnce
<1>1. CASE Strategy = "move"
  <2>1. Init => MovedOnce
    BY DEF Init, MovedOnce
  <2>2. IntakeInv /\ MovedOnce /\ [Next]_vars => MovedOnce'
    BY <1>1, MovedOnceNext
  <2>3. MovedOnce => PlacedOnce
    BY DEF MovedOnce, PlacedOnce
  <2> QED BY <2>1, <2>2, <2>3, IntakeInvariant, PTL DEF Spec
<1>2. CASE Strategy = "hardlink" /\ ~Occupied
  <2>1. IntakeInv /\ LinkedOnce /\ [Next]_vars => LinkedOnce'
    BY <1>2, LinkedOnceNext
  <2>2. LinkedOnce => PlacedOnce
    BY DEF LinkedOnce, PlacedOnce
  <2>3. Init => LinkedOnce
    BY <1>2, LinkedOnceInit
  <2> QED BY <2>1, <2>2, <2>3, IntakeInvariant, PTL DEF Spec
<1> QED BY <1>1, <1>2

----------------------------------------------------------------------------
(* What a row and a call remember of an intake.                             *)

\* The states a failure can happen in.
Underway == {LINE[i] : i \in 1..13}

\* Something that was brought past the placement, if no release may name such a state.
Past(S) == ReleaseTo \cap Imported = {} /\ S \cap Imported # {}

\* What was brought past the placement has its file recorded, and what failed knows
\* where: in the row, and in what a call has read and is about to write.
RowKnows(j) ==
  /\ Past({row[j].state, row[j].resume}) => row[j].placed
  /\ row[j].state = "failed" => row[j].resume \in Underway
Knows(a) ==
  /\ Past({a.state, a.to, a.from, a.resume}) => a.pc \in Holding /\ row[a.j].placed
  /\ a.pc = "commit" /\ a.to = "failed" => a.from \in Underway
Remembers == (\A j \in Jobs : RowKnows(j)) /\ \A c \in Calls : Knows(act[c])

\* What was recorded stays so.
PlacedStays == \A j \in Jobs : row[j].placed => row'[j].placed

LEMMA LineFacts ==
  /\ DOMAIN LINE = 1..14 /\ LINE[14] = "archived"
  /\ \A i \in 1..14 : LINE[i] \notin {"failed", "quarantined", "cancelled", "none", "absent"}
  /\ \A i \in 1..13 : LINE[i] \notin TERMINAL_INTAKE_STATES
  /\ INTAKE_STATES \ TERMINAL_INTAKE_STATES \subseteq Underway
<1>1. DOMAIN LINE = 1..14 /\ LINE[14] = "archived"
  BY DEF LINE
<1>2. \A i \in 1..14 : LINE[i] \notin {"failed", "quarantined", "cancelled", "none", "absent"}
  BY DEF LINE
<1>3. \A i, k \in 1..14 : LINE[i] = LINE[k] => i = k
  BY DEF LINE
<1>4. \A i \in 1..13 : LINE[i] \notin TERMINAL_INTAKE_STATES
  BY <1>1, <1>2, <1>3 DEF TERMINAL_INTAKE_STATES
<1>5. INTAKE_STATES \ TERMINAL_INTAKE_STATES \subseteq Underway
  <2> SUFFICES ASSUME NEW s \in INTAKE_STATES, s \notin TERMINAL_INTAKE_STATES
               PROVE  s \in Underway
    OBVIOUS
  <2>1. PICK i \in 1..14 : s = LINE[i]
    BY <1>1 DEF INTAKE_STATES, TERMINAL_INTAKE_STATES
  <2>2. i # 14
    BY <1>1, <2>1 DEF TERMINAL_INTAKE_STATES
  <2>3. i \in 1..13
    BY <2>2
  <2> QED BY <2>1, <2>3 DEF Underway
<1> QED BY <1>1, <1>2, <1>4, <1>5

\* A failed intake may re-enter at any state a failure can happen in.
LEMMA FailedPath ==
  /\ \A s \in Underway : CanTransition("failed", s)
  /\ NextState("failed") = "queued"
<1>1. HAPPY_PATH["failed"] = SubSeq(LINE, 1, 13)
  BY DEF HAPPY_PATH
<1>2. LINE \in Seq(INTAKE_STATES)
  <2>1. DOMAIN LINE = 1..14 /\ \A i \in 1..14 : LINE[i] \in INTAKE_STATES
    BY LineFacts DEF INTAKE_STATES
  <2>2. LINE = [i \in 1..14 |-> LINE[i]]
    BY DEF LINE
  <2> QED BY <2>1, <2>2
<1>3. Len(LINE) = 14 /\ LINE[1] = "queued"
  BY DEF LINE
<1>4. PICK s : s = SubSeq(LINE, 1, 13)
  OBVIOUS
<1>5. s = [n \in 1..13 |-> LINE[n]]
  BY <1>2, <1>3, <1>4
<1>6. DOMAIN s = 1..13 /\ \A i \in 1..13 : s[i] = LINE[i]
  BY <1>5
<1>7. s # <<>>
  <2>1. 1 \in DOMAIN s
    BY <1>6
  <2>2. 1 \notin DOMAIN <<>>
    OBVIOUS
  <2> QED BY <2>1, <2>2
<1>8. ASSUME NEW i \in 1..13 PROVE CanTransition("failed", LINE[i])
  <2>1. "failed" # LINE[i] /\ LINE[i] \notin {"failed", "cancelled"}
    BY LineFacts
  <2>2. i \in DOMAIN HAPPY_PATH["failed"] /\ HAPPY_PATH["failed"][i] = LINE[i]
    BY <1>1, <1>4, <1>6
  <2> QED BY <2>1, <2>2 DEF CanTransition, TERMINAL_INTAKE_STATES
<1> QED BY <1>1, <1>3, <1>4, <1>6, <1>7, <1>8 DEF NextState, Underway

\* Only what is past the placement is led on to the states after metadata.
LEMMA Enriching ==
  ASSUME NEW s \in INTAKE_STATES, NextState(s) \in {"artwork_ready", "subtitle_ready", "seeding"}
  PROVE  s \in Imported
<1>1. s # "failed"
  BY FailedPath
<1>2. DOMAIN LINE = 1..14 /\ INTAKE_STATES = {LINE[i] : i \in 1..14} \cup {"failed", "quarantined", "cancelled"}
  BY LineFacts DEF INTAKE_STATES
<1>3. s \in {"queued", "downloading", "completed", "verified", "identified",
             "quality_scored", "ready_to_import", "importing", "imported",
             "metadata_ready", "artwork_ready", "subtitle_ready", "seeding", "archived",
             "quarantined", "cancelled"}
  BY <1>1, <1>2 DEF LINE
<1> QED BY <1>3 DEF NextState, HAPPY_PATH, Imported

\* A move to failed starts at a state of the line.
LEMMA FailsOnTheLine ==
  ASSUME NEW s \in INTAKE_STATES, CanTransition(s, "failed")
  PROVE  s \in Underway
BY LineFacts DEF CanTransition

\* The activation after its step.
SameIntake(a, b) == b.j = a.j /\ b.state = a.state /\ b.from = a.from /\ b.resume = a.resume

LEMMA AskIs ==
  ASSUME IntakeInv, NEW c \in Calls, NEW to, Ask(c, to)
  PROVE  \E b : /\ act' = [act EXCEPT ![c] = b] /\ b.pc = "check" /\ b.to = to
                /\ SameIntake(act[c], b)
<1> DEFINE b == [act[c] EXCEPT !.pc = "check", !.to = to]
<1>1. act' = [act EXCEPT ![c] = b]
  BY DEF Ask, IntakeInv, TypeOK
<1>2. b.pc = "check" /\ b.to = to /\ SameIntake(act[c], b)
  BY OfActivation DEF Activation, SameIntake
<1> QED BY <1>1, <1>2

LEMMA GotoIs ==
  ASSUME IntakeInv, NEW c \in Calls, NEW p, Goto(c, p)
  PROVE  \E b : /\ act' = [act EXCEPT ![c] = b] /\ b.pc = p /\ b.to = act[c].to
                /\ SameIntake(act[c], b)
<1> DEFINE b == [act[c] EXCEPT !.pc = p]
<1>1. act' = [act EXCEPT ![c] = b]
  BY DEF Goto, IntakeInv, TypeOK
<1>2. b.pc = p /\ b.to = act[c].to /\ SameIntake(act[c], b)
  BY OfActivation DEF Activation, SameIntake
<1> QED BY <1>1, <1>2

LEMMA LoopIs ==
  ASSUME IntakeInv, NEW c \in Calls, NEW s, LoopAt(c, s)
  PROVE  \E b : /\ act' = [act EXCEPT ![c] = b] /\ b.pc = "stage" /\ b.j = act[c].j
                /\ b.state = s /\ b.to = "completed" /\ b.from = "completed" /\ b.resume = "none"
<1> DEFINE b == [Idle EXCEPT !.pc = "stage", !.by = act[c].by, !.j = act[c].j,
                             !.state = s, !.pipeline = TRUE]
<1>1. act' = [act EXCEPT ![c] = b]
  BY DEF LoopAt
<1>2. /\ b.pc = "stage" /\ b.j = act[c].j
      /\ b.state = s /\ b.to = "completed" /\ b.from = "completed" /\ b.resume = "none"
  BY DEF Idle
<1> QED BY <1>1, <1>2

LEMMA IdleKnows == Knows(Idle) /\ Knows(Idle)'
BY DEF Knows, Past, Idle, Imported

\* One call moves on: left to show is what it and the row know then.
LEMMA CallRemembers ==
  ASSUME IntakeInv, Remembers, NEW c \in Calls, NEW b, act' = [act EXCEPT ![c] = b],
         PlacedStays, \A j \in Jobs : RowKnows(j)', Knows(b)'
  PROVE  Remembers'
<1>1. ASSUME NEW d \in Calls, d # c PROVE Knows(act[d])'
  <2>1. act'[d] = act[d] /\ Knows(act[d])
    BY <1>1 DEF IntakeInv, TypeOK, Remembers
  <2> QED BY <2>1, OfActivation DEF Knows, PlacedStays
<1>2. act'[c] = b
  BY DEF IntakeInv, TypeOK
<1> QED BY <1>1, <1>2 DEF Remembers, Knows

\* The same where the row stays.
LEMMA RowStays ==
  ASSUME UNCHANGED row, Remembers
  PROVE  PlacedStays /\ \A j \in Jobs : RowKnows(j)'
BY DEF PlacedStays, Remembers, RowKnows

LEMMA StartRemembers ==
  ASSUME IntakeInv, Remembers, NEW c \in Calls,
         FindJob(c) \/ CreateJob(c) \/ SpendIntent(c)
  PROVE  Remembers'
<1>1. Knows(act[c]) /\ act[c] \in Activation
  BY OfActivation DEF Remembers
<1>2. CASE FindJob(c)
  <2>1. act[c].pc \notin Holding /\ row' = row
    BY <1>2 DEF FindJob, At, Holding
  <2>2. CASE Goto(c, "create")
    <3>1. PICK b : /\ act' = [act EXCEPT ![c] = b] /\ b.pc = "create" /\ b.to = act[c].to
                   /\ SameIntake(act[c], b)
      BY <2>2, GotoIs
    <3>2. Knows(b)'
      BY <1>1, <2>1, <3>1 DEF Knows, SameIntake
    <3> QED BY <2>1, <3>1, <3>2, RowStays, CallRemembers
  <2>3. ASSUME NEW j \in Jobs, act' = [act EXCEPT ![c].pc = "spend", ![c].j = j]
        PROVE  Remembers'
    <3>0. PICK b : b = [act[c] EXCEPT !.pc = "spend", !.j = j]
      OBVIOUS
    <3>1. act' = [act EXCEPT ![c] = b]
      BY <2>3, <3>0 DEF IntakeInv, TypeOK
    <3>2. /\ b.pc = "spend" /\ b.to = act[c].to /\ b.state = act[c].state
          /\ b.from = act[c].from /\ b.resume = act[c].resume
      BY <1>1, <3>0 DEF Activation
    <3>3. Knows(b)'
      BY <1>1, <2>1, <3>2 DEF Knows
    <3> QED BY <2>1, <3>1, <3>3, RowStays, CallRemembers
  <2> QED BY <1>2, <2>2, <2>3 DEF FindJob
<1>3. CASE CreateJob(c)
  <2>1. act[c].pc \notin Holding
    BY <1>3 DEF CreateJob, At, Holding
  <2>2. CASE Return(c) /\ UNCHANGED row
    BY <2>2, IdleKnows, RowStays, CallRemembers DEF Return
  <2>3. ASSUME NEW j \in Jobs, State(j) = "absent",
               row' = [row EXCEPT ![j] = [Absent EXCEPT !.state = "completed", !.key = TRUE]],
               act' = [act EXCEPT ![c].pc = "spend", ![c].j = j]
        PROVE  Remembers'
    <3>0. PICK b : b = [act[c] EXCEPT !.pc = "spend", !.j = j]
      OBVIOUS
    <3> DEFINE r == [Absent EXCEPT !.state = "completed", !.key = TRUE]
    <3>1. act' = [act EXCEPT ![c] = b]
      BY <2>3, <3>0 DEF IntakeInv, TypeOK
    <3>2. /\ b.pc = "spend" /\ b.to = act[c].to /\ b.state = act[c].state
          /\ b.from = act[c].from /\ b.resume = act[c].resume
      BY <1>1, <3>0 DEF Activation
    <3>3. Knows(b)'
      BY <1>1, <2>1, <3>2 DEF Knows
    <3>4. r.state = "completed" /\ r.resume = "none"
      BY DEF Absent
    <3>5. row[j] = Absent /\ ~Absent.placed
      BY <2>3 DEF IntakeInv, AbsentIsBlank, State, Absent
    <3>6. row'[j] = r /\ \A i \in Jobs : i # j => row'[i] = row[i]
      BY <2>3, WorldTypes
    <3> HIDE DEF r
    <3>7. PlacedStays
      BY <3>5, <3>6 DEF PlacedStays
    <3>8. ASSUME NEW i \in Jobs PROVE RowKnows(i)'
      BY <3>4, <3>6 DEF RowKnows, Remembers, Past, Imported
    <3> QED BY <3>1, <3>3, <3>7, <3>8, CallRemembers
  <2> QED BY <1>3, <2>2, <2>3 DEF CreateJob
<1>4. CASE SpendIntent(c)
  <2>1. act[c].pc = "spend" /\ row' = row /\ Goto(c, "load")
    BY <1>4 DEF SpendIntent, At
  <2>2. PICK b : /\ act' = [act EXCEPT ![c] = b] /\ b.pc = "load" /\ b.to = act[c].to
                 /\ SameIntake(act[c], b)
    BY <2>1, GotoIs
  <2>3. Knows(b)'
    BY <1>1, <2>1, <2>2 DEF Knows, SameIntake, Holding, Phases
  <2> QED BY <2>1, <2>2, <2>3, RowStays, CallRemembers
<1> QED BY <1>2, <1>3, <1>4

\* The pipeline asks for a state past the placement only with the file recorded.
LEMMA PipelineRemembers ==
  ASSUME IntakeInv, Remembers, NEW c \in Calls,
         \/ Load(c) \/ RunStage(c) \/ Place(c) \/ SetAside(c) \/ Execute(c) \/ RecordPlaced(c)
  PROVE  Remembers'
<1>1. /\ act[c] \in Activation /\ act[c].pc \in Holding /\ act[c].j \in Jobs
      /\ row \in [Jobs -> Row] /\ row[act[c].j] \in Row
      /\ Knows(act[c]) /\ RowKnows(act[c].j)
  <2>1. act[c].pc \in Holding
    BY DEF Load, RunStage, Place, SetAside, Execute, RecordPlaced, At, Holding, Phases
  <2> QED BY <2>1, OfActivation, WorldTypes DEF Remembers
<1>2. ASSUME NEW to, Ask(c, to), PlacedStays, \A j \in Jobs : RowKnows(j)',
             to \in Imported => row'[act[c].j].placed \/ ReleaseTo \cap Imported # {}
      PROVE  Remembers'
  <2>1. PICK b : /\ act' = [act EXCEPT ![c] = b] /\ b.pc = "check" /\ b.to = to
                 /\ SameIntake(act[c], b)
    BY <1>2, AskIs
  <2>2. Knows(b)'
    <3>1. ASSUME Past({b.state, b.to, b.from, b.resume}) PROVE row'[b.j].placed
      <4>1. CASE to \in Imported
        BY <1>2, <2>1, <3>1, <4>1 DEF Past, SameIntake
      <4>2. CASE to \notin Imported
        BY <1>1, <1>2, <2>1, <3>1, <4>2 DEF Past, SameIntake, Knows, PlacedStays
      <4> QED BY <4>1, <4>2
    <3> QED BY <2>1, <3>1 DEF Knows, Past, Holding, Phases
  <2> QED BY <1>2, <2>1, <2>2, CallRemembers
<1>3. ASSUME NEW p \in {"place", "aside", "exec", "record"}, Goto(c, p), UNCHANGED row
      PROVE  Remembers'
  <2>1. PICK b : /\ act' = [act EXCEPT ![c] = b] /\ b.pc = p /\ b.to = act[c].to
                 /\ SameIntake(act[c], b)
    BY <1>3, GotoIs
  <2>2. Knows(b)'
    BY <1>1, <1>3, <2>1 DEF Knows, SameIntake, Holding, Phases
  <2> QED BY <1>3, <2>1, <2>2, RowStays, CallRemembers
<1>4. ASSUME NEW to \in {"quarantined", "failed"}, Ask(c, to), UNCHANGED row PROVE Remembers'
  BY <1>2, <1>4, RowStays DEF Imported
<1>5. CASE Load(c)
  <2>1. row' = row /\ LoopAt(c, row[act[c].j].state)
    BY <1>5 DEF Load, State
  <2>2. PICK b : /\ act' = [act EXCEPT ![c] = b] /\ b.pc = "stage" /\ b.j = act[c].j
                 /\ b.state = row[act[c].j].state
                 /\ b.to = "completed" /\ b.from = "completed" /\ b.resume = "none"
    BY <2>1, LoopIs
  <2>3. Knows(b)'
    BY <1>1, <2>1, <2>2 DEF Knows, RowKnows, Past, Holding, Phases, Imported
  <2> QED BY <2>1, <2>2, <2>3, RowStays, CallRemembers
<1>6. CASE RunStage(c)
  <2> DEFINE j == act[c].j
             want == NextState(act[c].state)
  <2>1. CASE Return(c) /\ UNCHANGED row
    BY <2>1, IdleKnows, RowStays, CallRemembers DEF Return
  <2>2. CASE Goto(c, "place") /\ UNCHANGED row
    BY <1>3, <2>2
  <2>3. ASSUME want \in Registered \ {"imported"}, NEW to \in StageAsks(j, want), Ask(c, to),
               row' = IF to = "identified" THEN [row EXCEPT ![j].lib = TRUE] ELSE row
        PROVE  Remembers'
    <3>1. \A i \in Jobs : /\ row'[i].state = row[i].state /\ row'[i].resume = row[i].resume
                          /\ row'[i].placed = row[i].placed
      BY <1>1, <2>3 DEF Row
    <3>2. PlacedStays /\ \A i \in Jobs : RowKnows(i)'
      BY <3>1 DEF PlacedStays, Remembers, RowKnows
    <3>3. StageAsks(j, want) \subseteq {want, "quarantined", "failed"}
      BY <2>3 DEF StageAsks, VerifyAsks, IdentifyAsks, ReadyAsks, MetadataAsks, EnrichAsks,
                  Registered
    <3>4. ASSUME to \in Imported, ReleaseTo \cap Imported = {} PROVE row[j].placed
      <4>1. to = want
        BY <3>3, <3>4 DEF Imported
      <4>2. CASE want = "metadata_ready"
        BY <2>3, <4>1, <4>2 DEF StageAsks, MetadataAsks
      <4>3. CASE want # "metadata_ready"
        <5>1. want \in {"artwork_ready", "subtitle_ready", "seeding"}
          BY <2>3, <3>4, <4>1, <4>3 DEF Imported, Registered
        <5>2. act[c].state \in Imported
          BY <1>1, <5>1, Enriching DEF Activation
        <5> QED BY <1>1, <3>4, <5>2 DEF Knows, Past
      <4> QED BY <4>2, <4>3
    <3> QED BY <1>1, <1>2, <2>3, <3>1, <3>2, <3>4
  <2> QED BY <1>6, <2>1, <2>2, <2>3 DEF RunStage
<1>7. CASE Place(c)
  <2>1. row' = row
    BY <1>7 DEF Place
  <2>2. \/ \E to \in {"quarantined", "failed"} : Ask(c, to)
        \/ \E p \in {"exec", "record", "aside"} : Goto(c, p)
    BY <1>7, WorldTypes DEF Place
  <2> QED BY <1>3, <1>4, <2>1, <2>2
<1>8. CASE SetAside(c)
  BY <1>3, <1>4, <1>8 DEF SetAside
<1>9. CASE Execute(c)
  BY <1>3, <1>4, <1>9 DEF Execute
<1>10. CASE RecordPlaced(c)
  <2>1. row' = [row EXCEPT ![act[c].j].placed = TRUE] /\ Ask(c, "imported")
    BY <1>10 DEF RecordPlaced
  <2>2. /\ row'[act[c].j].placed
        /\ \A i \in Jobs : /\ row'[i].state = row[i].state /\ row'[i].resume = row[i].resume
                           /\ row[i].placed => row'[i].placed
    BY <1>1, <2>1 DEF Row
  <2>3. PlacedStays /\ \A i \in Jobs : RowKnows(i)'
    BY <2>2 DEF PlacedStays, Remembers, RowKnows
  <2> QED BY <1>2, <2>1, <2>2, <2>3
<1> QED BY <1>5, <1>6, <1>7, <1>8, <1>9, <1>10

\* transition: what it read is what a failure remembers, whatever was written since.
LEMMA MoveRemembers ==
  ASSUME IntakeInv, Remembers, NEW c \in Calls,
         CheckMove(c) \/ CommitMove(c) \/ SupersedeByHash(c)
  PROVE  Remembers'
<1>1. act[c] \in Activation /\ row \in [Jobs -> Row] /\ Knows(act[c])
  BY OfActivation, WorldTypes DEF Remembers
<1>2. CASE CheckMove(c)
  <2>1. /\ act[c].pc = "check" /\ row' = row /\ act[c].j \in Jobs /\ RowKnows(act[c].j)
        /\ row[act[c].j].state \in INTAKE_STATES
    <3>1. act[c].pc = "check" /\ row' = row /\ act[c].pc \in Holding
      BY <1>2 DEF CheckMove, At, Holding, Phases
    <3> QED BY <3>1, OfActivation DEF Remembers
  <2>2. CASE Return(c)
    BY <2>1, <2>2, IdleKnows, RowStays, CallRemembers DEF Return
  <2>3. CASE Ask(c, "failed")
    <3>1. PICK b : /\ act' = [act EXCEPT ![c] = b] /\ b.pc = "check" /\ b.to = "failed"
                   /\ SameIntake(act[c], b)
      BY <2>3, AskIs
    <3>2. Knows(b)'
      BY <1>1, <2>1, <3>1 DEF Knows, Past, SameIntake, Holding, Phases, Imported
    <3> QED BY <2>1, <3>1, <3>2, RowStays, CallRemembers
  <2>4. CASE /\ CanTransition(row[act[c].j].state, act[c].to)
             /\ act' = [act EXCEPT ![c].pc = "commit", ![c].from = row[act[c].j].state,
                                   ![c].resume = row[act[c].j].resume]
    <3>0. PICK b : b = [act[c] EXCEPT !.pc = "commit", !.from = row[act[c].j].state,
                                      !.resume = row[act[c].j].resume]
      OBVIOUS
    <3>1. act' = [act EXCEPT ![c] = b]
      BY <2>4, <3>0 DEF IntakeInv, TypeOK
    <3>2. /\ b.pc = "commit" /\ b.to = act[c].to /\ b.state = act[c].state /\ b.j = act[c].j
          /\ b.from = row[act[c].j].state /\ b.resume = row[act[c].j].resume
      BY <1>1, <3>0 DEF Activation
    <3>3. Past({b.state, b.to, b.from, b.resume}) => row[b.j].placed
      BY <1>1, <2>1, <3>2 DEF Knows, RowKnows, Past
    <3>4. b.to = "failed" => b.from \in Underway
      BY <2>1, <2>4, <3>2, FailsOnTheLine
    <3>5. Knows(b)'
      BY <2>1, <3>2, <3>3, <3>4 DEF Knows, Past, Holding, Phases
    <3> QED BY <2>1, <3>1, <3>5, RowStays, CallRemembers
  <2> QED BY <1>2, <2>2, <2>3, <2>4 DEF CheckMove
<1>3. CASE CommitMove(c)
  <2> DEFINE to == act[c].to
             resume == CASE to = "failed" -> act[c].from
                         [] to = "queued" -> "none"
                         [] OTHER -> act[c].resume
             r == [row[act[c].j] EXCEPT !.state = to, !.resume = resume]
  <2>1. act[c].pc = "commit" /\ act[c].j \in Jobs /\ row[act[c].j] \in Row
    BY <1>3, OfActivation DEF CommitMove, At, Holding, Phases
  <2>2. /\ to = "failed" => resume = act[c].from
        /\ resume \in {act[c].from, act[c].resume, "none"}
    OBVIOUS
  <2> HIDE DEF resume
  <2>3. r.state = to /\ r.resume = resume /\ r.placed = row[act[c].j].placed
    BY <2>1 DEF Row
  <2>4. row' = [row EXCEPT ![act[c].j] = r]
    BY <1>1, <1>3, <2>1 DEF CommitMove, resume
  <2> HIDE DEF r
  <2>5. row'[act[c].j] = r /\ \A i \in Jobs : i # act[c].j => row'[i] = row[i]
    BY <1>1, <2>1, <2>4
  <2>6. PlacedStays
    BY <2>3, <2>5 DEF PlacedStays
  <2>7. Past({to, resume}) => row[act[c].j].placed
    <3>1. "none" \notin Imported
      BY DEF Imported
    <3> QED BY <1>1, <2>2, <3>1 DEF Knows, Past
  <2>8. ASSUME NEW i \in Jobs PROVE RowKnows(i)'
    <3>1. CASE i # act[c].j
      BY <2>5, <3>1 DEF Remembers, RowKnows
    <3>2. CASE i = act[c].j
      BY <1>1, <2>1, <2>2, <2>3, <2>5, <2>7, <3>2 DEF Knows, RowKnows, Past
    <3> QED BY <3>1, <3>2
  <2>9. CASE Return(c)
    BY <2>6, <2>8, <2>9, IdleKnows, CallRemembers DEF Return
  <2>10. CASE LoopAt(c, to)
    <3>1. PICK b : /\ act' = [act EXCEPT ![c] = b] /\ b.pc = "stage" /\ b.j = act[c].j
                   /\ b.state = to
                   /\ b.to = "completed" /\ b.from = "completed" /\ b.resume = "none"
      BY <2>10, LoopIs
    <3>2. Past({b.state, b.to, b.from, b.resume}) => row[act[c].j].placed
      BY <2>7, <3>1 DEF Past, Imported
    <3>3. Knows(b)'
      BY <2>1, <2>3, <2>5, <3>1, <3>2 DEF Knows, Past, Holding, Phases
    <3> QED BY <2>6, <2>8, <3>1, <3>3, CallRemembers
  <2> QED BY <1>3, <2>9, <2>10 DEF CommitMove
<1>4. CASE SupersedeByHash(c)
  <2>1. ASSUME NEW i \in Jobs
        PROVE  (row[i].placed => row'[i].placed) /\ RowKnows(i)'
    <3> DEFINE r == [row[i] EXCEPT !.state = "archived", !.key = FALSE]
    <3>1. r.state = "archived" /\ r.resume = row[i].resume /\ r.placed = row[i].placed
      BY <1>1 DEF Row
    <3>2. row'[i] = row[i] \/ row'[i] = r
      BY <1>4 DEF SupersedeByHash
    <3> HIDE DEF r
    <3> QED BY <3>1, <3>2 DEF Remembers, RowKnows, Past, Imported
  <2> QED BY <1>4, <2>1, IdleKnows, CallRemembers DEF SupersedeByHash, Return, PlacedStays
<1> QED BY <1>2, <1>3, <1>4

LEMMA OthersRemember ==
  ASSUME IntakeInv, Remembers, [Next]_vars, ~\E c \in Calls : Step(c)
  PROVE  Remembers'
<1>1. ASSUME NEW c \in Calls, NEW p \in {"find", "load", "archive"}, NEW who, NEW j,
             Begin(c, p, who, j), UNCHANGED row
      PROVE  Remembers'
  <2> DEFINE b == [Idle EXCEPT !.pc = p, !.by = who, !.j = j]
  <2>1. b.pc = p /\ b.state = "completed" /\ b.to = "completed" /\ b.from = "completed" /\ b.resume = "none"
    BY DEF Idle
  <2>2. act' = [act EXCEPT ![c] = b]
    BY <1>1 DEF Begin
  <2> HIDE DEF b
  <2>3. Knows(b)'
    BY <2>1 DEF Knows, Past, Imported
  <2> QED BY <1>1, <2>2, <2>3, RowStays, CallRemembers
<1>2. ASSUME NEW c \in Calls, NEW who, NEW j \in Jobs, NEW to, UNCHANGED row,
             act' = [act EXCEPT ![c] = [Idle EXCEPT !.pc = "check", !.by = who, !.j = j,
                                                    !.to = to]],
             Past({to}) => row[j].placed
      PROVE  Remembers'
  <2> DEFINE b == [Idle EXCEPT !.pc = "check", !.by = who, !.j = j, !.to = to]
  <2>1. /\ b.pc = "check" /\ b.j = j /\ b.to = to
        /\ b.state = "completed" /\ b.from = "completed" /\ b.resume = "none"
    BY DEF Idle
  <2>2. act' = [act EXCEPT ![c] = b]
    BY <1>2
  <2> HIDE DEF b
  <2>3. Past({b.state, b.to, b.from, b.resume}) => row[j].placed
    BY <1>2, <2>1 DEF Past, Imported
  <2>4. Knows(b)'
    BY <1>2, <2>1, <2>3 DEF Knows, Past, Holding, Phases
  <2> QED BY <1>2, <2>2, <2>4, RowStays, CallRemembers
<1>3. ASSUME UNCHANGED <<row, act>> PROVE Remembers'
  BY <1>3 DEF Remembers, Knows, RowKnows
<1>4. ASSUME NEW c \in Calls, OnCompleted(c) \/ SweepIntents(c) \/ TearDown(c) PROVE Remembers'
  BY <1>1, <1>3, <1>4 DEF OnCompleted, SweepIntents, TearDown
<1>5. ASSUME NEW c \in Calls, NEW j \in Jobs, Advance(c, j) PROVE Remembers'
  BY <1>1, <1>5 DEF Advance
<1>6. ASSUME NEW c \in Calls, NEW j \in Jobs, Retry(c, j) PROVE Remembers'
  <2>1. PICK to : to = IF row[j].resume = "none" THEN "completed" ELSE row[j].resume
    OBVIOUS
  <2>2. Past({to}) => row[j].placed
    BY <2>1 DEF Past, Imported, Remembers, RowKnows
  <2>3. row' = row /\ act' = [act EXCEPT ![c] = [Idle EXCEPT !.pc = "check", !.by = "operator",
                                                 !.j = j, !.to = to]]
    BY <1>6, <2>1 DEF Retry
  <2> QED BY <1>2, <2>2, <2>3
<1>7. ASSUME NEW c \in Calls, NEW j \in Jobs, Reconcile(c, j) PROVE Remembers'
  BY <1>2, <1>7 DEF Reconcile, Past, Imported
<1>8. ASSUME NEW c \in Calls, NEW j \in Jobs, NEW to \in ReleaseTo \cup {"cancelled"},
             Operate(c, j, to)
      PROVE  Remembers'
  <2>1. ~Past({to})
    BY <1>8 DEF Past, Imported
  <2> QED BY <1>2, <1>8, <2>1 DEF Operate
<1>9. CASE RemoveTorrent \/ AddAgain \/ UNCHANGED vars
  BY <1>3, <1>9 DEF RemoveTorrent, AddAgain, vars
<1>10. CASE Restart
  <2>1. row' = row /\ \A d \in Calls : act'[d] = Idle
    BY <1>10 DEF Restart
  <2>2. \A d \in Calls : Knows(act[d])'
    BY <2>1, IdleKnows DEF Knows
  <2> QED BY <2>1, <2>2, RowStays DEF Remembers
<1> QED BY <1>4, <1>5, <1>6, <1>7, <1>8, <1>9, <1>10, Zenon DEF Next

LEMMA Remembering == Spec => []Remembers
<1>1. Init => Remembers
  <2> SUFFICES ASSUME Init PROVE Remembers
    OBVIOUS
  <2>1. \A c \in Calls : Knows(act[c])
    BY IdleKnows DEF Init
  <2>2. \A j \in Jobs : RowKnows(j)
    BY DEF Init, RowKnows, Past, Imported, Absent
  <2> QED BY <2>1, <2>2 DEF Remembers
<1>2. IntakeInv /\ Remembers /\ [Next]_vars => Remembers'
  <2> SUFFICES ASSUME IntakeInv, Remembers, [Next]_vars PROVE Remembers'
    OBVIOUS
  <2>1. ASSUME NEW c \in Calls, Step(c) PROVE Remembers'
    BY <2>1, StartRemembers, PipelineRemembers, MoveRemembers DEF Step
  <2> QED BY <2>1, OthersRemember
<1> QED BY <1>1, <1>2, IntakeInvariant, PTL DEF Spec

\* A failed intake can always be retried, whatever calls, cancels and restarts overlapped
\* with the one that failed it: transition remembers the state it checked, and that is
\* one a failure can happen in.
THEOREM RetryResumesCorrect == Spec => []RetryResumes
<1>1. Remembers => RetryResumes
  BY FailedPath DEF Remembers, RowKnows, RetryResumes, State
<1> QED BY <1>1, Remembering, PTL

\* An intake shown as imported or beyond has its file recorded, for any number of calls:
\* no stage, retry or stale write leads past the placement without the record
\* (importedStage, metadataStage).
THEOREM ImportedIsPlacedCorrect == Spec => []ImportedIsPlaced
<1>1. Remembers => ImportedIsPlaced
  BY DEF Remembers, RowKnows, ImportedIsPlaced, State, Past
<1> QED BY <1>1, Remembering, PTL
==============================================================================
