------------------------------ MODULE IntakeState ------------------------------
(***************************************************************************)
(* The intake state machine shared by backend and dashboard                *)
(* (packages/shared/src/intake.ts).                                        *)
(***************************************************************************)
EXTENDS Sequences

\* The happy path in lifecycle order, and the three exits.
LINE == <<"queued", "downloading", "completed", "verified", "identified",
          "quality_scored", "ready_to_import", "importing", "imported",
          "metadata_ready", "artwork_ready", "subtitle_ready", "seeding", "archived">>
INTAKE_STATES ==
  {LINE[i] : i \in DOMAIN LINE} \cup {"failed", "quarantined", "cancelled"}

TERMINAL_INTAKE_STATES == {"archived", "failed", "quarantined", "cancelled"}

\* The legal moves; the first of each list is where a stage advances to.  A
\* failed intake may re-enter at any state of the line but its end.
HAPPY_PATH ==
  [queued          |-> <<"completed", "downloading">>,
   downloading     |-> <<"completed">>,
   completed       |-> <<"verified", "quarantined">>,
   verified        |-> <<"identified", "quarantined">>,
   identified      |-> <<"quality_scored">>,
   quality_scored  |-> <<"ready_to_import">>,
   ready_to_import |-> <<"importing">>,
   importing       |-> <<"imported">>,
   imported        |-> <<"metadata_ready", "quarantined">>,
   metadata_ready  |-> <<"artwork_ready">>,
   artwork_ready   |-> <<"subtitle_ready">>,
   subtitle_ready  |-> <<"seeding", "archived">>,
   seeding         |-> <<"archived">>,
   archived        |-> <<>>,
   failed          |-> SubSeq(LINE, 1, 13),
   quarantined     |-> <<"verified", "identified", "failed">>,
   cancelled       |-> <<>>]

CanTransition(from, to) ==
  /\ from # to
  /\ from \notin TERMINAL_INTAKE_STATES \ {"failed", "quarantined"}
  /\ IF to \in {"failed", "cancelled"}
       THEN from \notin TERMINAL_INTAKE_STATES
       ELSE \E i \in DOMAIN HAPPY_PATH[from] : HAPPY_PATH[from][i] = to

\* The state a stage advances to, "none" at the end of the line.
NextState(from) == IF HAPPY_PATH[from] = <<>> THEN "none" ELSE HAPPY_PATH[from][1]
=============================================================================
