-------------------------- MODULE PlatformJobsProofs --------------------------
(***************************************************************************)
(* Proofs about the job engine, for every set of jobs, activations and     *)
(* keys and every bound.                                                   *)
(***************************************************************************)
EXTENDS PlatformJobs, TLAPS

PCs == RunPhases \cup ControlPhases \cup {"idle"}

\* The steps at which an activation must have a job.
NeedsJob == PCs \ {"idle", "findActive", "create"}

----------------------------------------------------------------------------
(* Type correctness.                                                        *)

LEMMA GotoType ==
  ASSUME TypeOK, NEW c \in Calls, NEW p \in PCs, Goto(c, p),
         p \in NeedsJob => call[c].job \in Jobs
  PROVE  /\ call' \in [Calls -> CallState]
         /\ \A d \in Calls : call'[d].pc \notin {"idle", "findActive", "create"}
                               => call'[d].job \in Jobs
<1>1. Idle \in CallState
  BY AttemptAssumption DEF Idle, CallState
<1>2. call[c] \in CallState /\ [call[c] EXCEPT !.pc = p, !.mode = "read"] \in CallState
  BY DEF TypeOK, CallState, PCs
<1>3. call' \in [Calls -> CallState]
  BY <1>1, <1>2 DEF Goto, TypeOK
<1>4. ASSUME NEW d \in Calls, call'[d].pc \notin {"idle", "findActive", "create"}
      PROVE  call'[d].job \in Jobs
  <2>1. CASE d = c /\ p # "idle"
    <3>1. call'[c] = [call[c] EXCEPT !.pc = p, !.mode = "read"]
      BY <2>1 DEF Goto, TypeOK
    <3>2. call'[c].pc = p /\ call'[c].job = call[c].job
      BY <3>1, <1>2 DEF CallState
    <3> QED BY <3>2, <2>1, <1>4 DEF NeedsJob
  <2>2. CASE d = c /\ p = "idle"
    BY <2>2, <1>4 DEF Goto, TypeOK, Idle
  <2>3. CASE d # c
    BY <2>3, <1>4 DEF Goto, TypeOK
  <2> QED BY <2>1, <2>2, <2>3
<1> QED BY <1>3, <1>4

LEMMA TransitionType ==
  ASSUME TypeOK, NEW c \in Calls, NEW p \in NeedsJob, NEW to \in JOB_STATUSES,
         NEW done \in NeedsJob \cup {"idle"}, NEW refused \in NeedsJob \cup {"idle"},
         Transition(c, p, to, done, refused)
  PROVE  TypeOK'
<1>0. UNCHANGED <<running, cancelRequested, pauseRequested, restarts>>
  BY DEF Transition, Accept, Refuse, Write, mem
<1>1. call[c].job \in Jobs
  BY DEF Transition, Accept, Refuse, Write, At, TypeOK, NeedsJob
<1>2. done \in PCs /\ refused \in PCs
  BY DEF NeedsJob, PCs
<1>3. CASE Accept(c, p, to)
  BY <1>3 DEF Accept, TypeOK, CallState, mem
<1>4. CASE Refuse(c, p, to) /\ Goto(c, refused)
  <2>1. row' = row
    BY <1>4 DEF Refuse
  <2> QED BY <1>0, <1>1, <1>2, <1>4, <2>1, GotoType DEF TypeOK
<1>5. CASE Write(c, p, to, done)
  <2>1. row' \in [Jobs -> [status : RowStatus, attempt : 1..AttemptBound,
                           key : Keys \cup {NoKey}, caps : SUBSET Capabilities]]
    BY <1>1, <1>5 DEF Write, TypeOK, RowStatus, CallState
  <2>2. Goto(c, done)
    BY <1>5 DEF Write
  <2> QED BY <1>0, <1>1, <1>2, <2>1, <2>2, GotoType DEF TypeOK
<1> QED BY <1>3, <1>4, <1>5 DEF Transition

LEMMA CaughtType ==
  ASSUME TypeOK, NEW c \in Calls, NEW e \in BOOLEAN, Caught(c, e),
         call[c].pc \in NeedsJob
  PROVE  /\ call' \in [Calls -> CallState]
         /\ \A d \in Calls : call'[d].pc \notin {"idle", "findActive", "create"}
                               => call'[d].job \in Jobs
<1>1. call[c] \in CallState /\ call[c].job \in Jobs
  BY DEF TypeOK, NeedsJob
<1>2. CASE CanRetry(c, e)
  <2>1. call' = [call EXCEPT ![c].pc = "attemptFailed", ![c].attempt = @ + 1]
    BY <1>2 DEF Caught
  <2>2. call[c].attempt + 1 \in 1..AttemptBound
    BY <1>1, <1>2, AttemptAssumption DEF CanRetry, CallState
  <2> QED BY <1>1, <2>1, <2>2 DEF TypeOK, CallState, RunPhases
<1>3. CASE ~CanRetry(c, e)
  <2>1. Goto(c, "markFailed") /\ "markFailed" \in PCs
    BY <1>3 DEF Caught, PCs, RunPhases
  <2> QED BY <1>1, <2>1, GotoType
<1> QED BY <1>2, <1>3

LEMMA BeginType ==
  ASSUME TypeOK, NEW c \in Calls, NEW p \in PCs, NEW j \in Jobs,
         NEW n \in 1..AttemptBound, Begin(c, p, j, n)
  PROVE  /\ call' \in [Calls -> CallState]
         /\ \A d \in Calls : call'[d].pc \notin {"idle", "findActive", "create"}
                               => call'[d].job \in Jobs
BY DEF Begin, TypeOK, CallState, PCs

\* A transition that stays among the steps that have a job.
LEMMA ActionTransitions ==
  /\ "running" \in JOB_STATUSES /\ "failed" \in JOB_STATUSES
  /\ "cancelled" \in JOB_STATUSES /\ "pausing" \in JOB_STATUSES
  /\ "paused" \in JOB_STATUSES /\ "retrying" \in JOB_STATUSES
  /\ "queued" \in JOB_STATUSES /\ "cancelling" \in JOB_STATUSES
  /\ "completed" \in JOB_STATUSES /\ "completed_with_warnings" \in JOB_STATUSES
  /\ RunPhases \subseteq NeedsJob
  /\ {"spawn", "cancelling", "cancelLook", "cancelDirect", "pausing",
      "resumeQueued", "retryRetrying", "retryQueued"} \subseteq NeedsJob
BY DEF JOB_STATUSES, NeedsJob, PCs, RunPhases, ControlPhases

LEMMA RunPhaseMembers ==
  /\ "start" \in RunPhases /\ "body" \in RunPhases /\ "completed" \in RunPhases
  /\ "completed_with_warnings" \in RunPhases /\ "markFailed" \in RunPhases
  /\ "attemptFailed" \in RunPhases /\ "attemptRetrying" \in RunPhases
  /\ "attemptQueued" \in RunPhases /\ "delay" \in RunPhases
  /\ "markCancelled" \in RunPhases /\ "markPausing" \in RunPhases
  /\ "markPaused" \in RunPhases /\ "finally" \in RunPhases
BY DEF RunPhases

LEMMA CallStepType ==
  ASSUME TypeOK, NEW c \in Calls, CallStep(c)
  PROVE  TypeOK'
<1> USE ActionTransitions, RunPhaseMembers
<1> NeedsJob \subseteq PCs /\ "idle" \in PCs /\ "create" \in PCs
  BY DEF NeedsJob, PCs, ControlPhases
<1>1. CASE FindActive(c)
  <2>1. UNCHANGED <<row, running, cancelRequested, pauseRequested, restarts>>
    BY <1>1 DEF FindActive, mem
  <2>2. CASE Goto(c, "create")
    BY <2>1, <2>2, GotoType DEF TypeOK, NeedsJob
  <2>3. CASE \E j \in Jobs : call' = [call EXCEPT ![c].pc = "spawn", ![c].job = j,
                                                  ![c].attempt = row[j].attempt]
    <3>1. PICK j \in Jobs : call' = [call EXCEPT ![c].pc = "spawn", ![c].job = j,
                                                  ![c].attempt = row[j].attempt]
      BY <2>3
    <3>2. row[j].attempt \in 1..AttemptBound /\ call[c] \in CallState
      BY DEF TypeOK
    <3>3. [call[c] EXCEPT !.pc = "spawn", !.job = j, !.attempt = row[j].attempt]
            \in CallState
      BY <3>2 DEF CallState, ControlPhases
    <3>4. call' \in [Calls -> CallState]
      BY <3>1, <3>3 DEF TypeOK
    <3>5. \A d \in Calls : call'[d].pc \notin {"idle", "findActive", "create"}
                                => call'[d].job \in Jobs
      BY <3>1, <3>2 DEF TypeOK, CallState
    <3> QED BY <2>1, <3>4, <3>5 DEF TypeOK
  <2> QED BY <1>1, <2>2, <2>3 DEF FindActive
<1>2. CASE Create(c)
  <2>1. UNCHANGED <<running, cancelRequested, pauseRequested, restarts>>
    BY <1>2 DEF Create, mem
  <2>2. CASE Goto(c, "idle") /\ UNCHANGED row
    BY <2>1, <2>2, GotoType DEF TypeOK, NeedsJob
  <2>3. CASE \E j \in Jobs, caps \in Types :
               /\ row' = [row EXCEPT ![j] = [status |-> "queued", attempt |-> 1,
                                             key |-> call[c].key, caps |-> caps]]
               /\ call' = [call EXCEPT ![c].pc = "spawn", ![c].job = j]
    <3>1. PICK j \in Jobs, caps \in Types :
               /\ row' = [row EXCEPT ![j] = [status |-> "queued", attempt |-> 1,
                                             key |-> call[c].key, caps |-> caps]]
               /\ call' = [call EXCEPT ![c].pc = "spawn", ![c].job = j]
      BY <2>3
    <3>2. call[c].key \in Keys \cup {NoKey} /\ 1 \in 1..AttemptBound
      BY AttemptAssumption DEF TypeOK, CallState
    <3>3. row' \in [Jobs -> [status : RowStatus, attempt : 1..AttemptBound,
                             key : Keys \cup {NoKey}, caps : SUBSET Capabilities]]
      BY <3>1, <3>2, TypesAssumption DEF TypeOK, RowStatus
    <3>4. /\ call' \in [Calls -> CallState]
          /\ \A d \in Calls : call'[d].pc \notin {"idle", "findActive", "create"}
                                => call'[d].job \in Jobs
      <4>1. call[c] \in CallState
        BY DEF TypeOK
      <4>2. [call[c] EXCEPT !.pc = "spawn", !.job = j] \in CallState
        BY <4>1 DEF CallState, ControlPhases
      <4> QED BY <3>1, <4>1, <4>2 DEF TypeOK, CallState
    <3> QED BY <2>1, <3>3, <3>4 DEF TypeOK
  <2> QED BY <1>2, <2>2, <2>3 DEF Create
<1>3. CASE Spawn(c)
  <2>1. call[c].job \in Jobs
    BY <1>3 DEF Spawn, At, TypeOK
  <2> QED BY <1>3, <2>1, GotoType DEF Spawn, TypeOK
<1>4. CASE StartAttempt(c)
  BY <1>4, TransitionType DEF StartAttempt
<1>5. CASE BodyReturns(c) \/ BodyStops(c) \/ AfterDelay(c)
  <2>1. PICK p \in RunPhases : Goto(c, p)
    BY <1>5 DEF BodyReturns, BodyStops, AfterDelay
  <2>2. UNCHANGED <<row, running, cancelRequested, pauseRequested, restarts>>
    BY <1>5 DEF BodyReturns, BodyStops, AfterDelay, mem
  <2>3. call[c].job \in Jobs
    BY <1>5 DEF BodyReturns, BodyStops, AfterDelay, At, TypeOK
  <2> QED BY <2>1, <2>2, <2>3, GotoType DEF TypeOK
<1>6. CASE BodyThrows(c)
  <2>1. call[c].pc \in NeedsJob
    BY <1>6 DEF BodyThrows, At
  <2>2. UNCHANGED <<row, running, cancelRequested, pauseRequested, restarts>>
    BY <1>6 DEF BodyThrows, mem
  <2>3. PICK e \in BOOLEAN : Caught(c, e)
    BY <1>6 DEF BodyThrows
  <2> QED BY <2>1, <2>2, <2>3, CaughtType DEF TypeOK
<1>7. CASE FinishSuccess(c)
  <2>1. PICK to \in {"completed", "completed_with_warnings"} :
          \/ Accept(c, to, to)
          \/ Refuse(c, to, to) /\ Caught(c, TRUE)
          \/ Write(c, to, to, "finally")
    BY <1>7 DEF FinishSuccess
  <2>2. CASE Accept(c, to, to) \/ Write(c, to, to, "finally")
    <3>1. Transition(c, to, to, "finally", "finally")
      BY <2>2 DEF Transition
    <3> QED BY <3>1, TransitionType
  <2>3. CASE Refuse(c, to, to) /\ Caught(c, TRUE)
    <3>1. call[c].pc \in NeedsJob
      BY <2>3 DEF Refuse, At
    <3>2. UNCHANGED <<row, running, cancelRequested, pauseRequested, restarts>>
      BY <2>3 DEF Refuse, mem
    <3> QED BY <2>3, <3>1, <3>2, CaughtType DEF TypeOK
  <2> QED BY <2>1, <2>2, <2>3
<1>8. CASE MarkFailed(c)
  BY <1>8, TransitionType DEF MarkFailed
<1>9. CASE MarkCancelled(c)
  BY <1>9, TransitionType DEF MarkCancelled
<1>10. CASE MarkPaused(c)
  BY <1>10, TransitionType DEF MarkPaused
<1>11. CASE ScheduleRetry(c)
  BY <1>11, TransitionType DEF ScheduleRetry
<1>12. CASE Finally(c)
  BY <1>12, GotoType DEF Finally, TypeOK, NeedsJob
<1>13. CASE MarkCancelling(c)
  BY <1>13, TransitionType DEF MarkCancelling
<1>14. CASE CancelLook(c)
  <2>1. PICK p \in {"cancelDirect", "idle"} : Goto(c, p)
    BY <1>14 DEF CancelLook
  <2>2. call[c].job \in Jobs
    BY <1>14 DEF CancelLook, At, TypeOK
  <2>3. UNCHANGED <<row, running, cancelRequested, pauseRequested, restarts>>
    BY <1>14 DEF CancelLook, mem
  <2> QED BY <2>1, <2>2, <2>3, GotoType DEF TypeOK
<1>15. CASE CancelDirect(c)
  BY <1>15, TransitionType DEF CancelDirect
<1>16. CASE MarkPausing(c)
  BY <1>16, TransitionType DEF MarkPausing
<1>17. CASE ResumeQueued(c)
  BY <1>17, TransitionType DEF ResumeQueued
<1>18. CASE RetryQueued(c)
  BY <1>18, TransitionType DEF RetryQueued
<1> QED BY <1>1, <1>2, <1>3, <1>4, <1>5, <1>6, <1>7, <1>8, <1>9, <1>10, <1>11,
           <1>12, <1>13, <1>14, <1>15, <1>16, <1>17, <1>18 DEF CallStep

LEMMA NewCallType ==
  ASSUME TypeOK, NEW c \in Calls, NewCall(c)
  PROVE  TypeOK'
<1> USE ActionTransitions
<1> NeedsJob \subseteq PCs
  BY DEF NeedsJob
<1> 1 \in 1..AttemptBound
  BY AttemptAssumption
<1>1. CASE \E k \in Keys \cup {NoKey} : RunDetached(c, k)
  <2>1. PICK k \in Keys \cup {NoKey} : RunDetached(c, k)
    BY <1>1
  <2>2. PICK p \in {"create", "findActive"} :
          call' = [call EXCEPT ![c].pc = p, ![c].key = k]
    BY <2>1 DEF RunDetached
  <2>3. call[c] \in CallState
    BY DEF TypeOK
  <2>4. [call[c] EXCEPT !.pc = p, !.key = k] \in CallState
    BY <2>3 DEF CallState, ControlPhases
  <2>5. /\ call' \in [Calls -> CallState]
        /\ \A d \in Calls : call'[d].pc \notin {"idle", "findActive", "create"}
                              => call'[d].job \in Jobs
    BY <2>2, <2>3, <2>4 DEF TypeOK, CallState
  <2> QED BY <2>1, <2>5 DEF RunDetached, TypeOK, mem
<1>2. CASE \E j \in Jobs : RequestCancel(c, j)
  BY <1>2, BeginType DEF RequestCancel, TypeOK
<1>3. CASE \E j \in Jobs : RequestPause(c, j)
  BY <1>3, BeginType DEF RequestPause, TypeOK
<1>4. CASE \E j \in Jobs : Resume(c, j)
  <2>1. PICK j \in Jobs : Resume(c, j)
    BY <1>4
  <2>2. row[j].attempt \in 1..AttemptBound
    BY DEF TypeOK
  <2> QED BY <2>1, <2>2, BeginType DEF Resume, TypeOK, mem
<1>5. CASE \E j \in Jobs : Retry(c, j)
  <2>1. PICK j \in Jobs : Retry(c, j)
    BY <1>5
  <2>2. row[j].attempt + 1 \in 1..AttemptBound
    BY <2>1, AttemptAssumption DEF TypeOK, Retry
  <2> QED BY <2>1, <2>2, BeginType DEF Retry, TypeOK, mem
<1> QED BY <1>1, <1>2, <1>3, <1>4, <1>5 DEF NewCall

\* Every reachable state is well typed: attempts never exceed their bound, and an
\* activation past its look-ups always has a job (platform-job.service.ts).
THEOREM TypeCorrect == Spec => []TypeOK
<1>1. Init => TypeOK
  BY AttemptAssumption, RestartAssumption
     DEF Init, TypeOK, RowStatus, CallState, Idle
<1>2. TypeOK /\ [Next]_vars => TypeOK'
  <2> SUFFICES ASSUME TypeOK, [Next]_vars PROVE TypeOK'
    OBVIOUS
  <2>1. CASE \E c \in Calls : CallStep(c) \/ NewCall(c)
    BY <2>1, CallStepType, NewCallType
  <2>2. CASE \E j \in Jobs : Prune(j)
    BY <2>2 DEF Prune, TypeOK, RowStatus, mem
  <2>3. CASE Restart
    <3>1. Idle \in CallState /\ Idle.pc = "idle"
      BY AttemptAssumption DEF Idle, CallState
    <3>2. row' \in [Jobs -> [status : RowStatus, attempt : 1..AttemptBound,
                             key : Keys \cup {NoKey}, caps : SUBSET Capabilities]]
      BY <2>3 DEF Restart, TypeOK, RowStatus, JOB_STATUSES
    <3>3. restarts' \in 0..MaxRestarts
      BY <2>3, RestartAssumption DEF Restart, TypeOK
    <3> QED BY <2>3, <3>1, <3>2, <3>3 DEF Restart, TypeOK
  <2>4. CASE UNCHANGED vars
    BY <2>4 DEF vars, TypeOK
  <2> QED BY <2>1, <2>2, <2>3, <2>4 DEF Next
<1> QED BY <1>1, <1>2, PTL DEF Spec

----------------------------------------------------------------------------
(* The in-memory sets.                                                      *)

\* Activation c may move within its run, or was in none: no job loses its runner.
LEMMA RunnersKept ==
  ASSUME TypeOK, NEW c \in Calls,
         \A d \in Calls \ {c} : call'[d] = call[d],
         call[c].pc \in RunPhases =>
            call'[c].pc \in RunPhases /\ call'[c].job = call[c].job
  PROVE  \A j \in Jobs : RunnersOf(j) # {} => RunnersOf(j)' # {}
BY DEF RunnersOf

LEMMA GotoEffect ==
  ASSUME TypeOK, NEW c \in Calls, NEW p \in PCs, Goto(c, p)
  PROVE  /\ \A d \in Calls \ {c} : call'[d] = call[d]
         /\ call'[c].pc = p
         /\ p # "idle" => call'[c].job = call[c].job
<1>1. call[c] \in CallState
  BY DEF TypeOK
<1>2. CASE p = "idle"
  BY <1>2 DEF Goto, TypeOK, Idle
<1>3. CASE p # "idle"
  <2>1. call'[c] = [call[c] EXCEPT !.pc = p, !.mode = "read"]
    BY <1>3 DEF Goto, TypeOK
  <2>2. \A d \in Calls \ {c} : call'[d] = call[d]
    BY DEF Goto, TypeOK
  <2> QED BY <1>1, <1>3, <2>1, <2>2 DEF CallState
<1> QED BY <1>2, <1>3

LEMMA CaughtEffect ==
  ASSUME TypeOK, NEW c \in Calls, NEW e \in BOOLEAN, Caught(c, e)
  PROVE  /\ \A d \in Calls \ {c} : call'[d] = call[d]
         /\ call'[c].pc \in {"attemptFailed", "markFailed"}
         /\ call'[c].job = call[c].job
<1>1. call[c] \in CallState
  BY DEF TypeOK
<1>2. CASE CanRetry(c, e)
  <2>1. call' = [call EXCEPT ![c].pc = "attemptFailed", ![c].attempt = @ + 1]
    BY <1>2 DEF Caught
  <2> QED BY <1>1, <2>1 DEF TypeOK, CallState
<1>3. CASE ~CanRetry(c, e)
  BY <1>3, GotoEffect DEF Caught, PCs, RunPhases
<1> QED BY <1>2, <1>3

\* A transition of a run leads on within the run, one of a control call is in none.
LEMMA TransitionEffect ==
  ASSUME TypeOK, NEW c \in Calls, NEW p \in PCs, NEW to, NEW done \in PCs,
         NEW refused \in PCs, Transition(c, p, to, done, refused),
         p \in RunPhases => done \in RunPhases /\ refused \in RunPhases
  PROVE  /\ \A d \in Calls \ {c} : call'[d] = call[d]
         /\ call[c].pc \in RunPhases =>
               call'[c].pc \in RunPhases /\ call'[c].job = call[c].job
         /\ UNCHANGED <<running, cancelRequested, pauseRequested>>
<1>0. call[c] \in CallState /\ "idle" \notin RunPhases
  BY DEF TypeOK, RunPhases
<1>1. CASE Accept(c, p, to)
  BY <1>0, <1>1 DEF Accept, At, TypeOK, CallState, mem
<1>2. CASE Refuse(c, p, to) /\ Goto(c, refused)
  BY <1>0, <1>2, GotoEffect DEF Refuse, At, mem
<1>3. CASE Write(c, p, to, done)
  BY <1>0, <1>3, GotoEffect DEF Write, At, mem
<1> QED BY <1>1, <1>2, <1>3 DEF Transition

LEMMA CallStepFlags ==
  ASSUME TypeOK, FlagsBelongToARun, NEW c \in Calls, CallStep(c)
  PROVE  FlagsBelongToARun'
<1> USE RunPhaseMembers
<1> RunPhases \subseteq PCs /\ ControlPhases \subseteq PCs /\ "idle" \in PCs
    /\ "idle" \notin RunPhases
  BY DEF PCs, RunPhases
<1>a. ASSUME \A d \in Calls \ {c} : call'[d] = call[d],
             call[c].pc \in RunPhases =>
               call'[c].pc \in RunPhases /\ call'[c].job = call[c].job,
             UNCHANGED <<running, cancelRequested, pauseRequested>>
      PROVE  FlagsBelongToARun'
  BY <1>a, RunnersKept DEF FlagsBelongToARun, TypeOK
<1>1. CASE FindActive(c)
  BY <1>1, <1>a, GotoEffect
     DEF FindActive, At, TypeOK, RunPhases, ControlPhases, mem
<1>2. CASE Create(c)
  BY <1>2, <1>a, GotoEffect DEF Create, At, TypeOK, RunPhases, mem
<1>3. CASE Spawn(c)
  <2>1. /\ \A d \in Calls \ {c} : call'[d] = call[d]
        /\ call'[c].pc = "start" /\ call'[c].job = call[c].job
    BY <1>3, GotoEffect DEF Spawn
  <2>2. \A j \in Jobs : RunnersOf(j) # {} => RunnersOf(j)' # {}
    BY <2>1, RunnersKept
  <2>3. \A j \in Jobs : j = call[c].job => RunnersOf(j)' # {}
    BY <2>1 DEF RunnersOf
  <2>4. running' = running \cup {call[c].job}
        /\ UNCHANGED <<cancelRequested, pauseRequested>>
    BY <1>3 DEF Spawn
  <2>5. call[c].job \in Jobs
    BY <1>3 DEF Spawn, At, TypeOK
  <2> QED BY <2>2, <2>3, <2>4, <2>5 DEF FlagsBelongToARun, TypeOK
<1>4. CASE StartAttempt(c)
  BY <1>4, <1>a, TransitionEffect DEF StartAttempt
<1>5. CASE BodyReturns(c) \/ BodyStops(c) \/ AfterDelay(c)
  <2>1. PICK p \in RunPhases : Goto(c, p)
    BY <1>5 DEF BodyReturns, BodyStops, AfterDelay
  <2>2. UNCHANGED <<running, cancelRequested, pauseRequested>>
    BY <1>5 DEF BodyReturns, BodyStops, AfterDelay, mem
  <2> QED BY <2>1, <2>2, <1>a, GotoEffect
<1>6. CASE BodyThrows(c)
  BY <1>6, <1>a, CaughtEffect DEF BodyThrows, mem
<1>7. CASE FinishSuccess(c)
  <2>1. PICK to \in {"completed", "completed_with_warnings"} :
          \/ Accept(c, to, to)
          \/ Refuse(c, to, to) /\ Caught(c, TRUE)
          \/ Write(c, to, to, "finally")
    BY <1>7 DEF FinishSuccess
  <2>2. CASE Accept(c, to, to) \/ Write(c, to, to, "finally")
    <3>1. Transition(c, to, to, "finally", "finally")
      BY <2>2 DEF Transition
    <3> QED BY <3>1, <1>a, TransitionEffect
  <2>3. CASE Refuse(c, to, to) /\ Caught(c, TRUE)
    BY <2>3, <1>a, CaughtEffect DEF Refuse, mem
  <2> QED BY <2>1, <2>2, <2>3
<1>8. CASE MarkFailed(c) \/ MarkCancelled(c)
  BY <1>8, <1>a, TransitionEffect DEF MarkFailed, MarkCancelled
<1>9. CASE MarkPaused(c)
  BY <1>9, <1>a, TransitionEffect DEF MarkPaused
<1>10. CASE ScheduleRetry(c)
  BY <1>10, <1>a, TransitionEffect DEF ScheduleRetry
<1>11. CASE Finally(c)
  <2>1. \A d \in Calls \ {c} : call'[d] = call[d]
    BY <1>11, GotoEffect DEF Finally
  <2>2. ASSUME NEW j \in running, j # call[c].job
        PROVE  RunnersOf(j)' # {}
    BY <2>1, <2>2 DEF FlagsBelongToARun, RunnersOf
  <2> QED BY <1>11, <2>2 DEF Finally, FlagsBelongToARun
<1>12. CASE MarkCancelling(c) \/ CancelDirect(c) \/ MarkPausing(c) \/ ResumeQueued(c)
  BY <1>12, <1>a, TransitionEffect
     DEF MarkCancelling, CancelDirect, MarkPausing, ResumeQueued, RunPhases,
         ControlPhases
<1>13. CASE CancelLook(c)
  <2>1. PICK p \in PCs : Goto(c, p)
    BY <1>13 DEF CancelLook, ControlPhases
  <2>2. call[c].pc \notin RunPhases /\ UNCHANGED <<running, cancelRequested, pauseRequested>>
    BY <1>13 DEF CancelLook, At, RunPhases, mem
  <2> QED BY <2>1, <2>2, <1>a, GotoEffect
<1>14. CASE RetryQueued(c)
  BY <1>14, <1>a, TransitionEffect DEF RetryQueued, RunPhases, ControlPhases
<1> QED BY <1>1, <1>2, <1>3, <1>4, <1>5, <1>6, <1>7, <1>8, <1>9, <1>10, <1>11,
           <1>12, <1>13, <1>14 DEF CallStep

LEMMA NewCallFlags ==
  ASSUME TypeOK, FlagsBelongToARun, NEW c \in Calls, NewCall(c)
  PROVE  FlagsBelongToARun'
<1>1. At(c, "idle") /\ \A d \in Calls \ {c} : call'[d] = call[d]
  BY DEF NewCall, RunDetached, RequestCancel, RequestPause, Resume, Retry, Begin,
         TypeOK
<1>2. \A j \in Jobs : RunnersOf(j) # {} => RunnersOf(j)' # {}
  BY <1>1, RunnersKept DEF At, RunPhases
<1>3. /\ running' = running
      /\ cancelRequested' \cup pauseRequested' \subseteq
           cancelRequested \cup pauseRequested \cup running
  BY DEF NewCall, RunDetached, RequestCancel, RequestPause, Resume, Retry, mem
<1> QED BY <1>2, <1>3 DEF FlagsBelongToARun, TypeOK

\* The finally block of runHandler is enough: whatever calls overlap, a job stays
\* in `running' only while some runHandler is executing it, and a cancel or pause
\* flag never survives into a later run.
THEOREM FlagsCorrect == Spec => []FlagsBelongToARun
<1>1. Init => FlagsBelongToARun
  BY DEF Init, FlagsBelongToARun
<1>2. TypeOK /\ FlagsBelongToARun /\ [Next]_vars => FlagsBelongToARun'
  <2> SUFFICES ASSUME TypeOK, FlagsBelongToARun, [Next]_vars
               PROVE  FlagsBelongToARun'
    OBVIOUS
  <2>1. CASE \E c \in Calls : CallStep(c) \/ NewCall(c)
    BY <2>1, CallStepFlags, NewCallFlags
  <2>2. CASE \E j \in Jobs : Prune(j)
    BY <2>2 DEF Prune, FlagsBelongToARun, RunnersOf, mem
  <2>3. CASE Restart
    BY <2>3 DEF Restart, FlagsBelongToARun
  <2>4. CASE UNCHANGED vars
    BY <2>4 DEF vars, FlagsBelongToARun, RunnersOf
  <2> QED BY <2>1, <2>2, <2>3, <2>4 DEF Next
<1> QED BY <1>1, <1>2, TypeCorrect, PTL DEF Spec

----------------------------------------------------------------------------
(* A running row has a runner.                                              *)

\* The steps of a run at which its row can still say `running': every way out of
\* one of them either writes another status or was refused because the row
\* already had one.
OwnPhases ==
  {"body", "completed", "completed_with_warnings", "markFailed",
   "attemptFailed", "markPausing"}

OwnersOf(j) == {c \in Calls : call[c].job = j /\ call[c].pc \in OwnPhases}

\* The inductive invariant.
RunningOwned ==
  \A j \in Jobs :
    /\ Status(j) = "absent" \/ ~Can(j, "cancellable") => j \notin cancelRequested
    /\ Status(j) = "running" /\ ~Can(j, "cancellable") => OwnersOf(j) # {}

\* A step that writes no status keeps it if c stays an owner, or was none, or
\* its job is not running or may be cancelled.
LEMMA OwnersKept ==
  ASSUME TypeOK, RunningOwned, NEW c \in Calls,
         \A d \in Calls \ {c} : call'[d] = call[d],
         \/ call[c].pc \notin OwnPhases
         \/ call'[c].pc \in OwnPhases /\ call'[c].job = call[c].job
         \/ /\ call[c].job \in Jobs
            /\ Status(call[c].job) # "running" \/ Can(call[c].job, "cancellable"),
         row' = row, cancelRequested' \subseteq cancelRequested
  PROVE  RunningOwned'
BY DEF RunningOwned, OwnersOf, Status, Can

\* A transition to another status: c is an owner at p only if the matrix allows
\* running -> to, so that a refusal means the row was not running.
LEMMA OwnTransition ==
  ASSUME TypeOK, RunningOwned, NEW c \in Calls, NEW p \in NeedsJob,
         NEW to \in JOB_STATUSES \ {"running"},
         NEW done \in PCs, NEW refused \in PCs, Transition(c, p, to, done, refused),
         p \in OwnPhases => CanTransition("running", to)
  PROVE  RunningOwned'
<1>0. call[c] \in CallState /\ call[c].job \in Jobs
      /\ cancelRequested' = cancelRequested
  BY DEF TypeOK, Transition, Accept, Refuse, Write, At, NeedsJob, mem
<1>1. CASE Accept(c, p, to)
  <2>1. /\ \A d \in Calls \ {c} : call'[d] = call[d]
        /\ call'[c].pc = call[c].pc /\ call'[c].job = call[c].job
        /\ row' = row
    BY <1>0, <1>1 DEF Accept, TypeOK, CallState
  <2> QED BY <1>0, <2>1, OwnersKept
<1>2. CASE Refuse(c, p, to) /\ Goto(c, refused)
  <2>1. p \in OwnPhases => Status(call[c].job) # "running"
    BY <1>2 DEF Refuse
  <2> QED BY <1>0, <1>2, <2>1, GotoEffect, OwnersKept DEF Refuse, At
<1>3. CASE Write(c, p, to, done)
  <2>1. \A d \in Calls \ {c} : call'[d] = call[d]
    BY <1>3, GotoEffect DEF Write
  <2>2. row'[call[c].job].status # "running"
    BY <1>0, <1>3 DEF Write, TypeOK
  <2>3. /\ \A j \in Jobs \ {call[c].job} : row'[j] = row[j]
        /\ row'[call[c].job].caps = row[call[c].job].caps
        /\ row'[call[c].job].status # "absent"
    BY <1>0, <1>3 DEF Write, TypeOK, JOB_STATUSES
  <2>4. ASSUME NEW j \in Jobs
        PROVE  /\ Status(j)' = "absent" \/ ~Can(j, "cancellable")'
                    => j \notin cancelRequested'
               /\ Status(j)' = "running" /\ ~Can(j, "cancellable")' => OwnersOf(j)' # {}
    <3>1. CASE j = call[c].job
      BY <3>1, <1>0, <2>2, <2>3 DEF RunningOwned, Status, Can
    <3>2. CASE j # call[c].job
      BY <3>2, <1>0, <2>1, <2>3 DEF RunningOwned, OwnersOf, Status, Can
    <3> QED BY <3>1, <3>2
  <2> QED BY <2>4 DEF RunningOwned
<1> QED BY <1>1, <1>2, <1>3 DEF Transition

LEMMA CallStepOwned ==
  ASSUME TypeOK, RunningOwned, NEW c \in Calls, CallStep(c)
  PROVE  RunningOwned'
<1> USE ActionTransitions, RunPhaseMembers
<1> NeedsJob \subseteq PCs /\ RunPhases \subseteq PCs /\ "idle" \in PCs /\ "create" \in PCs
  BY DEF NeedsJob, PCs, ControlPhases
<1>a. /\ "start" \notin OwnPhases /\ "body" \in OwnPhases
      /\ "completed" \in OwnPhases /\ "completed_with_warnings" \in OwnPhases
      /\ "markFailed" \in OwnPhases /\ "attemptFailed" \in OwnPhases
      /\ "markPausing" \in OwnPhases /\ "attemptRetrying" \notin OwnPhases
      /\ "attemptQueued" \notin OwnPhases /\ "markPaused" \notin OwnPhases
      /\ "markCancelled" \notin OwnPhases /\ "delay" \notin OwnPhases
      /\ "finally" \notin OwnPhases /\ OwnPhases \cap ControlPhases = {}
  BY DEF OwnPhases, ControlPhases
<1>b. /\ CanTransition("running", "completed") /\ CanTransition("running", "failed")
      /\ CanTransition("running", "completed_with_warnings")
      /\ CanTransition("running", "pausing")
  BY DEF CanTransition, JOB_TRANSITIONS
<1>1. CASE FindActive(c)
  <2>1. /\ \A d \in Calls \ {c} : call'[d] = call[d]
        /\ row' = row /\ cancelRequested' = cancelRequested
    BY <1>1, GotoEffect DEF FindActive, TypeOK, mem
  <2>2. call[c].pc \notin OwnPhases
    BY <1>1 DEF FindActive, At, OwnPhases
  <2> QED BY <2>1, <2>2, OwnersKept
<1>2. CASE Create(c)
  <2>1. /\ \A d \in Calls \ {c} : call'[d] = call[d]
        /\ cancelRequested' = cancelRequested
    BY <1>2, GotoEffect DEF Create, TypeOK, mem
  <2>2. call[c].pc \notin OwnPhases
    BY <1>2 DEF Create, At, OwnPhases
  <2>3. \A j \in Jobs : \/ row'[j] = row[j]
                        \/ row[j].status = "absent" /\ row'[j].status = "queued"
    BY <1>2 DEF Create, TypeOK, Status
  <2> QED BY <2>1, <2>2, <2>3 DEF RunningOwned, OwnersOf, Status, Can
<1>3. CASE Spawn(c)
  <2>1. /\ \A d \in Calls \ {c} : call'[d] = call[d]
        /\ row' = row /\ cancelRequested' = cancelRequested
    BY <1>3, GotoEffect DEF Spawn
  <2>2. call[c].pc \notin OwnPhases
    BY <1>3 DEF Spawn, At, OwnPhases
  <2> QED BY <2>1, <2>2, OwnersKept
<1>4. CASE StartAttempt(c)
  <2>0. call[c] \in CallState /\ call[c].pc = "start" /\ call[c].job \in Jobs
        /\ cancelRequested' = cancelRequested
    BY <1>4 DEF StartAttempt, Transition, Accept, Refuse, Write, At, TypeOK, mem
  <2>1. CASE Accept(c, "start", "running")
    BY <2>0, <2>1, <1>a, OwnersKept DEF Accept, TypeOK
  <2>2. CASE Refuse(c, "start", "running") /\ Goto(c, "finally")
    BY <2>0, <2>2, <1>a, GotoEffect, OwnersKept DEF Refuse
  <2>3. CASE Write(c, "start", "running", "body")
    <3>1. /\ \A d \in Calls \ {c} : call'[d] = call[d]
          /\ call'[c].pc = "body" /\ call'[c].job = call[c].job
      BY <2>3, GotoEffect DEF Write
    <3>2. /\ \A j \in Jobs \ {call[c].job} : row'[j] = row[j]
          /\ row'[call[c].job].caps = row[call[c].job].caps
          /\ row'[call[c].job].status = "running"
      BY <2>0, <2>3 DEF Write, TypeOK
    <3>3. ASSUME NEW j \in Jobs
          PROVE  /\ Status(j)' = "absent" \/ ~Can(j, "cancellable")'
                      => j \notin cancelRequested'
                 /\ Status(j)' = "running" /\ ~Can(j, "cancellable")' => OwnersOf(j)' # {}
      <4>1. CASE j = call[c].job
        BY <4>1, <3>1, <3>2, <2>0, <1>a DEF RunningOwned, OwnersOf, Status, Can
      <4>2. CASE j # call[c].job
        BY <4>2, <3>1, <3>2, <2>0, <1>a DEF RunningOwned, OwnersOf, Status, Can
      <4> QED BY <4>1, <4>2
    <3> QED BY <3>3 DEF RunningOwned
  <2> QED BY <1>4, <2>1, <2>2, <2>3 DEF StartAttempt, Transition
<1>5. CASE BodyReturns(c)
  BY <1>5, <1>a, GotoEffect, OwnersKept DEF BodyReturns, mem
<1>6. CASE BodyThrows(c)
  BY <1>6, <1>a, CaughtEffect, OwnersKept DEF BodyThrows, mem
<1>7. CASE BodyStops(c)
  <2>0. /\ row' = row /\ cancelRequested' = cancelRequested
        /\ call[c].job \in Jobs /\ call[c].pc = "body"
    BY <1>7 DEF BodyStops, At, TypeOK, mem
  <2>1. CASE call[c].job \in cancelRequested /\ Goto(c, "markCancelled")
    <3>1. Can(call[c].job, "cancellable")
      BY <2>0, <2>1 DEF RunningOwned
    <3> QED BY <2>0, <2>1, <3>1, GotoEffect, OwnersKept
  <2>2. CASE Goto(c, "markPausing")
    BY <2>0, <2>2, <1>a, GotoEffect, OwnersKept
  <2> QED BY <1>7, <2>1, <2>2 DEF BodyStops
<1>8. CASE FinishSuccess(c)
  <2>1. PICK to \in {"completed", "completed_with_warnings"} :
          \/ Accept(c, to, to)
          \/ Refuse(c, to, to) /\ Caught(c, TRUE)
          \/ Write(c, to, to, "finally")
    BY <1>8 DEF FinishSuccess
  <2>2. CASE Accept(c, to, to) \/ Write(c, to, to, "finally")
    <3>1. Transition(c, to, to, "finally", "finally")
      BY <2>2 DEF Transition
    <3> QED BY <3>1, <1>b, OwnTransition
  <2>3. CASE Refuse(c, to, to) /\ Caught(c, TRUE)
    BY <2>3, <1>a, CaughtEffect, OwnersKept DEF Refuse, mem
  <2> QED BY <2>1, <2>2, <2>3
<1>9. CASE MarkFailed(c)
  BY <1>9, <1>b, OwnTransition DEF MarkFailed
<1>10. CASE MarkCancelled(c)
  BY <1>10, <1>a, OwnTransition DEF MarkCancelled
<1>11. CASE MarkPaused(c)
  BY <1>11, <1>a, <1>b, OwnTransition DEF MarkPaused
<1>12. CASE ScheduleRetry(c)
  BY <1>12, <1>a, <1>b, OwnTransition DEF ScheduleRetry
<1>13. CASE AfterDelay(c)
  <2>1. PICK p \in RunPhases : Goto(c, p)
    BY <1>13 DEF AfterDelay
  <2> QED BY <1>13, <2>1, <1>a, GotoEffect, OwnersKept DEF AfterDelay, At, mem
<1>14. CASE Finally(c)
  <2>1. cancelRequested' \subseteq cancelRequested /\ row' = row
    BY <1>14 DEF Finally
  <2> QED BY <1>14, <2>1, <1>a, GotoEffect, OwnersKept DEF Finally, At
<1>15. CASE MarkCancelling(c)
  BY <1>15, <1>a, OwnTransition DEF MarkCancelling, ControlPhases
<1>16. CASE CancelLook(c)
  <2>1. PICK p \in PCs : Goto(c, p)
    BY <1>16 DEF CancelLook
  <2>2. call[c].pc \notin OwnPhases
    BY <1>16, <1>a DEF CancelLook, At, ControlPhases
  <2> QED BY <1>16, <2>1, <2>2, GotoEffect, OwnersKept DEF CancelLook, mem
<1>17. CASE CancelDirect(c)
  BY <1>17, <1>a, OwnTransition DEF CancelDirect, ControlPhases
<1>18. CASE MarkPausing(c)
  BY <1>18, <1>a, OwnTransition DEF MarkPausing, ControlPhases
<1>19. CASE ResumeQueued(c)
  BY <1>19, <1>a, OwnTransition DEF ResumeQueued, ControlPhases
<1>20. CASE RetryQueued(c)
  BY <1>20, <1>a, OwnTransition DEF RetryQueued, ControlPhases
<1> QED BY <1>1, <1>2, <1>3, <1>4, <1>5, <1>6, <1>7, <1>8, <1>9, <1>10, <1>11,
           <1>12, <1>13, <1>14, <1>15, <1>16, <1>17, <1>18, <1>19, <1>20
        DEF CallStep

\* For a job type that is not cancellable, no interleaving of duplicate runs,
\* pauses, resumes, automatic and manual retries and restarts leaves a row
\* `running' without a runHandler that executes it, whatever other types there are.
THEOREM RunningHasRunnerCorrect == Spec => []RunningHasRunner
<1>1. Init => RunningOwned
  BY DEF Init, RunningOwned, Status
<1>2. TypeOK /\ RunningOwned /\ [Next]_vars => RunningOwned'
  <2> SUFFICES ASSUME TypeOK, RunningOwned, [Next]_vars PROVE RunningOwned'
    OBVIOUS
  <2>1. CASE \E c \in Calls : CallStep(c)
    BY <2>1, CallStepOwned
  <2>2. ASSUME NEW c \in Calls, NewCall(c) PROVE RunningOwned'
    <3>1. /\ At(c, "idle") /\ \A d \in Calls \ {c} : call'[d] = call[d]
          /\ row' = row
      BY <2>2 DEF NewCall, RunDetached, RequestCancel, RequestPause, Resume, Retry,
                  Begin, TypeOK
    <3>2. \A j \in cancelRequested' \ cancelRequested :
            Can(j, "cancellable") /\ Status(j) \in JOB_STATUSES
      BY <2>2 DEF NewCall, RunDetached, RequestCancel, RequestPause, Resume, Retry, mem
    <3>3. "absent" \notin JOB_STATUSES
      BY DEF JOB_STATUSES
    <3> QED BY <3>1, <3>2, <3>3 DEF At, OwnPhases, RunningOwned, OwnersOf, Status, Can
  <2>3. CASE \E j \in Jobs : Prune(j)
    <3>1. /\ call' = call /\ cancelRequested' = cancelRequested
          /\ \A j \in Jobs : /\ row'[j].caps = row[j].caps
                             /\ row'[j].status \in {row[j].status, "pruned"}
      BY <2>3 DEF Prune, TypeOK, mem
    <3> QED BY <3>1 DEF RunningOwned, OwnersOf, Status, Can
  <2>4. CASE Restart
    <3>1. \A j \in Jobs : row'[j].status # "running"
      BY <2>4 DEF Restart, TypeOK
    <3> QED BY <2>4, <3>1 DEF Restart, RunningOwned, Status
  <2>5. CASE UNCHANGED vars
    BY <2>5 DEF vars, RunningOwned, OwnersOf, Status, Can
  <2> QED BY <2>1, <2>2, <2>3, <2>4, <2>5 DEF Next
<1>3. RunningOwned => RunningHasRunner
  BY DEF RunningOwned, RunningHasRunner, OwnersOf, RunnersOf, OwnPhases, RunPhases
<1> QED BY <1>1, <1>2, <1>3, TypeCorrect, PTL DEF Spec
=============================================================================
