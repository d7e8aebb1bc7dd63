----------------------------- MODULE PlatformJobs -----------------------------
(***************************************************************************)
(* The Unified Jobs Center execution engine                                *)
(* (jobs/platform/platform-job.service.ts).                                *)
(*                                                                         *)
(* PlatformJob rows live in the database; `running', `cancelRequested' and *)
(* `pauseRequested' are in-memory sets of the one backend process.  Every  *)
(* producer or control call is an asynchronous activation that yields at   *)
(* each database call, so `transition' is two steps: a read with the       *)
(* state-machine assertion, and, later, a write that no longer looks at    *)
(* the row.  An activation that ends up in runHandler goes on as the run.  *)
(*                                                                         *)
(* Left out: progress, the event log, websocket notifications and failing  *)
(* database calls.                                                         *)
(***************************************************************************)
EXTENDS Naturals, FiniteSets, JobStatus

CONSTANTS
  Jobs,         \* row ids
  NoJob,        \* the subject of an activation that has none yet
  Calls,        \* asynchronous activations that can be in flight together
  Keys,         \* idempotency keys producers pass to enqueue
  NoKey,        \* the absence of one
  Types,        \* job definitions, each by its set of capabilities
  MaxAttempts,  \* maxAttempts column
  AttemptBound, \* bound: manual retries stop here
  MaxRestarts   \* bound: restarts of the process

Capabilities == {"cancellable", "pausable", "resumable", "retryable"}
ASSUME TypesAssumption == Types \subseteq SUBSET Capabilities
ASSUME AttemptAssumption ==
  /\ MaxAttempts \in Nat \ {0}
  /\ AttemptBound \in Nat
  /\ MaxAttempts <= AttemptBound
ASSUME RestartAssumption == MaxRestarts \in Nat
ASSUME AbsentAssumption == NoKey \notin Keys /\ NoJob \notin Jobs

VARIABLES
  row,              \* database: job -> [status, attempt, key, caps]
  running,          \* jobs this process believes it is executing
  cancelRequested,  \* cooperative cancel flags
  pauseRequested,   \* cooperative pause flags
  call,             \* activation -> where it stands and its local variables
  restarts

mem  == <<running, cancelRequested, pauseRequested>>
vars == <<row, running, cancelRequested, pauseRequested, call, restarts>>

\* "absent": not yet created; "pruned": deleted by the retention job.
RowStatus == JOB_STATUSES \cup {"absent", "pruned"}

\* Steps of runHandler, from the moment the job is in `running'.
RunPhases ==
  {"start", "body", "completed", "completed_with_warnings", "markFailed",
   "attemptFailed", "attemptRetrying", "attemptQueued", "delay",
   "markCancelled", "markPausing", "markPaused", "finally"}

\* Steps before a run, or of a control call that never runs the body.
ControlPhases ==
  {"findActive", "create", "spawn", "cancelling", "cancelLook",
   "cancelDirect", "pausing", "resumeQueued", "retryRetrying", "retryQueued"}

\* `mode' says which half of `transition' comes next.
CallState ==
  [pc : RunPhases \cup ControlPhases \cup {"idle"}, mode : {"read", "write"},
   job : Jobs \cup {NoJob}, attempt : 1..AttemptBound, key : Keys \cup {NoKey}]

TypeOK ==
  /\ row \in [Jobs -> [status : RowStatus, attempt : 1..AttemptBound,
                       key : Keys \cup {NoKey}, caps : SUBSET Capabilities]]
  /\ running \subseteq Jobs
  /\ cancelRequested \subseteq Jobs
  /\ pauseRequested \subseteq Jobs
  /\ call \in [Calls -> CallState]
  /\ \A c \in Calls : call[c].pc \notin {"idle", "findActive", "create"}
                        => call[c].job \in Jobs
  /\ restarts \in 0..MaxRestarts

Status(j) == row[j].status
At(c, p)  == call[c].pc = p
Can(j, capability) == capability \in row[j].caps

Idle == [pc |-> "idle", mode |-> "read", job |-> NoJob, attempt |-> 1, key |-> NoKey]

Init ==
  /\ row = [j \in Jobs |-> [status |-> "absent", attempt |-> 1, key |-> NoKey, caps |-> {}]]
  /\ running = {} /\ cancelRequested = {} /\ pauseRequested = {}
  /\ call = [c \in Calls |-> Idle]
  /\ restarts = 0

----------------------------------------------------------------------------
(* `transition': the read and assertion, the refusal, the late write.       *)

\* Activation c goes on at p; at "idle" it has returned and forgets its locals.
Goto(c, p) ==
  call' = [call EXCEPT ![c] = IF p = "idle" THEN Idle
                              ELSE [@ EXCEPT !.pc = p, !.mode = "read"]]

\* Activation c, which is free, becomes a call about job j.
Begin(c, p, j, attempt) ==
  /\ At(c, "idle")
  /\ call' = [call EXCEPT ![c] = [pc |-> p, mode |-> "read", job |-> j,
                                  attempt |-> attempt, key |-> NoKey]]

\* findUnique and a successful assertTransition.
Accept(c, p, to) ==
  /\ At(c, p) /\ call[c].mode = "read"
  /\ CanTransition(Status(call[c].job), to)
  /\ call' = [call EXCEPT ![c].mode = "write"]
  /\ UNCHANGED <<row, mem, restarts>>

\* findUnique and an assertTransition that throws.
Refuse(c, p, to) ==
  /\ At(c, p) /\ call[c].mode = "read"
  /\ ~CanTransition(Status(call[c].job), to)
  /\ UNCHANGED <<row, mem, restarts>>

\* The update; the moves to running and to retrying also store the attempt.
Write(c, p, to, next) ==
  /\ At(c, p) /\ call[c].mode = "write"
  /\ row' = [row EXCEPT ![call[c].job].status = to,
                        ![call[c].job].attempt = IF to \in {"running", "retrying"}
                                                   THEN call[c].attempt ELSE @]
  /\ Goto(c, next)
  /\ UNCHANGED <<mem, restarts>>

\* A whole transition at step p: on to `done', or to `refused'.
Transition(c, p, to, done, refused) ==
  \/ Accept(c, p, to)
  \/ Refuse(c, p, to) /\ Goto(c, refused)
  \/ Write(c, p, to, done)

----------------------------------------------------------------------------
(* Producers: enqueue, then run.                                            *)

\* run / runDetached / rerun with key k: rerun passes none.
RunDetached(c, k) ==
  /\ At(c, "idle")
  /\ call' = [call EXCEPT ![c].pc = IF k = NoKey THEN "create" ELSE "findActive",
                          ![c].key = k]
  /\ UNCHANGED <<row, mem, restarts>>

\* enqueue's idempotency look-up: an active job with the key is returned as it is.
FindActive(c) ==
  /\ At(c, "findActive")
  /\ LET active == {j \in Jobs : row[j].key = call[c].key
                                 /\ Status(j) \in ACTIVE_STATUSES}
     IN \/ active = {} /\ Goto(c, "create")
        \/ \E j \in active :
             call' = [call EXCEPT ![c].pc = "spawn", ![c].job = j,
                                  ![c].attempt = row[j].attempt]
  /\ UNCHANGED <<row, mem, restarts>>

\* The insert of a queued row of some type, under a fresh id; the capabilities of
\* its definition become columns of the row.  Bound: once Jobs is used up
\* the call is dropped.
Create(c) ==
  /\ At(c, "create")
  /\ \/ \E j \in Jobs, caps \in Types :
          /\ Status(j) = "absent"
          /\ row' = [row EXCEPT ![j] = [status |-> "queued", attempt |-> 1,
                                        key |-> call[c].key, caps |-> caps]]
          /\ call' = [call EXCEPT ![c].pc = "spawn", ![c].job = j]
     \/ /\ \A j \in Jobs : Status(j) # "absent"
        /\ Goto(c, "idle") /\ UNCHANGED row
  /\ UNCHANGED <<mem, restarts>>

\* running.add, synchronously followed by the call of runHandler.
Spawn(c) ==
  /\ At(c, "spawn")
  /\ running' = running \cup {call[c].job}
  /\ Goto(c, "start")
  /\ UNCHANGED <<row, cancelRequested, pauseRequested, restarts>>

----------------------------------------------------------------------------
(* runHandler.                                                              *)

\* The strict transition to running: a refusal rejects the whole run.
StartAttempt(c) == Transition(c, "start", "running", "body", "finally")

\* The catch block's choice between another attempt and markFailed.
CanRetry(c, retryableError) ==
  Can(call[c].job, "retryable") /\ call[c].attempt < MaxAttempts /\ retryableError

\* Mutant: maxAttempts is not consulted.
CaughtUnbounded(c, retryableError) ==
  IF Can(call[c].job, "retryable") /\ retryableError
    THEN call' = [call EXCEPT ![c].pc = "attemptFailed", ![c].attempt = @ + 1]
    ELSE Goto(c, "markFailed")

\* Mutant: the attempt is not counted.
CaughtUncounted(c, retryableError) ==
  Goto(c, IF CanRetry(c, retryableError) THEN "attemptFailed" ELSE "markFailed")

Caught(c, retryableError) ==
  IF CanRetry(c, retryableError)
    THEN call' = [call EXCEPT ![c].pc = "attemptFailed", ![c].attempt = @ + 1]
    ELSE Goto(c, "markFailed")

\* The body: it returns (with or without warnings), throws, or, if it looks at
\* its cancel or pause flag, stops there.  It need not look.
BodyReturns(c) ==
  /\ At(c, "body")
  /\ \E p \in {"completed", "completed_with_warnings"} : Goto(c, p)
  /\ UNCHANGED <<row, mem, restarts>>

BodyThrows(c) ==
  /\ At(c, "body")
  /\ \E retryableError \in BOOLEAN : Caught(c, retryableError)
  /\ UNCHANGED <<row, mem, restarts>>

BodyStops(c) ==
  /\ At(c, "body")
  /\ \/ call[c].job \in cancelRequested /\ Goto(c, "markCancelled")
     \/ call[c].job \in pauseRequested  /\ Goto(c, "markPausing")
  /\ UNCHANGED <<row, mem, restarts>>

\* finishSuccess is inside the try: an InvalidJobTransitionError is caught like
\* an error of the body, and counts as retryable.
FinishSuccess(c) ==
  \E to \in {"completed", "completed_with_warnings"} :
    \/ Accept(c, to, to)
    \/ Refuse(c, to, to) /\ Caught(c, TRUE)
    \/ Write(c, to, to, "finally")

MarkFailed(c)    == Transition(c, "markFailed", "failed", "finally", "finally")
MarkCancelled(c) == Transition(c, "markCancelled", "cancelled", "finally", "finally")

\* Mutant: the move to pausing is left to requestPause.
MarkPausedAtOnce(c) == Transition(c, "markPausing", "paused", "finally", "finally")

MarkPaused(c) ==
  \/ Transition(c, "markPausing", "pausing", "markPaused", "markPaused")
  \/ Transition(c, "markPaused", "paused", "finally", "finally")

\* The walk failed -> retrying -> queued of an automatic retry.
ScheduleRetry(c) ==
  \/ Transition(c, "attemptFailed", "failed", "attemptRetrying", "attemptRetrying")
  \/ Transition(c, "attemptRetrying", "retrying", "attemptQueued", "attemptQueued")
  \/ Transition(c, "attemptQueued", "queued", "delay", "delay")

\* After the backoff delay: honour a cancel, or loop.
AfterDelay(c) ==
  /\ At(c, "delay")
  /\ Goto(c, IF call[c].job \in cancelRequested THEN "markCancelled" ELSE "start")
  /\ UNCHANGED <<row, mem, restarts>>

\* Mutant: the pause flag survives the run.
FinallyKeepsPauseFlag(c) ==
  /\ At(c, "finally")
  /\ running' = running \ {call[c].job}
  /\ cancelRequested' = cancelRequested \ {call[c].job}
  /\ Goto(c, "idle")
  /\ UNCHANGED <<row, pauseRequested, restarts>>

\* The finally block.
Finally(c) ==
  /\ At(c, "finally")
  /\ running' = running \ {call[c].job}
  /\ cancelRequested' = cancelRequested \ {call[c].job}
  /\ pauseRequested' = pauseRequested \ {call[c].job}
  /\ Goto(c, "idle")
  /\ UNCHANGED <<row, restarts>>

----------------------------------------------------------------------------
(* Control calls, as the controller gates them.                             *)

RequestCancel(c, j) ==
  /\ Can(j, "cancellable") /\ Status(j) \in JOB_STATUSES
  /\ \/ /\ j \in running
        /\ cancelRequested' = cancelRequested \cup {j}
        /\ Begin(c, "cancelling", j, 1)
     \/ /\ j \notin running
        /\ Begin(c, "cancelLook", j, 1)
        /\ UNCHANGED cancelRequested
  /\ UNCHANGED <<row, running, pauseRequested, restarts>>

\* A running job is flagged and, best effort, moved to cancelling.
MarkCancelling(c) == Transition(c, "cancelling", "cancelling", "idle", "idle")

\* A job this process does not run is cancelled at once if it is parked.
CancelLook(c) ==
  /\ At(c, "cancelLook")
  /\ Goto(c, IF Status(call[c].job) \in {"queued", "scheduled", "waiting",
                                         "blocked", "paused"}
               THEN "cancelDirect" ELSE "idle")
  /\ UNCHANGED <<row, mem, restarts>>

CancelDirect(c) == Transition(c, "cancelDirect", "cancelled", "idle", "idle")

\* The look-up only reads the immutable `pausable' column.
RequestPause(c, j) ==
  /\ Can(j, "pausable") /\ Status(j) \in JOB_STATUSES
  /\ j \in running
  /\ pauseRequested' = pauseRequested \cup {j}
  /\ Begin(c, "pausing", j, 1)
  /\ UNCHANGED <<row, running, cancelRequested, restarts>>

MarkPausing(c) == Transition(c, "pausing", "pausing", "idle", "idle")

\* resume: the row read here is the one the run is started with.
Resume(c, j) ==
  /\ Can(j, "resumable") /\ Status(j) = "paused"
  /\ Begin(c, "resumeQueued", j, row[j].attempt)
  /\ UNCHANGED <<row, mem, restarts>>

ResumeQueued(c) == Transition(c, "resumeQueued", "queued", "spawn", "idle")

\* retry: re-execute a failed row under the next attempt number.
Retry(c, j) ==
  /\ Can(j, "retryable") /\ Status(j) = "failed"
  /\ row[j].attempt < AttemptBound
  /\ Begin(c, "retryRetrying", j, row[j].attempt + 1)
  /\ UNCHANGED <<row, mem, restarts>>

RetryQueued(c) ==
  \/ Transition(c, "retryRetrying", "retrying", "retryQueued", "idle")
  \/ Transition(c, "retryQueued", "queued", "spawn", "idle")

----------------------------------------------------------------------------
(* The environment: restarts and the retention job.                         *)

\* A crash loses the activations and the in-memory sets; onModuleInit then
\* fails the rows of the dead process out.  Nothing runs in between.
Restart ==
  /\ restarts < MaxRestarts
  /\ restarts' = restarts + 1
  /\ row' = [j \in Jobs |-> [row[j] EXCEPT !.status =
                               IF @ \in {"running", "pausing", "cancelling"}
                                 THEN "failed" ELSE @]]
  /\ running' = {} /\ cancelRequested' = {} /\ pauseRequested' = {}
  /\ call' = [c \in Calls |-> Idle]

\* prune deletes finished and failed rows untouched for days: no activation that
\* is still in flight on the row is that old.
Prune(j) ==
  /\ Status(j) \in TERMINAL_STATUSES \cup {"failed"}
  /\ \A c \in Calls : call[c].job # j
  /\ row' = [row EXCEPT ![j].status = "pruned"]
  /\ UNCHANGED <<mem, call, restarts>>

----------------------------------------------------------------------------
\* One step of an activation that is under way.
CallStep(c) ==
  \/ FindActive(c) \/ Create(c) \/ Spawn(c)
  \/ StartAttempt(c) \/ BodyReturns(c) \/ BodyThrows(c) \/ BodyStops(c)
  \/ FinishSuccess(c) \/ MarkFailed(c) \/ MarkCancelled(c) \/ MarkPaused(c)
  \/ ScheduleRetry(c) \/ AfterDelay(c) \/ Finally(c)
  \/ MarkCancelling(c) \/ CancelLook(c) \/ CancelDirect(c) \/ MarkPausing(c)
  \/ ResumeQueued(c) \/ RetryQueued(c)

\* A producer or an operator calls the engine.
NewCall(c) ==
  \/ \E k \in Keys \cup {NoKey} : RunDetached(c, k)
  \/ \E j \in Jobs : \/ RequestCancel(c, j) \/ RequestPause(c, j)
                     \/ Resume(c, j) \/ Retry(c, j)

Next ==
  \/ \E c \in Calls : CallStep(c) \/ NewCall(c)
  \/ \E j \in Jobs : Prune(j)
  \/ Restart

Spec == Init /\ [][Next]_vars

\* Database calls and job bodies return; nobody is obliged to call or to restart.
FairSpec == Spec /\ \A c \in Calls : WF_vars(CallStep(c))

----------------------------------------------------------------------------
(* Properties.                                                              *)

\* The activations that are inside runHandler for job j.
RunnersOf(j) == {c \in Calls : call[c].job = j /\ call[c].pc \in RunPhases}

\* The in-memory bookkeeping never outlives the run it belongs to: a job in
\* `running' is inside some runHandler (its finally block will clear it), and a
\* cancel or pause flag exists only for such a job, so no flag is left behind to
\* stop a later run of the same job.
FlagsBelongToARun ==
  /\ \A j \in running : RunnersOf(j) # {}
  /\ cancelRequested \cup pauseRequested \subseteq running

\* job-reliability.service.ts relies on it: while the process lives, a row whose
\* status is `running' is inside some runHandler.  Duplicate runs under one key,
\* manual retries beside automatic ones, double resumes and pauses do not break it,
\* although each of them may put several runs on one row, of which the first to end
\* takes the job out of `running'; an early cancellation does (README).
RunningHasRunner ==
  \A j \in Jobs : Status(j) = "running" /\ ~Can(j, "cancellable") => RunnersOf(j) # {}

\* Every producer or control call comes to an end: the retry loop is bounded by
\* maxAttempts and no step of one call waits for another.
CallsSettle == \A c \in Calls : ~At(c, "idle") ~> At(c, "idle")

\* job-status.ts: terminal states have no outgoing edges (rows are only pruned).
TerminalIsFinal ==
  [][\A j \in Jobs : Status(j) \in TERMINAL_STATUSES
                       => Status(j)' \in {Status(j), "pruned"}]_vars

\* Not met, and without a run of its own (README).
\* job-retention.service.ts: an idempotency key means one active job at a time,
\* so at most one body runs under a key.
OneBodyPerKey ==
  \A k \in Keys : Cardinality({c \in Calls : At(c, "body")
                                 /\ row[call[c].job].key = k}) <= 1
=============================================================================
