------------------------------ MODULE JobStatus ------------------------------
(***************************************************************************)
(* The status model of the Unified Jobs Center and its transition matrix   *)
(* (jobs/platform/job-status.ts).  Pure definitions, shared by every       *)
(* module that writes a PlatformJob row.                                   *)
(***************************************************************************)

JOB_STATUSES ==
  {"scheduled", "queued", "waiting", "blocked", "running", "pausing", "paused",
   "retrying", "completed", "completed_with_warnings", "failed", "cancelling",
   "cancelled", "skipped", "expired"}

\* A job here does no more work ("failed" is not in it: it can still be retried).
TERMINAL_STATUSES ==
  {"completed", "completed_with_warnings", "cancelled", "skipped", "expired"}

\* "Not finished": what the idempotency look-up of enqueue counts as a duplicate.
ACTIVE_STATUSES ==
  {"scheduled", "queued", "waiting", "blocked", "running", "pausing", "paused",
   "retrying", "cancelling"}

\* Executing, or about to, on a worker.
RUNNING_STATUSES == {"running", "pausing", "cancelling"}

\* The matrix as a set of pairs <<from, to>>.
JOB_TRANSITIONS ==
       ({"scheduled"}  \X {"queued", "cancelled", "expired"})
  \cup ({"queued"}     \X {"running", "waiting", "blocked", "cancelled", "skipped"})
  \cup ({"waiting"}    \X {"queued", "blocked", "cancelled", "expired"})
  \cup ({"blocked"}    \X {"queued", "cancelled", "expired"})
  \cup ({"running"}    \X {"completed", "completed_with_warnings", "failed",
                           "cancelling", "pausing"})
  \cup ({"pausing"}    \X {"paused", "running", "failed", "cancelling"})
  \cup ({"paused"}     \X {"queued", "running", "cancelled"})
  \cup ({"retrying"}   \X {"queued"})
  \cup ({"failed"}     \X {"retrying"})
  \cup ({"cancelling"} \X {"cancelled"})

\* A self-transition is a no-op and allowed.
CanTransition(from, to) == from = to \/ <<from, to>> \in JOB_TRANSITIONS
==============================================================================
