-------------------------- MODULE WorkflowExecution --------------------------
(***************************************************************************)
(* The durable workflow executor (workflows/workflow-execution.service.ts) *)
(* with its resumers: the deadline tick (workflow-resume.service.ts), the  *)
(* domain-event bridge (workflow-event.bridge.ts) and the approval centre. *)
(*                                                                         *)
(* Execution and node rows live in the database.  Every call is an         *)
(* activation that yields at each database access; a resume, a finished    *)
(* subworkflow and a boot recovery all go on as a run loop, with a private *)
(* copy of the node states taken when the loop started.                    *)
(*                                                                         *)
(* Left out: variables and conditions (a condition or branch may go any    *)
(* way), the Jobs Center mirror, audit records and published events, the   *)
(* permission check of dispatchAction (one more way to fail), retention.   *)
(* The ready nodes of a wave are taken in any order: the code takes them   *)
(* in that of the graph's node list, which is the author's.                *)
(***************************************************************************)
EXTENDS ExecutionPlanner, Naturals, FiniteSets

CONSTANTS
  Execs,        \* execution ids
  Nodes,        \* node ids
  GraphOf,      \* execution -> its pinned graph [nodes, edges, cat, timed]
  Parent,       \* execution -> <<parent, node>> of the subworkflow it is, or None
  None,         \* no parent, no execution, no node
  Calls,        \* activations that can be in flight together
  Sources,      \* who acts: subset of {"tick", "event", "approver", "cancel"}
  MaxRestarts   \* bound: restarts of the process

ASSUME SourcesAssumption == Sources \subseteq {"tick", "event", "approver", "cancel"}
\* What the palette of nodes and a published graph guarantee.
Categories ==
  {"trigger", "condition", "action", "branch", "parallel", "join", "transform", "variable",
   "delay", "wait", "approval", "subworkflow", "end"}

ASSUME RestartAssumption == MaxRestarts \in Nat
ASSUME GraphAssumption ==
  \A e \in Execs : /\ GraphOf[e].nodes \subseteq Nodes
                  /\ \A n \in GraphOf[e].nodes : GraphOf[e].cat[n] \in Categories
ASSUME ParentAssumption ==
  \A e \in Execs : Parent[e] = None \/ Parent[e] \in Execs \X Nodes

VARIABLES
  exec,        \* database: execution -> [status, timer]
  rows,        \* database: execution -> node -> [status, ports]
  approval,    \* database: execution -> status of its approval gate
  act,         \* activation -> where it stands and its local variables
  dispatched,  \* execution -> node -> runs of its action, counted up to 2
  orphans,     \* executions boot recovery still has to resume
  restarts

vars == <<exec, rows, approval, act, dispatched, orphans, restarts>>

PAUSING == {"delay", "wait", "approval", "subworkflow"}
WAITING_STATUSES == {"waiting", "waiting_for_event", "waiting_for_approval", "paused"}
TERMINAL == {"completed", "completed_with_warnings", "failed", "cancelled", "expired"}
EXECUTION_ACTIVE ==
  {"scheduled", "queued", "running", "retrying", "cancelling"} \cup WAITING_STATUSES

\* The ports of the palette, and those an author names in a graph.
Ports ==
  {"out", "completed", "timeout", "approved", "rejected", "failure", "true", "false", "default"}
  \cup UNION {{x.port : x \in GraphOf[e].edges} : e \in Execs}
NodeState == [status : NodeStatuses, ports : SUBSET Ports]

TypeOK ==
  /\ exec \in [Execs -> [status : EXECUTION_ACTIVE \cup TERMINAL \cup {"absent"},
                         timer : {"none", "resumeAt", "expiresAt"}]]
  /\ rows \in [Execs -> [Nodes -> NodeState]]
  /\ approval \in [Execs -> {"none", "pending", "approved", "rejected", "expired"}]
  /\ act \in [Calls ->
       [pc : {"idle", "load", "states", "mark", "wave", "node", "dispatch", "persist",
              "arm", "gate", "setWaiting", "child", "finalize", "resume", "find",
              "resumeNode", "resumeExec", "match", "expire", "respond", "flag"},
        e : Execs \cup {None}, n : Nodes \cup {None}, port : Ports,
        st : [Nodes -> NodeState], todo : SUBSET Nodes,
        goal : TERMINAL, tick : BOOLEAN]]
  /\ dispatched \in [Execs -> [Nodes -> 0..2]]
  /\ orphans \subseteq Execs
  /\ restarts \in 0..MaxRestarts

NoStates == [n \in Nodes |-> Pending]

Idle == [pc |-> "idle", e |-> None, n |-> None, port |-> "out", st |-> NoStates,
         todo |-> {}, goal |-> "completed", tick |-> FALSE]

Init ==
  /\ exec = [e \in Execs |-> [status |-> "absent", timer |-> "none"]]
  /\ rows = [e \in Execs |-> NoStates]
  /\ approval = [e \in Execs |-> "none"]
  /\ act = [c \in Calls |-> Idle]
  /\ dispatched = [e \in Execs |-> [n \in Nodes |-> 0]]
  /\ orphans = {}
  /\ restarts = 0

Status(e) == exec[e].status
At(c, p) == act[c].pc = p
Cat(e, n) == GraphOf[e].cat[n]

\* Activation c goes on at p, and (Return) is over, and (Begin) starts at p on e.
Goto(c, p) == act' = [act EXCEPT ![c].pc = p]
Return(c) == act' = [act EXCEPT ![c] = Idle]
Begin(c, p, e, port) ==
  /\ At(c, "idle")
  /\ act' = [act EXCEPT ![c] = [Idle EXCEPT !.pc = p, !.e = e, !.port = port]]

SetStatus(e, s) == exec' = [exec EXCEPT ![e].status = s]
SetRow(e, n, r) == rows' = [rows EXCEPT ![e][n] = r]

----------------------------------------------------------------------------
(* runExecution.                                                            *)

\* start: the row of a top-level execution, then its run loop.
Start(c, e) ==
  /\ Parent[e] = None /\ Status(e) = "absent"
  /\ Begin(c, "load", e, "out")
  /\ SetStatus(e, "queued")
  /\ UNCHANGED <<rows, approval, dispatched, orphans, restarts>>

\* The execution row is read: a finished one is left alone.
Load(c) ==
  /\ At(c, "load")
  /\ IF Status(act[c].e) \in EXECUTION_ACTIVE THEN Goto(c, "states") ELSE Return(c)
  /\ UNCHANGED <<exec, rows, approval, dispatched, orphans, restarts>>

\* Mutant: the node rows are not read back.
LoadStatesFresh(c) ==
  /\ At(c, "states")
  /\ Goto(c, "mark")
  /\ UNCHANGED <<exec, rows, approval, dispatched, orphans, restarts>>

\* loadStates.
LoadStates(c) ==
  /\ At(c, "states")
  /\ act' = [act EXCEPT ![c] = [@ EXCEPT !.pc = "mark", !.st = rows[act[c].e]]]
  /\ UNCHANGED <<exec, rows, approval, dispatched, orphans, restarts>>

\* The unconditional update to running.
MarkRunning(c) ==
  /\ At(c, "mark")
  /\ SetStatus(act[c].e, "running")
  /\ Goto(c, "wave")
  /\ UNCHANGED <<rows, approval, dispatched, orphans, restarts>>

\* One iteration of the loop: the cancellation check, then the plan; dead nodes
\* are persisted as skipped; the loop ends when nothing is ready.
Wave(c) ==
  /\ At(c, "wave")
  /\ LET e     == act[c].e
         g     == GraphOf[e]
         dead  == Dead(g, act[c].st)
         ready == Ready(g, act[c].st)
         prune(s) == [n \in Nodes |-> IF n \in dead THEN Skipped ELSE s[n]]
     IN IF Status(e) = "cancelling"
          THEN /\ act' = [act EXCEPT ![c] = [@ EXCEPT !.pc = "finalize", !.goal = "cancelled"]]
               /\ UNCHANGED rows
          ELSE /\ rows' = [rows EXCEPT ![e] = prune(rows[e])]
               /\ act' = [act EXCEPT ![c] = [@ EXCEPT
                    !.st = prune(act[c].st),
                    !.todo = ready,
                    !.pc = IF ready # {} THEN "node"
                           ELSE IF Quiescent(g, act[c].st) \/ dead = {} THEN "finalize"
                           ELSE "wave",
                    !.goal = "completed"]]
  /\ UNCHANGED <<exec, approval, dispatched, orphans, restarts>>

\* The next of the ready nodes: a pausing one is armed, an action dispatched.
TakeNode(c) ==
  /\ At(c, "node")
  /\ \E n \in act[c].todo :
       act' = [act EXCEPT ![c] = [@ EXCEPT
                 !.n = n,
                 !.pc = CASE Cat(act[c].e, n) \in PAUSING -> "arm"
                          [] Cat(act[c].e, n) = "action" -> "dispatch"
                          [] OTHER -> "persist"]]
  /\ UNCHANGED <<exec, rows, approval, dispatched, orphans, restarts>>

\* dispatchAction hands the action to the Automation Engine: its effects begin.
DispatchAction(c) ==
  /\ At(c, "dispatch")
  /\ dispatched' = [dispatched EXCEPT ![act[c].e][act[c].n] =
                    LET k == dispatched[act[c].e][act[c].n] IN IF k < 2 THEN k + 1 ELSE k]
  /\ Goto(c, "persist")
  /\ UNCHANGED <<exec, rows, approval, orphans, restarts>>

\* Whether a failed action of node n has a failure branch to go down.
HasFailureEdge(e, n) == \E x \in GraphOf[e].edges : x.src = n /\ x.port = "failure"

\* processNode: what a node may end with.  An action's attempts are used up.
Outcomes(e, n) ==
  LET ok(ports) == [status |-> "succeeded", ports |-> ports]
      outs == {x.port : x \in {y \in GraphOf[e].edges : y.src = n}}
  IN CASE Cat(e, n) = "condition" -> {ok({"true"}), ok({"false"})}
       [] Cat(e, n) = "end"       -> {ok({})}
       [] Cat(e, n) = "action"    ->
            {ok({"out"}),
             [status |-> "failed",
              ports  |-> IF HasFailureEdge(e, n) THEN {"failure"} ELSE {}]}
       [] Cat(e, n) = "branch"    -> {ok({q}) : q \in outs \cup {"default"}}
       [] Cat(e, n) \in {"transform", "parallel", "join"} -> {ok(outs)}
       [] Cat(e, n) \in {"trigger", "variable"} -> {ok({"out"})}

\* persistNode of the outcome; an unhandled failure breaks out of the loop.
PersistNode(c) ==
  /\ At(c, "persist")
  /\ LET e    == act[c].e
         n    == act[c].n
         rest == act[c].todo \ {n}
     IN \E o \in Outcomes(e, n) :
          LET broken == o.status = "failed" /\ ~HasFailureEdge(e, n)
          IN /\ SetRow(e, n, o)
             /\ act' = [act EXCEPT ![c] = [@ EXCEPT
                          !.st = [act[c].st EXCEPT ![n] = o], !.todo = rest, !.n = None,
                          !.goal = IF broken THEN "failed" ELSE act[c].goal,
                          !.pc = IF broken THEN "finalize"
                                 ELSE IF rest # {} THEN "node" ELSE "wave"]]
  /\ UNCHANGED <<exec, approval, dispatched, orphans, restarts>>

----------------------------------------------------------------------------
(* armWait: the node row first, the approval gate, then the execution row.  *)

Arm(c) ==
  /\ At(c, "arm")
  /\ SetRow(act[c].e, act[c].n, [status |-> "waiting", ports |-> {}])
  /\ Goto(c, IF Cat(act[c].e, act[c].n) = "approval" THEN "gate" ELSE "setWaiting")
  /\ UNCHANGED <<exec, approval, dispatched, orphans, restarts>>

CreateApproval(c) ==
  /\ At(c, "gate")
  /\ approval' = [approval EXCEPT ![act[c].e] = "pending"]
  /\ Goto(c, "setWaiting")
  /\ UNCHANGED <<exec, rows, dispatched, orphans, restarts>>

\* Mutant: the loop ends instead of returning, and finalizes the paused execution.
SetWaitingFallsThrough(c) ==
  /\ At(c, "setWaiting")
  /\ SetStatus(act[c].e, "waiting")
  /\ Goto(c, "finalize")
  /\ UNCHANGED <<rows, approval, dispatched, orphans, restarts>>

\* setWaiting: the status, and the deadline the tick looks for.
SetWaiting(c) ==
  /\ At(c, "setWaiting")
  /\ LET e   == act[c].e
         cat == Cat(e, act[c].n)
     IN /\ exec' = [exec EXCEPT ![e] =
              [status |-> CASE cat = "wait"     -> "waiting_for_event"
                            [] cat = "approval" -> "waiting_for_approval"
                            [] OTHER            -> "waiting",
               timer  |-> IF cat = "delay" THEN "resumeAt"
                          ELSE IF act[c].n \in GraphOf[e].timed THEN "expiresAt" ELSE "none"]]
        /\ IF cat = "subworkflow" THEN Goto(c, "child") ELSE Return(c)
  /\ UNCHANGED <<rows, approval, dispatched, orphans, restarts>>

\* The child execution is started, and this activation goes on as its run; or it
\* cannot be (unpublished, too deep) and the node resumes down failure.
StartChild(c) ==
  /\ At(c, "child")
  /\ \/ \E x \in Execs :
          /\ Parent[x] = <<act[c].e, act[c].n>> /\ Status(x) = "absent"
          /\ SetStatus(x, "queued")
          /\ act' = [act EXCEPT ![c] = [Idle EXCEPT !.pc = "load", !.e = x]]
     \/ /\ act' = [act EXCEPT ![c] = [@ EXCEPT !.pc = "resumeNode", !.port = "failure"]]
        /\ UNCHANGED exec
  /\ UNCHANGED <<rows, approval, dispatched, orphans, restarts>>

\* Mutant: a finished child does not resume its parent.
FinalizeForgetsParent(c) ==
  /\ At(c, "finalize")
  /\ SetStatus(act[c].e, act[c].goal)
  /\ Return(c)
  /\ UNCHANGED <<rows, approval, dispatched, orphans, restarts>>

\* Mutant: the parent's node is resumed down a port named like the child's status.
FinalizePortIsStatus(c) ==
  /\ At(c, "finalize")
  /\ LET e == act[c].e
     IN /\ SetStatus(e, act[c].goal)
        /\ IF Parent[e] = None THEN Return(c)
           ELSE act' = [act EXCEPT ![c] =
                  [Idle EXCEPT !.pc = "resumeNode", !.e = Parent[e][1],
                               !.n = Parent[e][2], !.tick = act[c].tick,
                               !.port = act[c].goal]]
  /\ UNCHANGED <<rows, approval, dispatched, orphans, restarts>>

\* finalize: an unconditional update; a child then resumes its parent's node.
Finalize(c) ==
  /\ At(c, "finalize")
  /\ LET e == act[c].e
     IN /\ SetStatus(e, act[c].goal)
        /\ IF Parent[e] = None THEN Return(c)
           ELSE act' = [act EXCEPT ![c] =
                  [Idle EXCEPT !.pc = "resumeNode", !.e = Parent[e][1],
                               !.n = Parent[e][2], !.tick = act[c].tick,
                               !.port = IF act[c].goal = "completed"
                                          THEN "out" ELSE "failure"]]
  /\ UNCHANGED <<rows, approval, dispatched, orphans, restarts>>

----------------------------------------------------------------------------
(* resume and resumeNode.                                                   *)

Resume(c) ==
  /\ At(c, "resume")
  /\ IF Status(act[c].e) \in WAITING_STATUSES THEN Goto(c, "find") ELSE Return(c)
  /\ UNCHANGED <<exec, rows, approval, dispatched, orphans, restarts>>

FindWaiting(c) ==
  /\ At(c, "find")
  /\ LET waiting == {n \in Nodes : rows[act[c].e][n].status = "waiting"}
     IN \/ waiting = {} /\ Return(c)
        \/ \E n \in waiting :
             act' = [act EXCEPT ![c] = [@ EXCEPT !.n = n, !.pc = "resumeNode"]]
  /\ UNCHANGED <<exec, rows, approval, dispatched, orphans, restarts>>

\* resumeNode settles the node row, then (ResumeExec) the execution row and runs on.
ResumeNode(c) ==
  /\ At(c, "resumeNode")
  /\ SetRow(act[c].e, act[c].n, [status |-> "succeeded", ports |-> {act[c].port}])
  /\ Goto(c, "resumeExec")
  /\ UNCHANGED <<exec, approval, dispatched, orphans, restarts>>

ResumeExec(c) ==
  /\ At(c, "resumeExec")
  /\ exec' = [exec EXCEPT ![act[c].e] = [status |-> "running", timer |-> "none"]]
  /\ act' = [act EXCEPT ![c] = [Idle EXCEPT !.pc = "load", !.e = act[c].e,
                                            !.tick = act[c].tick]]
  /\ UNCHANGED <<rows, approval, dispatched, orphans, restarts>>

----------------------------------------------------------------------------
(* Who resumes and who cancels.                                             *)

\* The deadline tick never overlaps itself: it awaits each run it resumes.
Tick(c, e) ==
  /\ "tick" \in Sources
  /\ \A d \in Calls : ~act[d].tick
  /\ At(c, "idle")
  /\ \/ /\ Status(e) = "waiting" /\ exec[e].timer = "resumeAt"
        /\ act' = [act EXCEPT ![c] = [Idle EXCEPT !.pc = "resume", !.e = e,
                                                  !.tick = TRUE]]
     \/ /\ Status(e) \in {"waiting_for_event", "waiting_for_approval"}
        /\ exec[e].timer = "expiresAt"
        /\ act' = [act EXCEPT ![c] =
             [Idle EXCEPT !.pc = IF Status(e) = "waiting_for_approval"
                                   THEN "expire" ELSE "resume",
                          !.e = e, !.port = "timeout", !.tick = TRUE]]
  /\ UNCHANGED <<exec, rows, approval, dispatched, orphans, restarts>>

\* Mutant: the gate stays pending when its deadline passes.
ExpireApprovalForgets(c) ==
  /\ At(c, "expire")
  /\ Goto(c, "resume")
  /\ UNCHANGED <<exec, rows, approval, dispatched, orphans, restarts>>

\* The pending gate of an execution past its deadline expires first.
ExpireApproval(c) ==
  /\ At(c, "expire")
  /\ approval' = [approval EXCEPT ![act[c].e] = IF @ = "pending" THEN "expired" ELSE @]
  /\ Goto(c, "resume")
  /\ UNCHANGED <<exec, rows, dispatched, orphans, restarts>>

\* onDomainEvent: executions that wait for an event, then their waiting node.
DomainEvent(c, e) ==
  /\ "event" \in Sources /\ Status(e) = "waiting_for_event"
  /\ Begin(c, "match", e, "completed")
  /\ UNCHANGED <<exec, rows, approval, dispatched, orphans, restarts>>

MatchEvent(c) ==
  /\ At(c, "match")
  /\ IF \E n \in GraphOf[act[c].e].nodes :
          rows[act[c].e][n].status = "waiting" /\ Cat(act[c].e, n) = "wait"
       THEN Goto(c, "resume") ELSE Return(c)
  /\ UNCHANGED <<exec, rows, approval, dispatched, orphans, restarts>>

\* respondToApproval: the check, the update, the resume.
Respond(c, e, decision) ==
  /\ "approver" \in Sources /\ approval[e] = "pending"
  /\ Begin(c, "respond", e, decision)
  /\ UNCHANGED <<exec, rows, approval, dispatched, orphans, restarts>>

RecordDecision(c) ==
  /\ At(c, "respond")
  /\ approval' = [approval EXCEPT ![act[c].e] = act[c].port]
  /\ Goto(c, "resume")
  /\ UNCHANGED <<exec, rows, dispatched, orphans, restarts>>

\* cancel: a parked execution is finalized, any other is flagged.
Cancel(c, e) ==
  /\ "cancel" \in Sources /\ At(c, "idle") /\ Status(e) \in EXECUTION_ACTIVE
  /\ act' = [act EXCEPT ![c] =
       [Idle EXCEPT !.e = e, !.goal = "cancelled",
                    !.pc = IF Status(e) \in WAITING_STATUSES
                             THEN "finalize" ELSE "flag"]]
  /\ UNCHANGED <<exec, rows, approval, dispatched, orphans, restarts>>

FlagCancelling(c) ==
  /\ At(c, "flag")
  /\ SetStatus(act[c].e, "cancelling")
  /\ Return(c)
  /\ UNCHANGED <<rows, approval, dispatched, orphans, restarts>>

----------------------------------------------------------------------------
(* Restart and boot recovery.                                               *)

Restart ==
  /\ restarts < MaxRestarts
  /\ restarts' = restarts + 1
  /\ act' = [c \in Calls |-> Idle]
  /\ orphans' = {e \in Execs : Status(e) \in {"queued", "running", "retrying"}}
  /\ UNCHANGED <<exec, rows, approval, dispatched>>

\* onModuleInit: a node row left running is failed, then the run loop restarts.
Recover(c, e) ==
  /\ e \in orphans
  /\ orphans' = orphans \ {e}
  /\ rows' = [rows EXCEPT ![e] = [n \in Nodes |->
                IF rows[e][n].status = "running"
                  THEN [status |-> "failed", ports |-> {}] ELSE rows[e][n]]]
  /\ Begin(c, "load", e, "out")
  /\ UNCHANGED <<exec, approval, dispatched, restarts>>

----------------------------------------------------------------------------
Step(c) ==
  \/ Load(c) \/ LoadStates(c) \/ MarkRunning(c) \/ Wave(c) \/ TakeNode(c)
  \/ DispatchAction(c) \/ PersistNode(c)
  \/ Arm(c) \/ CreateApproval(c) \/ SetWaiting(c) \/ StartChild(c) \/ Finalize(c)
  \/ Resume(c) \/ FindWaiting(c) \/ ResumeNode(c) \/ ResumeExec(c)
  \/ ExpireApproval(c) \/ MatchEvent(c) \/ RecordDecision(c) \/ FlagCancelling(c)

Next ==
  \/ \E c \in Calls :
       \/ Step(c)
       \/ \E e \in Execs :
            \/ Start(c, e) \/ Tick(c, e) \/ DomainEvent(c, e) \/ Cancel(c, e)
            \/ Recover(c, e)
            \/ \E d \in {"approved", "rejected"} : Respond(c, e, d)
  \/ Restart

Spec == Init /\ [][Next]_vars

\* Database calls and actions return, boot recovery gets through its list and the
\* interval keeps ticking; events, approvals and cancels need not come.
FairSpec ==
  /\ Spec
  /\ \A c \in Calls : WF_vars(Step(c))
  /\ WF_vars(\E c \in Calls, e \in Execs : Recover(c, e))
  /\ WF_vars(\E c \in Calls, e \in Execs : Tick(c, e))

----------------------------------------------------------------------------
(* Properties.                                                              *)

\* What holds of an execution that no restart has interrupted.
Uninterrupted == restarts = 0

\* No action runs twice in an execution, whose side effects are not idempotent
\* (onModuleInit), since "an event resume and a timeout tick can race harmlessly"
\* (workflow-resume.service.ts).  The code does not keep it: two resumers that both found
\* the node waiting both resume it, and each goes on as a run loop of its own.
DispatchedOnce == Uninterrupted => \A e \in Execs, n \in Nodes : dispatched[e][n] <= 1

\* Progress is durable: a node whose outcome is in the database is not
\* dispatched again, by whatever loop, before or after a restart.
SettledNotRedispatched ==
  [][\A e \in Execs, n \in Nodes :
       dispatched'[e][n] # dispatched[e][n]
         => rows[e][n].status \notin {"succeeded", "failed", "skipped"}]_vars

\* A run that is reported completed left no wait behind, so nothing downstream of a
\* waiting node was silently dropped, and has no failed node without a failure branch.
CompletedMeansDone ==
  Uninterrupted =>
    \A e \in Execs : Status(e) = "completed" =>
      \A n \in Nodes : /\ rows[e][n].status # "waiting"
                       /\ rows[e][n].status = "failed" => HasFailureEdge(e, n)

\* A wait ends down a port of its own kind: what resumes an execution resumes the
\* node it was meant for ("advance its single waiting node down `port`").
PortsOf ==
  [delay |-> {"out"}, wait |-> {"completed", "timeout"},
   approval |-> {"approved", "rejected", "timeout"}, subworkflow |-> {"out", "failure"}]
ResumedByItsOwn ==
  Uninterrupted =>
    \A e \in Execs : \A n \in GraphOf[e].nodes :
      Cat(e, n) \in PAUSING /\ rows[e][n].status = "succeeded"
        => rows[e][n].ports \subseteq PortsOf[Cat(e, n)]

\* Every execution whose waits have deadlines reaches a terminal status.
Terminates ==
  \A e \in Execs : Status(e) # "absent" ~> Status(e) \in TERMINAL \/ ~Uninterrupted

----------------------------------------------------------------------------
(* Expectations the code does not meet, without a run of their own (README). *)

\* A terminal execution stays as it is (ExecutionSM has no edge out of one).
TerminalStays ==
  [][\A e \in Execs : Status(e) \in TERMINAL => Status(e)' = Status(e)]_vars

\* A cancelled execution does not run again, whatever still refers to it: a child
\* of it that ends, a resume that was on its way.
NotRevived ==
  [][\A e \in Execs : Status(e) = "cancelled" => Status(e)' # "running"]_vars

\* A cancel that flagged a running execution ends in cancelled: "the run loop
\* finalizes at the next wave boundary".
CancelHonoured ==
  [][\A e \in Execs : Status(e) = "cancelling"
                        => Status(e)' \in {"cancelling", "cancelled"}]_vars
=============================================================================
