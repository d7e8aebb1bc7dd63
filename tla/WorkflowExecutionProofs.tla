----------------------- MODULE WorkflowExecutionProofs -----------------------
(***************************************************************************)
(* The durable executor, for any graphs, any nesting of subworkflows and   *)
(* any number of restarts.                                                 *)
(*                                                                         *)
(* Types hold whatever runs together.                                      *)
(*                                                                         *)
(* The run loop keeps the node states in memory.  As long as no two calls  *)
(* are at work on one execution (Exclusive) they are those of the database *)
(* (Own), and no action is dispatched twice, nor again once its outcome is *)
(* there (RunInv). Nothing in the code keeps two resumers of one wait      *)
(* apart; but what has only delays to wait for has only one resumer, the   *)
(* tick, which awaits every run it resumes.  For such workflows Exclusive  *)
(* is an invariant (SoleInv): a start finds no execution, the tick one     *)
(* that is due, boot recovery one that nobody works on.  Both properties   *)
(* follow for any number of calls and restarts.                            *)
(*                                                                         *)
(* At the end, the planner on its own: the waves of module PlannerWaves    *)
(* run the nodes the graph asks for.  The reference is a recursion along   *)
(* the graph; that it has a solution is Knaster and Tarski's argument, and *)
(* that the waves reach all of it an argument by the least node missing.   *)
(***************************************************************************)
EXTENDS WorkflowExecution, PlannerWaves, FiniteSetTheorems, TLAPS

----------------------------------------------------------------------------
(* Types.                                                                   *)

Stages ==
  {"idle", "load", "states", "mark", "wave", "node", "dispatch", "persist",
   "arm", "gate", "setWaiting", "child", "finalize", "resume", "find",
   "resumeNode", "resumeExec", "match", "expire", "respond", "flag"}

ActType ==
  [pc : Stages, e : Execs \cup {None}, n : Nodes \cup {None}, port : Ports,
   st : [Nodes -> NodeState], todo : SUBSET Nodes, goal : TERMINAL, tick : BOOLEAN]

\* What an activation works on at each of its stages.
OnExec(a) ==
  /\ a.pc # "idle" => a.e \in Execs
  /\ a.pc \in {"dispatch", "persist", "arm", "gate", "setWaiting", "child", "resumeNode",
               "resumeExec"} => a.n \in Nodes
  /\ a.pc \in {"node", "dispatch", "persist", "arm"} => a.todo \subseteq GraphOf[a.e].nodes
  /\ a.pc \in {"dispatch", "persist"} => a.n \in a.todo /\ Cat(a.e, a.n) \notin PAUSING
  /\ a.pc = "respond" => a.port \in {"approved", "rejected"}

Activations == {a \in ActType : OnExec(a)}

ExecType == [status : EXECUTION_ACTIVE \cup TERMINAL \cup {"absent"},
             timer : {"none", "resumeAt", "expiresAt"}]

TypeInv ==
  /\ exec \in [Execs -> ExecType]
  /\ rows \in [Execs -> [Nodes -> NodeState]]
  /\ approval \in [Execs -> {"none", "pending", "approved", "rejected", "expired"}]
  /\ act \in [Calls -> Activations]
  /\ dispatched \in [Execs -> [Nodes -> 0..2]]
  /\ orphans \subseteq Execs
  /\ restarts \in 0..MaxRestarts

LEMMA StatusTypes ==
  /\ \A s \in EXECUTION_ACTIVE \cup TERMINAL : s \in EXECUTION_ACTIVE \cup TERMINAL \cup {"absent"}
  /\ {"queued", "running", "cancelling", "waiting", "waiting_for_event", "waiting_for_approval"}
       \subseteq EXECUTION_ACTIVE
  /\ {"completed", "failed", "cancelled"} \subseteq TERMINAL
BY DEF EXECUTION_ACTIVE, TERMINAL, WAITING_STATUSES

LEMMA PortTypes ==
  {"out", "completed", "timeout", "approved", "rejected", "failure", "true", "false", "default"}
    \subseteq Ports
BY DEF Ports

LEMMA StateTypes ==
  /\ Pending \in NodeState /\ Skipped \in NodeState /\ NoStates \in [Nodes -> NodeState]
  /\ \A s \in NodeStatuses, P \in SUBSET Ports : [status |-> s, ports |-> P] \in NodeState
  /\ Pending.status = "pending" /\ Skipped.status = "skipped"
BY DEF Pending, Skipped, NoStates, NodeState, NodeStatuses

\* An activation that starts anew.
Fresh(a, p, e, n, port, g, t) ==
  /\ a \in ActType /\ a.pc = p /\ a.e = e /\ a.n = n /\ a.port = port /\ a.st = NoStates
  /\ a.todo = {} /\ a.goal = g /\ a.tick = t

LEMMA FreshIs ==
  ASSUME NEW p \in Stages \ {"dispatch", "persist"}, NEW e \in Execs \cup {None},
         NEW n \in Nodes \cup {None}, NEW port, NEW g, NEW t, NEW a, Fresh(a, p, e, n, port, g, t),
         p # "idle" => e \in Execs,
         p \in {"arm", "gate", "setWaiting", "child", "resumeNode", "resumeExec"} => n \in Nodes,
         p = "respond" => port \in {"approved", "rejected"}
  PROVE  a \in Activations
BY DEF Fresh, Activations, OnExec

LEMMA IdleIs == Fresh(Idle, "idle", None, None, "out", "completed", FALSE) /\ Idle \in Activations
<1>1. Fresh(Idle, "idle", None, None, "out", "completed", FALSE)
  <2>1. "idle" \in Stages BY DEF Stages
  <2> QED BY <2>1, StateTypes, PortTypes, StatusTypes DEF Idle, Fresh, ActType
<1>2. "idle" \in Stages \ {"dispatch", "persist"} BY DEF Stages
<1> QED BY <1>1, <1>2, FreshIs, PortTypes, StatusTypes

LEMMA TypeInit == Init => TypeInv
<1> SUFFICES ASSUME Init PROVE TypeInv OBVIOUS
<1>1. exec \in [Execs -> ExecType] BY DEF Init, ExecType
<1>2. rows \in [Execs -> [Nodes -> NodeState]] BY StateTypes DEF Init
<1>3. act \in [Calls -> Activations] BY IdleIs DEF Init
<1>4. dispatched \in [Execs -> [Nodes -> 0..2]] BY DEF Init
<1>5. restarts \in 0..MaxRestarts BY RestartAssumption DEF Init
<1> QED BY <1>1, <1>2, <1>3, <1>4, <1>5 DEF Init, TypeInv

\* A step of one activation, and what becomes of the rows it writes.
LEMMA ActivationStep ==
  ASSUME TypeInv, NEW c \in Calls, NEW a \in Activations, act' = [act EXCEPT ![c] = a],
         exec' \in [Execs -> ExecType], rows' \in [Execs -> [Nodes -> NodeState]],
         approval' \in [Execs -> {"none", "pending", "approved", "rejected", "expired"}],
         dispatched' \in [Execs -> [Nodes -> 0..2]], orphans' \subseteq Execs, UNCHANGED restarts
  PROVE  TypeInv'
BY DEF TypeInv

LEMMA StatusSet ==
  ASSUME TypeInv, NEW e \in Execs, NEW s \in EXECUTION_ACTIVE \cup TERMINAL, SetStatus(e, s)
  PROVE  exec' \in [Execs -> ExecType]
BY DEF TypeInv, SetStatus, ExecType

LEMMA RowSet ==
  ASSUME TypeInv, NEW e \in Execs, NEW n \in Nodes, NEW r \in NodeState, SetRow(e, n, r)
  PROVE  /\ rows' \in [Execs -> [Nodes -> NodeState]] /\ rows'[e][n] = r
         /\ rows'[e] = [rows[e] EXCEPT ![n] = r]
         /\ \A f \in Execs, m \in Nodes : <<f, m>> # <<e, n>> => rows'[f][m] = rows[f][m]
BY DEF TypeInv, SetRow

\* The activation goes on at another stage, with all else as it was.
Moved(a, b, p) ==
  /\ b \in ActType /\ b.pc = p /\ b.e = a.e /\ b.n = a.n /\ b.port = a.port
  /\ b.st = a.st /\ b.todo = a.todo /\ b.goal = a.goal /\ b.tick = a.tick

LEMMA Goes ==
  ASSUME TypeInv, NEW c \in Calls, NEW p \in Stages, Goto(c, p)
  PROVE  \E b : act' = [act EXCEPT ![c] = b] /\ Moved(act[c], b, p)
<1>1. act[c] \in ActType BY DEF TypeInv, Activations
<1> DEFINE b == [act[c] EXCEPT !.pc = p]
<1>2. Moved(act[c], b, p) BY <1>1 DEF Moved, ActType
<1>3. act' = [act EXCEPT ![c] = b] BY DEF Goto, TypeInv
<1> QED BY <1>2, <1>3

\* The stages that need nothing but an execution.
Plain == Stages \ {"idle", "node", "dispatch", "persist", "arm", "gate", "setWaiting", "child",
                   "resumeNode", "resumeExec", "respond"}

LEMMA GoesPlainly ==
  ASSUME TypeInv, NEW c \in Calls, act[c].pc # "idle", NEW p \in Plain, Goto(c, p)
  PROVE  \E b \in Activations : act' = [act EXCEPT ![c] = b] /\ Moved(act[c], b, p)
<1>1. PICK b : act' = [act EXCEPT ![c] = b] /\ Moved(act[c], b, p) BY Goes DEF Plain
<1>2. act[c].e \in Execs BY DEF TypeInv, Activations, OnExec
<1>3. OnExec(b) BY <1>1, <1>2 DEF Moved, OnExec, Plain
<1> QED BY <1>1, <1>3 DEF Moved, Activations

\* Another stage at the same node.
LEMMA GoesAtNode ==
  ASSUME TypeInv, NEW c \in Calls, act[c].pc # "idle", act[c].n \in Nodes,
         NEW p \in {"gate", "setWaiting", "child", "resumeNode", "resumeExec"}, Goto(c, p)
  PROVE  \E b \in Activations : act' = [act EXCEPT ![c] = b] /\ Moved(act[c], b, p)
<1>1. PICK b : act' = [act EXCEPT ![c] = b] /\ Moved(act[c], b, p) BY Goes DEF Stages
<1>2. act[c].e \in Execs BY DEF TypeInv, Activations, OnExec
<1>3. OnExec(b) BY <1>1, <1>2 DEF Moved, OnExec
<1> QED BY <1>1, <1>3 DEF Moved, Activations

LEMMA Returns ==
  ASSUME TypeInv, NEW c \in Calls, Return(c)
  PROVE  act' = [act EXCEPT ![c] = Idle] /\ Idle \in Activations
BY IdleIs DEF Return

LEMMA BeginIs ==
  ASSUME TypeInv, NEW c \in Calls, NEW p \in {"load", "match", "respond"}, NEW e \in Execs,
         NEW port \in Ports, p = "respond" => port \in {"approved", "rejected"},
         Begin(c, p, e, port)
  PROVE  \E b \in Activations :
           act' = [act EXCEPT ![c] = b] /\ Fresh(b, p, e, None, port, "completed", FALSE)
<1> DEFINE b == [Idle EXCEPT !.pc = p, !.e = e, !.port = port]
<1>1. act' = [act EXCEPT ![c] = b] BY DEF Begin
<1>2. p \in Stages \ {"dispatch", "persist"} BY DEF Stages
<1>3. Fresh(b, p, e, None, port, "completed", FALSE) BY <1>2, IdleIs DEF Fresh, ActType
<1> HIDE DEF b
<1>4. b \in Activations BY <1>2, <1>3, FreshIs
<1> QED BY <1>1, <1>3, <1>4

\* Only the activation moves.
LEMMA OnlyActs ==
  ASSUME TypeInv, NEW c \in Calls, NEW b \in Activations, act' = [act EXCEPT ![c] = b],
         UNCHANGED <<exec, rows, approval, dispatched, orphans, restarts>>
  PROVE  TypeInv'
BY DEF TypeInv

LEMMA LoopTypes ==
  ASSUME TypeInv, NEW c \in Calls, Load(c) \/ LoadStates(c) \/ MarkRunning(c) PROVE TypeInv'
<1>1. act[c] \in ActType /\ OnExec(act[c]) BY DEF TypeInv, Activations
<1>2. CASE Load(c)
  <2>1. act[c].pc = "load" /\ UNCHANGED <<exec, rows, approval, dispatched, orphans, restarts>>
    BY <1>2 DEF Load, At
  <2>2. CASE Goto(c, "states")
    <3>1. "states" \in Plain BY DEF Plain, Stages
    <3> QED BY <2>1, <2>2, <3>1, GoesPlainly, OnlyActs
  <2>3. CASE Return(c) BY <2>1, <2>3, Returns, OnlyActs
  <2> QED BY <1>2, <2>2, <2>3 DEF Load
<1>3. CASE LoadStates(c)
  <2>1. act[c].pc = "states" /\ UNCHANGED <<exec, rows, approval, dispatched, orphans, restarts>>
    BY <1>3 DEF LoadStates, At
  <2>2. act[c].e \in Execs BY <1>1, <2>1 DEF OnExec
  <2>3. rows[act[c].e] \in [Nodes -> NodeState] BY <2>2 DEF TypeInv
  <2> DEFINE b == [act[c] EXCEPT !.pc = "mark", !.st = rows[act[c].e]]
  <2>4. b \in ActType /\ b.pc = "mark" /\ b.e = act[c].e BY <1>1, <2>3 DEF ActType, Stages
  <2>5. act' = [act EXCEPT ![c] = b] BY <1>3 DEF LoadStates
  <2> HIDE DEF b
  <2>6. b \in Activations BY <2>2, <2>4 DEF Activations, OnExec
  <2> QED BY <2>1, <2>5, <2>6, OnlyActs
<1>4. CASE MarkRunning(c)
  <2>1. /\ act[c].pc = "mark" /\ SetStatus(act[c].e, "running") /\ Goto(c, "wave")
        /\ UNCHANGED <<rows, approval, dispatched, orphans, restarts>>
    BY <1>4 DEF MarkRunning, At
  <2>2. act[c].e \in Execs /\ "wave" \in Plain BY <1>1, <2>1 DEF OnExec, Plain, Stages
  <2>3. exec' \in [Execs -> ExecType] BY <2>1, <2>2, StatusSet, StatusTypes
  <2>4. PICK b \in Activations : act' = [act EXCEPT ![c] = b] BY <2>1, <2>2, GoesPlainly
  <2> QED BY <2>1, <2>3, <2>4, ActivationStep DEF TypeInv
<1> QED BY <1>2, <1>3, <1>4

\* The states of a wave after its dead nodes are skipped.
Pruned(D, s) == [n \in Nodes |-> IF n \in D THEN Skipped ELSE s[n]]

LEMMA PrunedIs ==
  ASSUME NEW D, NEW s \in [Nodes -> NodeState] PROVE Pruned(D, s) \in [Nodes -> NodeState]
BY StateTypes DEF Pruned

\* A wave: cancelled, or planned.
LEMMA WaveIs ==
  ASSUME TypeInv, NEW c \in Calls, Wave(c)
  PROVE  /\ act[c].e \in Execs
         /\ UNCHANGED <<exec, approval, dispatched, orphans, restarts>>
         /\ \E b \in Activations :
              /\ act' = [act EXCEPT ![c] = b] /\ b.e = act[c].e /\ b.tick = act[c].tick
              /\ \/ b.pc = "finalize" /\ b.goal = "cancelled" /\ UNCHANGED rows
                 \/ /\ b.pc \in {"node", "finalize", "wave"} /\ b.goal = "completed"
                    /\ b.todo = Ready(GraphOf[b.e], act[c].st)
                    /\ b.st = Pruned(Dead(GraphOf[b.e], act[c].st), act[c].st)
                    /\ rows' = [rows EXCEPT ![b.e] =
                                  Pruned(Dead(GraphOf[b.e], act[c].st), rows[b.e])]
<1>1. act[c] \in ActType /\ OnExec(act[c]) BY DEF TypeInv, Activations
<1>2. act[c].pc = "wave" /\ UNCHANGED <<exec, approval, dispatched, orphans, restarts>>
  BY DEF Wave, At
<1>3. PICK e \in Execs : e = act[c].e BY <1>1, <1>2 DEF OnExec
<1>4. CASE Status(e) = "cancelling"
  <2> DEFINE b == [act[c] EXCEPT !.pc = "finalize", !.goal = "cancelled"]
  <2>1. act' = [act EXCEPT ![c] = b] /\ UNCHANGED rows BY <1>3, <1>4 DEF Wave
  <2>2. /\ b \in ActType /\ b.pc = "finalize" /\ b.e = e /\ b.goal = "cancelled"
        /\ b.tick = act[c].tick
    BY <1>1, <1>3, StatusTypes DEF ActType, Stages
  <2> HIDE DEF b
  <2>3. b \in Activations BY <2>2 DEF Activations, OnExec
  <2> QED BY <1>2, <1>3, <2>1, <2>2, <2>3
<1>5. CASE Status(e) # "cancelling"
  <2>1. PICK g : g = GraphOf[e] OBVIOUS
  <2>2. PICK ready : ready = Ready(g, act[c].st) OBVIOUS
  <2>3. PICK s : s = Pruned(Dead(g, act[c].st), act[c].st) OBVIOUS
  <2>4. PICK p \in {"node", "finalize", "wave"} :
          p = IF ready # {} THEN "node"
              ELSE IF Quiescent(g, act[c].st) \/ Dead(g, act[c].st) = {} THEN "finalize"
              ELSE "wave"
    OBVIOUS
  <2> DEFINE b == [act[c] EXCEPT !.st = s, !.todo = ready, !.pc = p, !.goal = "completed"]
  <2>5. act' = [act EXCEPT ![c] = b]
    BY <1>3, <1>5, <2>1, <2>2, <2>3, <2>4 DEF Wave, Pruned
  <2>6. rows' = [rows EXCEPT ![e] = Pruned(Dead(g, act[c].st), rows[e])]
    BY <1>3, <1>5, <2>1 DEF Wave, Pruned
  <2>7. ready \subseteq g.nodes /\ g.nodes \subseteq Nodes
    BY <2>1, <2>2, GraphAssumption DEF Ready
  <2>8. s \in [Nodes -> NodeState]
    <3>1. act[c].st \in [Nodes -> NodeState] BY <1>1 DEF ActType
    <3> QED BY <2>3, <3>1, PrunedIs
  <2>9. /\ b \in ActType /\ b.pc = p /\ b.e = e /\ b.todo = ready /\ b.st = s
        /\ b.goal = "completed" /\ b.tick = act[c].tick
    BY <1>1, <1>3, <2>7, <2>8, StatusTypes DEF ActType, Stages
  <2> HIDE DEF b
  <2>10. b \in Activations BY <2>1, <2>7, <2>9 DEF Activations, OnExec
  <2> QED BY <1>2, <1>3, <2>1, <2>2, <2>3, <2>5, <2>6, <2>9, <2>10
<1> QED BY <1>4, <1>5

LEMMA WaveTypes == ASSUME TypeInv, NEW c \in Calls, Wave(c) PROVE TypeInv'
<1>1. PICK b \in Activations :
        /\ act' = [act EXCEPT ![c] = b] /\ b.e \in Execs
        /\ UNCHANGED rows \/ \E D : rows' = [rows EXCEPT ![b.e] = Pruned(D, rows[b.e])]
  BY WaveIs
<1>2. rows' \in [Execs -> [Nodes -> NodeState]]
  <2>1. rows \in [Execs -> [Nodes -> NodeState]] BY DEF TypeInv
  <2>2. rows[b.e] \in [Nodes -> NodeState] BY <1>1, <2>1
  <2>3. \A D : Pruned(D, rows[b.e]) \in [Nodes -> NodeState] BY <2>2, PrunedIs
  <2> QED BY <1>1, <2>1, <2>3
<1>3. UNCHANGED <<exec, approval, dispatched, orphans, restarts>> BY WaveIs
<1> QED BY <1>1, <1>2, <1>3, ActivationStep DEF TypeInv

\* The node the loop takes up.
LEMMA TakeIs ==
  ASSUME TypeInv, NEW c \in Calls, TakeNode(c)
  PROVE  /\ act[c].pc = "node"
         /\ UNCHANGED <<exec, rows, approval, dispatched, orphans, restarts>>
         /\ \E b \in Activations :
              /\ act' = [act EXCEPT ![c] = b]
              /\ b.pc \in {"arm", "dispatch", "persist"} /\ b.e = act[c].e /\ b.n \in act[c].todo
              /\ b.st = act[c].st /\ b.todo = act[c].todo
              /\ b.pc # "arm" => Cat(b.e, b.n) \notin PAUSING
              /\ b.pc = "persist" => Cat(b.e, b.n) # "action"
<1>1. act[c] \in ActType /\ OnExec(act[c]) BY DEF TypeInv, Activations
<1>2. act[c].pc = "node" /\ UNCHANGED <<exec, rows, approval, dispatched, orphans, restarts>>
  BY DEF TakeNode, At
<1>3. PICK n \in act[c].todo :
        act' = [act EXCEPT ![c] = [@ EXCEPT
                 !.n = n,
                 !.pc = CASE Cat(act[c].e, n) \in PAUSING -> "arm"
                          [] Cat(act[c].e, n) = "action" -> "dispatch"
                          [] OTHER -> "persist"]]
  BY DEF TakeNode
<1>4. "action" \notin PAUSING BY DEF PAUSING
<1>5. PICK p \in {"arm", "dispatch", "persist"} :
        /\ p = CASE Cat(act[c].e, n) \in PAUSING -> "arm"
                 [] Cat(act[c].e, n) = "action" -> "dispatch"
                 [] OTHER -> "persist"
        /\ p # "arm" => Cat(act[c].e, n) \notin PAUSING
        /\ p = "persist" => Cat(act[c].e, n) # "action"
  <2>1. CASE Cat(act[c].e, n) \in PAUSING BY <1>4, <2>1
  <2>2. CASE Cat(act[c].e, n) = "action" BY <1>4, <2>2
  <2>3. CASE Cat(act[c].e, n) \notin PAUSING /\ Cat(act[c].e, n) # "action" BY <2>3
  <2> QED BY <2>1, <2>2, <2>3
<1> DEFINE b == [act[c] EXCEPT !.n = n, !.pc = p]
<1>6. act' = [act EXCEPT ![c] = b] BY <1>3, <1>5
<1>7. n \in Nodes BY <1>1 DEF ActType
<1>8. /\ b \in ActType /\ b.pc = p /\ b.e = act[c].e /\ b.n = n /\ b.st = act[c].st
      /\ b.todo = act[c].todo
  BY <1>1, <1>7 DEF ActType, Stages
<1> HIDE DEF b
<1>9. b \in Activations BY <1>1, <1>2, <1>5, <1>7, <1>8 DEF Activations, OnExec
<1> QED BY <1>2, <1>5, <1>6, <1>8, <1>9

LEMMA TakeTypes == ASSUME TypeInv, NEW c \in Calls, TakeNode(c) PROVE TypeInv'
BY TakeIs, OnlyActs

LEMMA DispatchIs ==
  ASSUME TypeInv, NEW c \in Calls, DispatchAction(c)
  PROVE  /\ act[c].pc = "dispatch" /\ act[c].e \in Execs /\ act[c].n \in Nodes
         /\ UNCHANGED <<exec, rows, approval, orphans, restarts>>
         /\ \E b \in Activations : act' = [act EXCEPT ![c] = b] /\ Moved(act[c], b, "persist")
         /\ \E k \in 0..2 :
              /\ dispatched' = [dispatched EXCEPT ![act[c].e][act[c].n] = k]
              /\ dispatched[act[c].e][act[c].n] = 0 => k = 1
<1>1. act[c] \in ActType /\ OnExec(act[c]) BY DEF TypeInv, Activations
<1>2. /\ act[c].pc = "dispatch" /\ Goto(c, "persist")
      /\ UNCHANGED <<exec, rows, approval, orphans, restarts>>
  BY DEF DispatchAction, At
<1>3. act[c].e \in Execs /\ act[c].n \in Nodes BY <1>1, <1>2 DEF OnExec
<1>4. PICK b : act' = [act EXCEPT ![c] = b] /\ Moved(act[c], b, "persist") BY <1>2, Goes DEF Stages
<1>5. b \in Activations BY <1>1, <1>2, <1>3, <1>4 DEF Moved, Activations, OnExec
<1>6. PICK k : k = LET m == dispatched[act[c].e][act[c].n] IN IF m < 2 THEN m + 1 ELSE m OBVIOUS
<1>7. dispatched[act[c].e][act[c].n] \in 0..2 BY <1>3 DEF TypeInv
<1>8. k \in 0..2 /\ (dispatched[act[c].e][act[c].n] = 0 => k = 1) BY <1>6, <1>7
<1>9. dispatched' = [dispatched EXCEPT ![act[c].e][act[c].n] = k] BY <1>6 DEF DispatchAction
<1> QED BY <1>2, <1>3, <1>4, <1>5, <1>8, <1>9

LEMMA DispatchTypes == ASSUME TypeInv, NEW c \in Calls, DispatchAction(c) PROVE TypeInv'
<1>1. PICK b \in Activations : act' = [act EXCEPT ![c] = b] BY DispatchIs
<1>2. dispatched' \in [Execs -> [Nodes -> 0..2]]
  <2>1. PICK k \in 0..2 : dispatched' = [dispatched EXCEPT ![act[c].e][act[c].n] = k] BY DispatchIs
  <2>2. PICK T : T = 0..2 OBVIOUS
  <2>3. k \in T /\ dispatched \in [Execs -> [Nodes -> T]] BY <2>2 DEF TypeInv
  <2> QED BY <2>1, <2>2, <2>3
<1>3. UNCHANGED <<exec, rows, approval, orphans, restarts>> BY DispatchIs
<1> QED BY <1>1, <1>2, <1>3, ActivationStep DEF TypeInv

\* A node ends succeeded or failed, down ports of the graph.
LEMMA OutcomesAre ==
  ASSUME NEW e \in Execs, NEW n \in GraphOf[e].nodes, Cat(e, n) \notin PAUSING,
         NEW o \in Outcomes(e, n)
  PROVE  o \in NodeState /\ o.status \in {"succeeded", "failed"}
<1>1. PICK outs : outs = {x.port : x \in {y \in GraphOf[e].edges : y.src = n}} OBVIOUS
<1>2. outs \subseteq Ports BY <1>1 DEF Ports
<1>3. Cat(e, n) \in {"condition", "end", "action", "branch", "transform", "parallel", "join",
                     "trigger", "variable"}
  BY GraphAssumption DEF Cat, Categories, PAUSING
<1>4. \E P \in SUBSET Ports : \E st \in {"succeeded", "failed"} : o = [status |-> st, ports |-> P]
  <2>1. CASE Cat(e, n) = "condition" BY <2>1, PortTypes DEF Outcomes
  <2>2. CASE Cat(e, n) = "end" BY <2>2 DEF Outcomes
  <2>3. CASE Cat(e, n) = "action" BY <2>3, PortTypes DEF Outcomes
  <2>4. CASE Cat(e, n) = "branch"
    <3>1. PICK q \in outs \cup {"default"} : o = [status |-> "succeeded", ports |-> {q}]
      BY <1>1, <2>4 DEF Outcomes
    <3> QED BY <1>2, <3>1, PortTypes
  <2>5. CASE Cat(e, n) \in {"transform", "parallel", "join"}
    <3>1. o = [status |-> "succeeded", ports |-> outs] BY <1>1, <2>5 DEF Outcomes
    <3> QED BY <1>2, <3>1
  <2>6. CASE Cat(e, n) \in {"trigger", "variable"} BY <2>6, PortTypes DEF Outcomes
  <2> QED BY <1>3, <2>1, <2>2, <2>3, <2>4, <2>5, <2>6
<1> QED BY <1>4 DEF NodeState, NodeStatuses

LEMMA PersistIs ==
  ASSUME TypeInv, NEW c \in Calls, PersistNode(c)
  PROVE  /\ act[c].pc = "persist" /\ act[c].e \in Execs /\ act[c].n \in Nodes
         /\ UNCHANGED <<exec, approval, dispatched, orphans, restarts>>
         /\ \E o \in NodeState :
              /\ o.status \in {"succeeded", "failed"} /\ SetRow(act[c].e, act[c].n, o)
              /\ \E b \in Activations :
                   /\ act' = [act EXCEPT ![c] = b]
                   /\ b.pc \in {"finalize", "node", "wave"} /\ b.e = act[c].e /\ b.tick = act[c].tick
                   /\ b.todo = act[c].todo \ {act[c].n}
                   /\ b.st = [act[c].st EXCEPT ![act[c].n] = o]
                   /\ o.status = "failed" /\ ~HasFailureEdge(act[c].e, act[c].n)
                        => b.pc = "finalize" /\ b.goal = "failed"
<1>1. act[c] \in ActType /\ OnExec(act[c]) BY DEF TypeInv, Activations
<1>2. act[c].pc = "persist" /\ UNCHANGED <<exec, approval, dispatched, orphans, restarts>>
  BY DEF PersistNode, At
<1>3. PICK e \in Execs : e = act[c].e BY <1>1, <1>2 DEF OnExec
<1>4. PICK n \in Nodes : n = act[c].n BY <1>1, <1>2 DEF OnExec
<1>5. n \in GraphOf[e].nodes /\ Cat(e, n) \notin PAUSING BY <1>1, <1>2, <1>3, <1>4 DEF OnExec
<1>6. PICK rest : rest = act[c].todo \ {n} OBVIOUS
<1>7. PICK o \in Outcomes(act[c].e, act[c].n) :
        LET broken == o.status = "failed" /\ ~HasFailureEdge(act[c].e, act[c].n)
        IN /\ SetRow(act[c].e, act[c].n, o)
           /\ act' = [act EXCEPT ![c] = [@ EXCEPT
                          !.st = [act[c].st EXCEPT ![act[c].n] = o],
                          !.todo = act[c].todo \ {act[c].n}, !.n = None,
                          !.goal = IF broken THEN "failed" ELSE act[c].goal,
                          !.pc = IF broken THEN "finalize"
                                 ELSE IF act[c].todo \ {act[c].n} # {} THEN "node" ELSE "wave"]]
  BY Zenon DEF PersistNode
<1>8. o \in NodeState /\ o.status \in {"succeeded", "failed"} BY <1>3, <1>4, <1>5, OutcomesAre
<1>9. PICK broken : broken = (o.status = "failed" /\ ~HasFailureEdge(e, n)) OBVIOUS
<1>10. PICK p \in {"finalize", "node", "wave"} :
         p = IF broken THEN "finalize" ELSE IF rest # {} THEN "node" ELSE "wave"
  OBVIOUS
<1>11. PICK g \in TERMINAL : g = IF broken THEN "failed" ELSE act[c].goal
  <2>1. act[c].goal \in TERMINAL BY <1>1 DEF ActType
  <2> QED BY <2>1, StatusTypes
<1>12. PICK s : s = [act[c].st EXCEPT ![n] = o] OBVIOUS
<1> DEFINE b == [act[c] EXCEPT !.st = s, !.todo = rest, !.n = None, !.goal = g, !.pc = p]
<1>13. act' = [act EXCEPT ![c] = b] BY <1>3, <1>4, <1>6, <1>7, <1>9, <1>10, <1>11, <1>12
<1>14. s \in [Nodes -> NodeState]
  <2>1. act[c].st \in [Nodes -> NodeState] BY <1>1 DEF ActType
  <2> QED BY <1>8, <1>12, <2>1
<1>15. rest \subseteq Nodes /\ rest \subseteq GraphOf[e].nodes
  BY <1>1, <1>2, <1>3, <1>6 DEF ActType, OnExec
<1>16. /\ b \in ActType /\ b.pc = p /\ b.e = e /\ b.todo = rest /\ b.st = s /\ b.goal = g
       /\ b.tick = act[c].tick
  BY <1>1, <1>3, <1>14, <1>15 DEF ActType, Stages
<1> HIDE DEF b
<1>17. b \in Activations BY <1>15, <1>16 DEF Activations, OnExec
<1>18. SetRow(e, n, o) BY <1>3, <1>4, <1>7
<1>19. o.status = "failed" /\ ~HasFailureEdge(e, n) => p = "finalize" /\ g = "failed"
  BY <1>9, <1>10, <1>11
<1>20. \E x \in Activations :
         /\ act' = [act EXCEPT ![c] = x]
         /\ x.pc \in {"finalize", "node", "wave"} /\ x.e = act[c].e /\ x.tick = act[c].tick
         /\ x.todo = act[c].todo \ {act[c].n}
         /\ x.st = [act[c].st EXCEPT ![act[c].n] = o]
         /\ o.status = "failed" /\ ~HasFailureEdge(act[c].e, act[c].n)
              => x.pc = "finalize" /\ x.goal = "failed"
  BY <1>3, <1>4, <1>6, <1>10, <1>12, <1>13, <1>16, <1>17, <1>19
<1> QED BY <1>2, <1>3, <1>4, <1>8, <1>18, <1>20

LEMMA PersistTypes == ASSUME TypeInv, NEW c \in Calls, PersistNode(c) PROVE TypeInv'
<1>1. PICK b \in Activations : act' = [act EXCEPT ![c] = b] BY PersistIs
<1>2. rows' \in [Execs -> [Nodes -> NodeState]] BY PersistIs, RowSet
<1>3. UNCHANGED <<exec, approval, dispatched, orphans, restarts>> BY PersistIs
<1> QED BY <1>1, <1>2, <1>3, ActivationStep DEF TypeInv

\* armWait.
LEMMA ArmTypes ==
  ASSUME TypeInv, NEW c \in Calls, Arm(c) \/ CreateApproval(c) \/ SetWaiting(c) PROVE TypeInv'
<1>1. act[c] \in ActType /\ OnExec(act[c]) BY DEF TypeInv, Activations
<1>2. act[c].pc \in {"arm", "gate", "setWaiting"} BY DEF Arm, CreateApproval, SetWaiting, At
<1>3. act[c].e \in Execs /\ act[c].n \in Nodes BY <1>1, <1>2 DEF OnExec
<1>4. CASE Arm(c)
  <2>1. PICK p \in {"gate", "setWaiting"} : Goto(c, p) BY <1>4 DEF Arm
  <2>2. PICK b \in Activations : act' = [act EXCEPT ![c] = b] BY <1>2, <1>3, <2>1, GoesAtNode
  <2>3. [status |-> "waiting", ports |-> {}] \in NodeState BY StateTypes DEF NodeStatuses
  <2>4. rows' \in [Execs -> [Nodes -> NodeState]] BY <1>3, <1>4, <2>3, RowSet DEF Arm
  <2>5. UNCHANGED <<exec, approval, dispatched, orphans, restarts>> BY <1>4 DEF Arm
  <2> QED BY <2>2, <2>4, <2>5, ActivationStep DEF TypeInv
<1>5. CASE CreateApproval(c)
  <2>1. PICK b \in Activations : act' = [act EXCEPT ![c] = b]
    BY <1>2, <1>3, <1>5, GoesAtNode DEF CreateApproval
  <2>2. approval' \in [Execs -> {"none", "pending", "approved", "rejected", "expired"}]
    BY <1>5 DEF CreateApproval, TypeInv
  <2>3. UNCHANGED <<exec, rows, dispatched, orphans, restarts>> BY <1>5 DEF CreateApproval
  <2> QED BY <2>1, <2>2, <2>3, ActivationStep DEF TypeInv
<1>6. CASE SetWaiting(c)
  <2>1. PICK s \in {"waiting", "waiting_for_event", "waiting_for_approval"},
            t \in {"none", "resumeAt", "expiresAt"} :
          exec' = [exec EXCEPT ![act[c].e] = [status |-> s, timer |-> t]]
    <3>1. PICK s \in {"waiting", "waiting_for_event", "waiting_for_approval"} :
            s = CASE Cat(act[c].e, act[c].n) = "wait"     -> "waiting_for_event"
                  [] Cat(act[c].e, act[c].n) = "approval" -> "waiting_for_approval"
                  [] OTHER            -> "waiting"
      OBVIOUS
    <3>2. PICK t \in {"none", "resumeAt", "expiresAt"} :
            t = IF Cat(act[c].e, act[c].n) = "delay" THEN "resumeAt"
                ELSE IF act[c].n \in GraphOf[act[c].e].timed THEN "expiresAt" ELSE "none"
      OBVIOUS
    <3> QED BY <1>6, <3>1, <3>2 DEF SetWaiting
  <2>2. exec' \in [Execs -> ExecType]
    <3>1. [status |-> s, timer |-> t] \in ExecType BY StatusTypes DEF ExecType
    <3> QED BY <2>1, <3>1 DEF TypeInv
  <2>3. PICK b \in Activations : act' = [act EXCEPT ![c] = b]
    <3>1. Goto(c, "child") \/ Return(c) BY <1>6 DEF SetWaiting
    <3> QED BY <1>2, <1>3, <3>1, GoesAtNode, Returns
  <2>4. UNCHANGED <<rows, approval, dispatched, orphans, restarts>> BY <1>6 DEF SetWaiting
  <2> QED BY <2>2, <2>3, <2>4, ActivationStep DEF TypeInv
<1> QED BY <1>4, <1>5, <1>6

LEMMA ChildTypes == ASSUME TypeInv, NEW c \in Calls, StartChild(c) PROVE TypeInv'
<1>1. act[c] \in ActType /\ OnExec(act[c]) BY DEF TypeInv, Activations
<1>2. act[c].pc = "child" /\ UNCHANGED <<rows, approval, dispatched, orphans, restarts>>
  BY DEF StartChild, At
<1>3. act[c].e \in Execs /\ act[c].n \in Nodes BY <1>1, <1>2 DEF OnExec
<1>4. ASSUME NEW x \in Execs, SetStatus(x, "queued"),
             act' = [act EXCEPT ![c] = [Idle EXCEPT !.pc = "load", !.e = x]]
      PROVE  TypeInv'
  <2> DEFINE b == [Idle EXCEPT !.pc = "load", !.e = x]
  <2>1. act' = [act EXCEPT ![c] = b] BY <1>4
  <2>2. "load" \in Stages \ {"dispatch", "persist"} BY DEF Stages
  <2>3. Fresh(b, "load", x, None, "out", "completed", FALSE) BY <2>2, IdleIs DEF Fresh, ActType
  <2> HIDE DEF b
  <2>4. b \in Activations BY <2>2, <2>3, FreshIs
  <2>5. exec' \in [Execs -> ExecType] BY <1>4, StatusSet, StatusTypes
  <2> QED BY <1>2, <2>1, <2>4, <2>5, ActivationStep DEF TypeInv
<1>5. ASSUME act' = [act EXCEPT ![c] = [@ EXCEPT !.pc = "resumeNode", !.port = "failure"]],
             UNCHANGED exec
      PROVE  TypeInv'
  <2> DEFINE b == [act[c] EXCEPT !.pc = "resumeNode", !.port = "failure"]
  <2>1. act' = [act EXCEPT ![c] = b] BY <1>5
  <2>2. b \in ActType /\ b.pc = "resumeNode" /\ b.e = act[c].e /\ b.n = act[c].n
    BY <1>1, PortTypes DEF ActType, Stages
  <2> HIDE DEF b
  <2>3. b \in Activations BY <1>3, <2>2 DEF Activations, OnExec
  <2> QED BY <1>2, <1>5, <2>1, <2>3, OnlyActs
<1> QED BY <1>4, <1>5 DEF StartChild

LEMMA FinalizeTypes == ASSUME TypeInv, NEW c \in Calls, Finalize(c) PROVE TypeInv'
<1>1. act[c] \in ActType /\ OnExec(act[c]) BY DEF TypeInv, Activations
<1>2. act[c].pc = "finalize" /\ UNCHANGED <<rows, approval, dispatched, orphans, restarts>>
  BY DEF Finalize, At
<1>3. PICK e \in Execs : e = act[c].e BY <1>1, <1>2 DEF OnExec
<1>4. act[c].goal \in TERMINAL /\ act[c].tick \in BOOLEAN BY <1>1 DEF ActType
<1>5. exec' \in [Execs -> ExecType] BY <1>3, <1>4, StatusSet DEF Finalize
<1>6. \E b \in Activations : act' = [act EXCEPT ![c] = b]
  <2>1. CASE Parent[e] = None BY <1>3, <2>1, Returns DEF Finalize
  <2>2. CASE Parent[e] # None
    <3>1. PICK f \in Execs, n \in Nodes : f = Parent[e][1] /\ n = Parent[e][2]
      BY <2>2, ParentAssumption
    <3>2. PICK port \in Ports : port = IF act[c].goal = "completed" THEN "out" ELSE "failure"
      BY PortTypes
    <3>3. PICK t \in BOOLEAN : t = act[c].tick BY <1>4
    <3> DEFINE b == [Idle EXCEPT !.pc = "resumeNode", !.e = f, !.n = n, !.tick = t, !.port = port]
    <3>4. act' = [act EXCEPT ![c] = b] BY <1>3, <2>2, <3>1, <3>2, <3>3 DEF Finalize
    <3>5. "resumeNode" \in Stages \ {"dispatch", "persist"} BY DEF Stages
    <3>6. Fresh(b, "resumeNode", f, n, port, "completed", t) BY <3>5, IdleIs DEF Fresh, ActType
    <3> HIDE DEF b
    <3>7. b \in Activations BY <3>5, <3>6, FreshIs
    <3> QED BY <3>4, <3>7
  <2> QED BY <2>1, <2>2
<1> QED BY <1>2, <1>5, <1>6, ActivationStep DEF TypeInv

LEMMA ResumeTypes ==
  ASSUME TypeInv, NEW c \in Calls, Resume(c) \/ FindWaiting(c) \/ ResumeNode(c) \/ ResumeExec(c)
  PROVE  TypeInv'
<1>1. act[c] \in ActType /\ OnExec(act[c]) BY DEF TypeInv, Activations
<1>2. act[c].pc # "idle" BY DEF Resume, FindWaiting, ResumeNode, ResumeExec, At
<1>3. PICK e \in Execs : e = act[c].e BY <1>1, <1>2 DEF OnExec
<1>4. CASE Resume(c)
  <2>1. UNCHANGED <<exec, rows, approval, dispatched, orphans, restarts>> BY <1>4 DEF Resume
  <2>2. Goto(c, "find") \/ Return(c) BY <1>4 DEF Resume
  <2>3. "find" \in Plain BY DEF Plain, Stages
  <2> QED BY <1>2, <2>1, <2>2, <2>3, GoesPlainly, Returns, OnlyActs
<1>5. CASE FindWaiting(c)
  <2>1. UNCHANGED <<exec, rows, approval, dispatched, orphans, restarts>> BY <1>5 DEF FindWaiting
  <2>2. ASSUME NEW n \in Nodes, act' = [act EXCEPT ![c] = [@ EXCEPT !.n = n, !.pc = "resumeNode"]]
        PROVE  TypeInv'
    <3> DEFINE b == [act[c] EXCEPT !.n = n, !.pc = "resumeNode"]
    <3>1. act' = [act EXCEPT ![c] = b] BY <2>2
    <3>2. b \in ActType /\ b.pc = "resumeNode" /\ b.e = act[c].e /\ b.n = n
      BY <1>1 DEF ActType, Stages
    <3> HIDE DEF b
    <3>3. b \in Activations BY <1>3, <3>2 DEF Activations, OnExec
    <3> QED BY <2>1, <3>1, <3>3, OnlyActs
  <2>3. CASE Return(c) BY <2>1, <2>3, Returns, OnlyActs
  <2> QED BY <1>5, <2>2, <2>3 DEF FindWaiting
<1>6. CASE ResumeNode(c)
  <2>1. act[c].n \in Nodes /\ act[c].port \in Ports BY <1>1, <1>6 DEF ResumeNode, At, OnExec, ActType
  <2>2. [status |-> "succeeded", ports |-> {act[c].port}] \in NodeState
    BY <2>1, StateTypes DEF NodeStatuses
  <2>3. rows' \in [Execs -> [Nodes -> NodeState]] BY <1>3, <1>6, <2>1, <2>2, RowSet DEF ResumeNode
  <2>4. PICK b \in Activations : act' = [act EXCEPT ![c] = b]
    BY <1>2, <1>6, <2>1, GoesAtNode DEF ResumeNode
  <2>5. UNCHANGED <<exec, approval, dispatched, orphans, restarts>> BY <1>6 DEF ResumeNode
  <2> QED BY <2>3, <2>4, <2>5, ActivationStep DEF TypeInv
<1>7. CASE ResumeExec(c)
  <2>1. PICK t \in BOOLEAN : t = act[c].tick BY <1>1 DEF ActType
  <2> DEFINE b == [Idle EXCEPT !.pc = "load", !.e = e, !.tick = t]
  <2>2. act' = [act EXCEPT ![c] = b] BY <1>3, <1>7, <2>1 DEF ResumeExec
  <2>3. "load" \in Stages \ {"dispatch", "persist"} BY DEF Stages
  <2>4. Fresh(b, "load", e, None, "out", "completed", t) BY <2>3, IdleIs DEF Fresh, ActType
  <2> HIDE DEF b
  <2>5. b \in Activations BY <2>3, <2>4, FreshIs
  <2>6. exec' \in [Execs -> ExecType]
    <3>1. [status |-> "running", timer |-> "none"] \in ExecType BY StatusTypes DEF ExecType
    <3> QED BY <1>7, <3>1 DEF ResumeExec, TypeInv
  <2>7. UNCHANGED <<rows, approval, dispatched, orphans, restarts>> BY <1>7 DEF ResumeExec
  <2> QED BY <2>2, <2>5, <2>6, <2>7, ActivationStep DEF TypeInv
<1> QED BY <1>4, <1>5, <1>6, <1>7

LEMMA GateTypes ==
  ASSUME TypeInv, NEW c \in Calls,
         ExpireApproval(c) \/ MatchEvent(c) \/ RecordDecision(c) \/ FlagCancelling(c)
  PROVE  TypeInv'
<1>1. act[c] \in ActType /\ OnExec(act[c]) BY DEF TypeInv, Activations
<1>2. act[c].pc # "idle" BY DEF ExpireApproval, MatchEvent, RecordDecision, FlagCancelling, At
<1>3. PICK e \in Execs : e = act[c].e BY <1>1, <1>2 DEF OnExec
<1>4. "resume" \in Plain BY DEF Plain, Stages
<1>5. CASE ExpireApproval(c)
  <2>1. PICK b \in Activations : act' = [act EXCEPT ![c] = b]
    BY <1>2, <1>4, <1>5, GoesPlainly DEF ExpireApproval
  <2>2. approval' \in [Execs -> {"none", "pending", "approved", "rejected", "expired"}]
    BY <1>5 DEF ExpireApproval, TypeInv
  <2>3. UNCHANGED <<exec, rows, dispatched, orphans, restarts>> BY <1>5 DEF ExpireApproval
  <2> QED BY <2>1, <2>2, <2>3, ActivationStep DEF TypeInv
<1>6. CASE MatchEvent(c)
  <2>1. Goto(c, "resume") \/ Return(c) BY <1>6 DEF MatchEvent
  <2>2. UNCHANGED <<exec, rows, approval, dispatched, orphans, restarts>> BY <1>6 DEF MatchEvent
  <2> QED BY <1>2, <1>4, <2>1, <2>2, GoesPlainly, Returns, OnlyActs
<1>7. CASE RecordDecision(c)
  <2>1. PICK b \in Activations : act' = [act EXCEPT ![c] = b]
    BY <1>2, <1>4, <1>7, GoesPlainly DEF RecordDecision
  <2>2. act[c].port \in {"approved", "rejected"} BY <1>1, <1>7 DEF RecordDecision, At, OnExec
  <2>3. approval' \in [Execs -> {"none", "pending", "approved", "rejected", "expired"}]
    BY <1>7, <2>2 DEF RecordDecision, TypeInv
  <2>4. UNCHANGED <<exec, rows, dispatched, orphans, restarts>> BY <1>7 DEF RecordDecision
  <2> QED BY <2>1, <2>3, <2>4, ActivationStep DEF TypeInv
<1>8. CASE FlagCancelling(c)
  <2>1. exec' \in [Execs -> ExecType] BY <1>3, <1>8, StatusSet, StatusTypes DEF FlagCancelling
  <2>2. act' = [act EXCEPT ![c] = Idle] /\ Idle \in Activations BY <1>8, Returns DEF FlagCancelling
  <2>3. UNCHANGED <<rows, approval, dispatched, orphans, restarts>> BY <1>8 DEF FlagCancelling
  <2> QED BY <2>1, <2>2, <2>3, ActivationStep DEF TypeInv
<1> QED BY <1>5, <1>6, <1>7, <1>8

\* A call that comes in: it writes at most its execution's row.
LEMMA ComesIn ==
  ASSUME TypeInv, NEW c \in Calls, NEW e \in Execs,
         \/ Start(c, e) \/ Tick(c, e) \/ DomainEvent(c, e) \/ Cancel(c, e)
         \/ \E d \in {"approved", "rejected"} : Respond(c, e, d)
  PROVE  /\ TypeInv' /\ act[c].pc = "idle"
         /\ UNCHANGED <<rows, dispatched, restarts>>
         /\ act'[c].pc \in {"load", "resume", "expire", "match", "respond", "finalize", "flag"}
         /\ act'[c].e = e
<1>1. act[c].pc = "idle" BY DEF Start, Tick, DomainEvent, Cancel, Respond, Begin, At
<1>2. UNCHANGED <<rows, approval, dispatched, orphans, restarts>>
  BY DEF Start, Tick, DomainEvent, Cancel, Respond
<1>3. exec' \in [Execs -> ExecType]
  <2>1. CASE Start(c, e) BY <2>1, StatusSet, StatusTypes DEF Start
  <2>2. CASE UNCHANGED exec BY <2>2 DEF TypeInv
  <2> QED BY <2>1, <2>2 DEF Tick, DomainEvent, Cancel, Respond
<1>4. ASSUME NEW p \in {"load", "resume", "expire", "match", "respond", "finalize", "flag"},
             NEW port \in Ports, NEW g \in TERMINAL, NEW t \in BOOLEAN, NEW b,
             p = "respond" => port \in {"approved", "rejected"},
             Fresh(b, p, e, None, port, g, t), act' = [act EXCEPT ![c] = b]
      PROVE  TypeInv' /\ act'[c].e = e /\ act'[c].pc = p
  <2>1. p \in Stages \ {"dispatch", "persist"} BY DEF Stages
  <2>2. b \in Activations BY <1>4, <2>1, FreshIs
  <2>3. TypeInv' BY <1>2, <1>3, <1>4, <2>2, ActivationStep DEF TypeInv
  <2>4. act'[c].e = e /\ act'[c].pc = p BY <1>4 DEF TypeInv, Fresh
  <2> QED BY <2>3, <2>4
<1>5. CASE Start(c, e)
  <2>1. "out" \in Ports /\ "load" \in {"load", "match", "respond"} BY PortTypes
  <2>2. PICK b \in Activations :
          act' = [act EXCEPT ![c] = b] /\ Fresh(b, "load", e, None, "out", "completed", FALSE)
    BY <1>5, <2>1, BeginIs DEF Start
  <2>3. TypeInv' /\ act'[c].e = e /\ act'[c].pc = "load" BY <1>4, <2>1, <2>2, StatusTypes
  <2> QED BY <1>1, <1>2, <2>3
<1>6. CASE DomainEvent(c, e)
  <2>1. "completed" \in Ports /\ "match" \in {"load", "match", "respond"} BY PortTypes
  <2>2. PICK b \in Activations :
          act' = [act EXCEPT ![c] = b] /\ Fresh(b, "match", e, None, "completed", "completed", FALSE)
    BY <1>6, <2>1, BeginIs DEF DomainEvent
  <2>3. TypeInv' /\ act'[c].e = e /\ act'[c].pc = "match" BY <1>4, <2>1, <2>2, StatusTypes
  <2> QED BY <1>1, <1>2, <2>3
<1>7. ASSUME NEW d \in {"approved", "rejected"}, Respond(c, e, d)
      PROVE  TypeInv' /\ act'[c].e = e /\ act'[c].pc = "respond"
  <2>1. d \in Ports /\ "respond" \in {"load", "match", "respond"} BY PortTypes
  <2>2. PICK b \in Activations :
          act' = [act EXCEPT ![c] = b] /\ Fresh(b, "respond", e, None, d, "completed", FALSE)
    BY <1>7, <2>1, BeginIs DEF Respond
  <2> QED BY <1>4, <2>1, <2>2, StatusTypes
<1>8. CASE Cancel(c, e)
  <2>1. PICK p \in {"finalize", "flag"} :
          p = IF Status(e) \in WAITING_STATUSES THEN "finalize" ELSE "flag"
    OBVIOUS
  <2> DEFINE b == [Idle EXCEPT !.e = e, !.goal = "cancelled", !.pc = p]
  <2>2. act' = [act EXCEPT ![c] = b] BY <1>8, <2>1 DEF Cancel
  <2>3. p \in Stages /\ "cancelled" \in TERMINAL BY StatusTypes DEF Stages
  <2>4. Fresh(b, p, e, None, "out", "cancelled", FALSE) BY <2>3, IdleIs DEF Fresh, ActType
  <2> HIDE DEF b
  <2>5. TypeInv' /\ act'[c].e = e /\ act'[c].pc = p BY <1>4, <2>2, <2>3, <2>4, PortTypes
  <2> QED BY <1>1, <1>2, <2>5
<1>9. CASE Tick(c, e)
  <2>1. ASSUME act' = [act EXCEPT ![c] = [Idle EXCEPT !.pc = "resume", !.e = e, !.tick = TRUE]]
        PROVE  TypeInv' /\ act'[c].e = e /\ act'[c].pc = "resume"
    <3> DEFINE b == [Idle EXCEPT !.pc = "resume", !.e = e, !.tick = TRUE]
    <3>1. "resume" \in Stages BY DEF Stages
    <3>2. Fresh(b, "resume", e, None, "out", "completed", TRUE) BY <3>1, IdleIs DEF Fresh, ActType
    <3>3. act' = [act EXCEPT ![c] = b] BY <2>1
    <3> HIDE DEF b
    <3> QED BY <1>4, <3>2, <3>3, PortTypes, StatusTypes
  <2>2. ASSUME NEW p \in {"expire", "resume"},
               act' = [act EXCEPT ![c] = [Idle EXCEPT !.pc = p, !.e = e, !.port = "timeout",
                                                      !.tick = TRUE]]
        PROVE  TypeInv' /\ act'[c].e = e /\ act'[c].pc = p
    <3> DEFINE b == [Idle EXCEPT !.pc = p, !.e = e, !.port = "timeout", !.tick = TRUE]
    <3>1. p \in Stages /\ "timeout" \in Ports BY PortTypes DEF Stages
    <3>2. Fresh(b, p, e, None, "timeout", "completed", TRUE) BY <3>1, IdleIs DEF Fresh, ActType
    <3>3. act' = [act EXCEPT ![c] = b] BY <2>2
    <3> HIDE DEF b
    <3> QED BY <1>4, <3>1, <3>2, <3>3, StatusTypes
  <2>3. PICK p \in {"expire", "resume"} :
          p = IF Status(e) = "waiting_for_approval" THEN "expire" ELSE "resume"
    OBVIOUS
  <2>4. TypeInv' /\ act'[c].e = e /\ act'[c].pc \in {"expire", "resume"} BY <1>9, <2>1, <2>2, <2>3 DEF Tick
  <2> QED BY <1>1, <1>2, <2>4
<1> QED BY <1>1, <1>2, <1>5, <1>6, <1>7, <1>8, <1>9

\* A row left running is failed; the others stay.
Recovered(s) == [n \in Nodes |-> IF s[n].status = "running"
                                   THEN [status |-> "failed", ports |-> {}] ELSE s[n]]

LEMMA RecoverIs ==
  ASSUME TypeInv, NEW c \in Calls, NEW e \in Execs, Recover(c, e)
  PROVE  /\ TypeInv' /\ act[c].pc = "idle" /\ act'[c].pc = "load"
         /\ rows' = [rows EXCEPT ![e] = Recovered(rows[e])] /\ UNCHANGED <<dispatched, restarts>>
<1>1. "out" \in Ports /\ "load" \in {"load", "match", "respond"} BY PortTypes
<1>2. PICK b \in Activations :
        act' = [act EXCEPT ![c] = b] /\ Fresh(b, "load", e, None, "out", "completed", FALSE)
  BY <1>1, BeginIs DEF Recover
<1>3. rows' = [rows EXCEPT ![e] = Recovered(rows[e])] BY DEF Recover, Recovered
<1>4. rows' \in [Execs -> [Nodes -> NodeState]]
  <2>1. rows \in [Execs -> [Nodes -> NodeState]] /\ rows[e] \in [Nodes -> NodeState] BY DEF TypeInv
  <2>2. [status |-> "failed", ports |-> {}] \in NodeState BY StateTypes DEF NodeStatuses
  <2>3. Recovered(rows[e]) \in [Nodes -> NodeState] BY <2>1, <2>2 DEF Recovered
  <2> QED BY <1>3, <2>1, <2>3
<1>5. orphans' \subseteq Execs /\ UNCHANGED <<exec, approval, dispatched, restarts>>
  BY DEF Recover, TypeInv
<1>6. TypeInv' BY <1>2, <1>4, <1>5, ActivationStep DEF TypeInv
<1>7. act[c].pc = "idle" BY DEF Recover, Begin, At
<1>8. act'[c].pc = "load" BY <1>2 DEF TypeInv, Fresh
<1> QED BY <1>3, <1>5, <1>6, <1>7, <1>8

LEMMA RestartTypes == ASSUME TypeInv, Restart PROVE TypeInv'
<1>1. act' \in [Calls -> Activations] BY IdleIs DEF Restart
<1>2. restarts' \in 0..MaxRestarts
  <2>1. restarts \in 0..MaxRestarts /\ MaxRestarts \in Nat BY RestartAssumption DEF TypeInv
  <2> QED BY <2>1 DEF Restart
<1>3. orphans' \subseteq Execs BY DEF Restart
<1>4. UNCHANGED <<exec, rows, approval, dispatched>> BY DEF Restart
<1> QED BY <1>1, <1>2, <1>3, <1>4 DEF TypeInv

LEMMA StepTypes == ASSUME TypeInv, NEW c \in Calls, Step(c) PROVE TypeInv'
BY LoopTypes, WaveTypes, TakeTypes, DispatchTypes, PersistTypes, ArmTypes, ChildTypes, FinalizeTypes,
   ResumeTypes, GateTypes DEF Step

LEMMA TypeNext == TypeInv /\ [Next]_vars => TypeInv'
<1> SUFFICES ASSUME TypeInv, [Next]_vars PROVE TypeInv' OBVIOUS
<1>1. CASE UNCHANGED vars BY <1>1 DEF vars, TypeInv
<1>2. CASE Restart BY <1>2, RestartTypes
<1>3. ASSUME NEW c \in Calls, Step(c) PROVE TypeInv' BY <1>3, StepTypes
<1>4. ASSUME NEW c \in Calls, NEW e \in Execs, Recover(c, e) PROVE TypeInv' BY <1>4, RecoverIs
<1>5. ASSUME NEW c \in Calls, NEW e \in Execs,
             \/ Start(c, e) \/ Tick(c, e) \/ DomainEvent(c, e) \/ Cancel(c, e)
             \/ \E d \in {"approved", "rejected"} : Respond(c, e, d)
      PROVE  TypeInv'
  BY <1>5, ComesIn
<1> QED BY <1>1, <1>2, <1>3, <1>4, <1>5, Zenon DEF Next

\* The rows, the private copies of the run loops and the figures keep their types,
\* with any number of calls in flight, on any graph and through every restart.
THEOREM WorkflowTypeCorrect == Spec => []TypeOK
<1>1. TypeInv => TypeOK BY DEF TypeInv, TypeOK, Activations, ActType, Stages, ExecType
<1>2. Init => TypeInv BY TypeInit
<1>3. TypeInv /\ [Next]_vars => TypeInv' BY TypeNext
<1> QED BY <1>1, <1>2, <1>3, PTL DEF Spec

----------------------------------------------------------------------------
(* One call on an execution at a time.                                      *)

Looping == {"mark", "wave", "node", "dispatch", "persist"}

\* The loop's private copy is what the database holds.
Mirror(c) == act[c].pc \in Looping => act[c].st = rows[act[c].e]

\* What the loop is about to take up was not done before.
Untouched(c) ==
  act[c].pc \in {"node", "dispatch", "persist"} =>
    \A m \in act[c].todo : rows[act[c].e][m].status = "pending"

Own(c) == Mirror(c) /\ Untouched(c)

\* The action of n has run and its outcome is about to be written.
Writing(c, e, n) == act[c].pc = "persist" /\ act[c].e = e /\ act[c].n = n

\* An action has run at most once, and its outcome is in the database unless the
\* loop that ran it is just about to write it.
Ran ==
  restarts = 0 =>
    \A e \in Execs, n \in Nodes :
      \/ dispatched[e][n] = 0
      \/ /\ dispatched[e][n] = 1
         /\ rows[e][n].status # "pending" \/ \E c \in Calls : Writing(c, e, n)

RunInv == TypeInv /\ (\A c \in Calls : Own(c)) /\ Ran

\* No node is both ready and dead: what a wave starts it does not skip.
LEMMA ReadyNotDead ==
  ASSUME NEW g, NEW st, NEW n, IsReady(g, st, n) PROVE ~IsDead(g, st, n)
<1>1. CASE g.cat[n] = "trigger" BY <1>1 DEF IsDead
<1>2. CASE g.cat[n] # "trigger" /\ g.cat[n] = "join"
  <2>1. Incoming(g, n) # {} /\ InState(g, st, n, "live") = Incoming(g, n) BY <1>2 DEF IsReady
  <2>2. InState(g, st, n, "dead") = {} BY <2>1 DEF InState
  <2> QED BY <1>2, <2>1, <2>2 DEF IsDead
<1>3. CASE g.cat[n] # "trigger" /\ g.cat[n] # "join" BY <1>3 DEF IsReady, IsDead
<1> QED BY <1>1, <1>2, <1>3

LEMMA RunInit == Init => RunInv
<1> SUFFICES ASSUME Init PROVE RunInv OBVIOUS
<1>1. \A c \in Calls : act[c].pc = "idle" BY DEF Init, Idle
<1>2. Ran BY DEF Init, Ran
<1>3. \A c \in Calls : Own(c) BY <1>1 DEF Own, Mirror, Untouched, Looping
<1> QED BY <1>2, <1>3, TypeInit DEF RunInv

\* Nothing is undone.
Kept ==
  /\ UNCHANGED <<dispatched, restarts>>
  /\ \A e \in Execs, n \in Nodes :
       rows[e][n].status # "pending" => rows'[e][n].status # "pending"

LEMMA NextStage ==
  ASSUME TypeInv, NEW c \in Calls
  PROVE  /\ \A p : Goto(c, p) => act'[c].pc = p
         /\ Return(c) => act'[c].pc = "idle"
         /\ \A b : act' = [act EXCEPT ![c] = b] => act'[c] = b
<1>1. act \in [Calls -> Activations] /\ act[c] \in ActType BY DEF TypeInv, Activations
<1>2. ASSUME NEW p, Goto(c, p) PROVE act'[c].pc = p
  <2>1. act'[c] = [act[c] EXCEPT !.pc = p] BY <1>1, <1>2 DEF Goto
  <2> QED BY <1>1, <2>1 DEF ActType
<1>3. Return(c) => act'[c].pc = "idle" BY <1>1, IdleIs DEF Return, Fresh
<1> QED BY <1>1, <1>2, <1>3

LEMMA RowKept ==
  ASSUME TypeInv, NEW e \in Execs, NEW n \in Nodes, NEW r \in NodeState, r.status # "pending",
         SetRow(e, n, r), UNCHANGED <<dispatched, restarts>>
  PROVE  Kept
<1>1. rows \in [Execs -> [Nodes -> NodeState]] BY DEF TypeInv
<1>2. \A f \in Execs, m \in Nodes : rows'[f][m] = IF f = e /\ m = n THEN r ELSE rows[f][m]
  BY <1>1 DEF SetRow
<1> QED BY <1>2 DEF Kept

LEMMA OutsideLoop ==
  ASSUME TypeInv, NEW c \in Calls,
         \/ Load(c) \/ Arm(c) \/ CreateApproval(c) \/ SetWaiting(c) \/ StartChild(c) \/ Finalize(c)
         \/ Resume(c) \/ FindWaiting(c) \/ ResumeNode(c) \/ ResumeExec(c)
         \/ ExpireApproval(c) \/ MatchEvent(c) \/ RecordDecision(c) \/ FlagCancelling(c)
  PROVE  act[c].pc # "persist" /\ act'[c].pc \notin Looping /\ Kept
<1>1. act[c] \in ActType /\ OnExec(act[c]) BY DEF TypeInv, Activations
<1>2. act[c].pc # "persist"
  BY DEF Load, Arm, CreateApproval, SetWaiting, StartChild, Finalize, Resume, FindWaiting, ResumeNode,
         ResumeExec, ExpireApproval, MatchEvent, RecordDecision, FlagCancelling, At
<1>3. UNCHANGED <<dispatched, restarts>>
  BY DEF Load, Arm, CreateApproval, SetWaiting, StartChild, Finalize, Resume, FindWaiting, ResumeNode,
         ResumeExec, ExpireApproval, MatchEvent, RecordDecision, FlagCancelling
<1>4. CASE Load(c) \/ CreateApproval(c) \/ SetWaiting(c) \/ Resume(c) \/ ExpireApproval(c)
           \/ MatchEvent(c) \/ RecordDecision(c) \/ FlagCancelling(c)
  <2>1. UNCHANGED rows
    BY <1>4 DEF Load, CreateApproval, SetWaiting, Resume, ExpireApproval, MatchEvent, RecordDecision,
         FlagCancelling
  <2>2. PICK p \in {"states", "setWaiting", "child", "find", "resume"} : Goto(c, p) \/ Return(c)
    BY <1>4 DEF Load, CreateApproval, SetWaiting, Resume, ExpireApproval, MatchEvent, RecordDecision,
         FlagCancelling
  <2>3. act'[c].pc \notin Looping BY <2>2, NextStage DEF Looping
  <2> QED BY <1>2, <1>3, <2>1, <2>3 DEF Kept
<1>5. CASE Arm(c)
  <2>1. act[c].e \in Execs /\ act[c].n \in Nodes BY <1>1, <1>5 DEF Arm, At, OnExec
  <2> DEFINE r == [status |-> "waiting", ports |-> {}]
  <2>2. r \in NodeState /\ r.status # "pending" BY StateTypes DEF NodeStatuses
  <2>3. PICK p \in {"gate", "setWaiting"} : Goto(c, p) BY <1>5 DEF Arm
  <2>4. act'[c].pc \notin Looping BY <2>3, NextStage DEF Looping
  <2>5. SetRow(act[c].e, act[c].n, r) BY <1>5 DEF Arm
  <2> HIDE DEF r
  <2> QED BY <1>2, <1>3, <2>1, <2>2, <2>4, <2>5, RowKept
<1>6. CASE ResumeNode(c)
  <2>1. act[c].e \in Execs /\ act[c].n \in Nodes /\ act[c].port \in Ports
    BY <1>1, <1>6 DEF ResumeNode, At, OnExec, ActType
  <2> DEFINE r == [status |-> "succeeded", ports |-> {act[c].port}]
  <2>2. r \in NodeState /\ r.status # "pending" BY <2>1, StateTypes DEF NodeStatuses
  <2>3. act'[c].pc \notin Looping BY <1>6, NextStage DEF ResumeNode, Looping
  <2>4. SetRow(act[c].e, act[c].n, r) BY <1>6 DEF ResumeNode
  <2> HIDE DEF r
  <2> QED BY <1>2, <1>3, <2>1, <2>2, <2>3, <2>4, RowKept
<1>7. ASSUME NEW b, act' = [act EXCEPT ![c] = b], b.pc \notin Looping, UNCHANGED rows
      PROVE  act'[c].pc \notin Looping /\ Kept
  BY <1>3, <1>7, NextStage DEF Kept
<1>8. CASE StartChild(c)
  <2>1. UNCHANGED rows BY <1>8 DEF StartChild
  <2>2. \A x : [Idle EXCEPT !.pc = "load", !.e = x].pc = "load" BY IdleIs DEF Fresh, ActType
  <2>3. [act[c] EXCEPT !.pc = "resumeNode", !.port = "failure"].pc = "resumeNode"
    BY <1>1 DEF ActType
  <2>4. \/ \E x : act' = [act EXCEPT ![c] = [Idle EXCEPT !.pc = "load", !.e = x]]
        \/ act' = [act EXCEPT ![c] = [act[c] EXCEPT !.pc = "resumeNode", !.port = "failure"]]
    BY <1>8 DEF StartChild
  <2> QED BY <1>2, <1>7, <2>1, <2>2, <2>3, <2>4 DEF Looping
<1>9. CASE Finalize(c)
  <2>1. UNCHANGED rows BY <1>9 DEF Finalize
  <2>2. CASE Return(c)
    <3>1. act'[c].pc \notin Looping BY <2>2, NextStage DEF Looping
    <3> QED BY <1>2, <1>3, <2>1, <3>1 DEF Kept
  <2>3. ASSUME NEW f, NEW n, NEW t, NEW port,
               act' = [act EXCEPT ![c] = [Idle EXCEPT !.pc = "resumeNode", !.e = f, !.n = n,
                                                      !.tick = t, !.port = port]]
        PROVE  act'[c].pc \notin Looping /\ Kept
    <3>1. [Idle EXCEPT !.pc = "resumeNode", !.e = f, !.n = n, !.tick = t, !.port = port].pc
            = "resumeNode"
      BY IdleIs DEF Fresh, ActType
    <3> QED BY <1>7, <2>1, <2>3, <3>1 DEF Looping
  <2>4. PICK f, n, t, port :
          /\ f = Parent[act[c].e][1] /\ n = Parent[act[c].e][2] /\ t = act[c].tick
          /\ port = IF act[c].goal = "completed" THEN "out" ELSE "failure"
    OBVIOUS
  <2>5. \/ Return(c)
        \/ act' = [act EXCEPT ![c] = [Idle EXCEPT !.pc = "resumeNode", !.e = f, !.n = n,
                                                  !.tick = t, !.port = port]]
    BY <1>9, <2>4 DEF Finalize
  <2> QED BY <1>2, <2>2, <2>3, <2>5
<1>10. CASE FindWaiting(c)
  <2>1. UNCHANGED rows BY <1>10 DEF FindWaiting
  <2>2. CASE Return(c)
    <3>1. act'[c].pc \notin Looping BY <2>2, NextStage DEF Looping
    <3> QED BY <1>2, <1>3, <2>1, <3>1 DEF Kept
  <2>3. \A n : [act[c] EXCEPT !.n = n, !.pc = "resumeNode"].pc = "resumeNode" BY <1>1 DEF ActType
  <2>4. ASSUME NEW n, act' = [act EXCEPT ![c] = [@ EXCEPT !.n = n, !.pc = "resumeNode"]]
        PROVE  act'[c].pc \notin Looping /\ Kept
    <3>1. act' = [act EXCEPT ![c] = [act[c] EXCEPT !.n = n, !.pc = "resumeNode"]] BY <2>4
    <3> QED BY <1>7, <2>1, <2>3, <3>1 DEF Looping
  <2> QED BY <1>2, <1>10, <2>2, <2>4 DEF FindWaiting
<1>11. CASE ResumeExec(c)
  <2>1. UNCHANGED rows BY <1>11 DEF ResumeExec
  <2>2. PICK e, t : act' = [act EXCEPT ![c] = [Idle EXCEPT !.pc = "load", !.e = e, !.tick = t]]
    BY <1>11 DEF ResumeExec
  <2>3. [Idle EXCEPT !.pc = "load", !.e = e, !.tick = t].pc = "load" BY IdleIs DEF Fresh, ActType
  <2> QED BY <1>2, <1>7, <2>1, <2>2, <2>3 DEF Looping
<1> QED BY <1>4, <1>5, <1>6, <1>8, <1>9, <1>10, <1>11

\* The loop reads the node rows, and marks its execution running.
LEMMA OwnLoop ==
  ASSUME TypeInv, NEW c \in Calls, Own(c), LoadStates(c) \/ MarkRunning(c)
  PROVE  Own(c)' /\ act[c].pc # "persist" /\ Kept
<1>1. act \in [Calls -> Activations] /\ act[c] \in ActType BY DEF TypeInv, Activations
<1>2. act[c].pc # "persist" /\ UNCHANGED <<rows, dispatched, restarts>>
  BY DEF LoadStates, MarkRunning, At
<1>3. Kept BY <1>2 DEF Kept
<1>4. CASE LoadStates(c)
  <2> DEFINE b == [act[c] EXCEPT !.pc = "mark", !.st = rows[act[c].e]]
  <2>1. act' = [act EXCEPT ![c] = b] BY <1>4 DEF LoadStates
  <2>2. b.pc = "mark" /\ b.e = act[c].e /\ b.st = rows[act[c].e] BY <1>1 DEF ActType
  <2> HIDE DEF b
  <2>3. act'[c] = b BY <1>1, <2>1
  <2>4. Mirror(c)' BY <1>2, <2>2, <2>3 DEF Mirror
  <2>5. Untouched(c)' BY <2>2, <2>3 DEF Untouched
  <2> QED BY <1>2, <1>3, <2>4, <2>5 DEF Own
<1>5. CASE MarkRunning(c)
  <2>1. PICK b : act' = [act EXCEPT ![c] = b] /\ Moved(act[c], b, "wave")
    BY <1>5, Goes DEF MarkRunning, Stages
  <2>2. act'[c] = b BY <1>1, <2>1
  <2>3. act[c].st = rows[act[c].e] BY <1>5 DEF Own, Mirror, Looping, MarkRunning, At
  <2>4. Mirror(c)' BY <1>2, <2>1, <2>2, <2>3 DEF Mirror, Moved
  <2>5. Untouched(c)' BY <2>1, <2>2 DEF Untouched, Moved
  <2> QED BY <1>2, <1>3, <2>4, <2>5 DEF Own
<1> QED BY <1>4, <1>5

\* A wave: what it skips was pending and is not what it starts.
LEMMA OwnWave ==
  ASSUME TypeInv, NEW c \in Calls, Own(c), Wave(c)
  PROVE  Own(c)' /\ act[c].pc # "persist" /\ Kept
<1>1. /\ act \in [Calls -> Activations] /\ act[c] \in ActType
      /\ rows \in [Execs -> [Nodes -> NodeState]]
  BY DEF TypeInv, Activations
<1>2. /\ act[c].pc = "wave" /\ act[c].e \in Execs /\ UNCHANGED <<dispatched, restarts>>
  BY WaveIs DEF Wave, At
<1>3. PICK b \in Activations :
        /\ act' = [act EXCEPT ![c] = b] /\ b.e = act[c].e
        /\ \/ b.pc = "finalize" /\ UNCHANGED rows
           \/ /\ b.pc \in {"node", "finalize", "wave"}
              /\ b.todo = Ready(GraphOf[b.e], act[c].st)
              /\ b.st = Pruned(Dead(GraphOf[b.e], act[c].st), act[c].st)
              /\ rows' = [rows EXCEPT ![b.e] =
                            Pruned(Dead(GraphOf[b.e], act[c].st), rows[b.e])]
  BY WaveIs
<1>4. act'[c] = b BY <1>1, <1>3
<1>5. CASE b.pc = "finalize" /\ UNCHANGED rows
  BY <1>2, <1>4, <1>5 DEF Looping, Own, Mirror, Untouched, Kept
<1>6. CASE /\ b.pc \in {"node", "finalize", "wave"}
           /\ b.todo = Ready(GraphOf[b.e], act[c].st)
           /\ b.st = Pruned(Dead(GraphOf[b.e], act[c].st), act[c].st)
           /\ rows' = [rows EXCEPT ![b.e] = Pruned(Dead(GraphOf[b.e], act[c].st), rows[b.e])]
  <2>1. PICK g, D, R : /\ g = GraphOf[b.e] /\ D = Dead(g, act[c].st) /\ R = Ready(g, act[c].st)
    OBVIOUS
  <2>2. act[c].st = rows[b.e] BY <1>2, <1>3 DEF Own, Mirror, Looping
  <2>3. rows' = [rows EXCEPT ![b.e] = Pruned(D, rows[b.e])] /\ b.st = Pruned(D, rows[b.e])
    BY <1>6, <2>1, <2>2
  <2>4. \A n \in Nodes : Pruned(D, rows[b.e])[n] = IF n \in D THEN Skipped ELSE rows[b.e][n]
    BY DEF Pruned
  <2>5. \A e \in Execs, n \in Nodes :
          rows[e][n].status # "pending" => rows'[e][n].status # "pending"
    <3>1. Skipped.status # "pending" BY StateTypes
    <3> SUFFICES ASSUME NEW e \in Execs, NEW n \in Nodes, rows[e][n].status # "pending"
                 PROVE  rows'[e][n].status # "pending"
      OBVIOUS
    <3>2. CASE e = b.e
      <4>1. rows'[e][n] = Pruned(D, rows[b.e])[n] BY <1>1, <2>3, <3>2
      <4>2. CASE n \in D BY <2>4, <3>1, <4>1, <4>2
      <4>3. CASE n \notin D BY <2>4, <3>2, <4>1, <4>3
      <4> QED BY <4>2, <4>3
    <3>3. CASE e # b.e BY <1>1, <2>3, <3>3
    <3> QED BY <3>2, <3>3
  <2>6. Kept BY <1>2, <2>5 DEF Kept
  <2>7. rows'[b.e] = Pruned(D, rows[b.e]) BY <1>1, <1>2, <1>3, <2>3
  <2>8. Mirror(c)' BY <1>4, <2>3, <2>7 DEF Mirror
  <2>9. Untouched(c)'
    <3>1. \A m \in R : rows'[b.e][m].status = "pending"
      <4> SUFFICES ASSUME NEW m \in R PROVE rows'[b.e][m].status = "pending" OBVIOUS
      <4>1. m \in g.nodes /\ IsReady(g, act[c].st, m) BY <2>1 DEF Ready
      <4>2. m \in Nodes BY <1>2, <1>3, <2>1, <4>1, GraphAssumption
      <4>3. m \notin D BY <2>1, <4>1, ReadyNotDead DEF Dead
      <4>4. rows[b.e][m].status = "pending" BY <2>2, <4>1 DEF IsReady
      <4> QED BY <2>4, <2>7, <4>2, <4>3, <4>4
    <3> QED BY <1>4, <1>6, <2>1, <3>1 DEF Untouched
  <2> QED BY <1>2, <2>6, <2>8, <2>9 DEF Own
<1> QED BY <1>3, <1>5, <1>6

LEMMA OwnTake ==
  ASSUME TypeInv, NEW c \in Calls, Own(c), TakeNode(c)
  PROVE  Own(c)' /\ act[c].pc # "persist" /\ Kept
<1>1. act \in [Calls -> Activations] BY DEF TypeInv
<1>2. act[c].pc = "node" /\ UNCHANGED <<rows, dispatched, restarts>> BY TakeIs
<1>3. PICK b \in Activations :
        /\ act' = [act EXCEPT ![c] = b] /\ b.pc \in {"arm", "dispatch", "persist"}
        /\ b.e = act[c].e /\ b.st = act[c].st /\ b.todo = act[c].todo
  BY TakeIs
<1>4. act'[c] = b BY <1>1, <1>3
<1>5. Kept BY <1>2 DEF Kept
<1>6. Mirror(c)' BY <1>2, <1>3, <1>4 DEF Own, Mirror, Looping
<1>7. Untouched(c)' BY <1>2, <1>3, <1>4 DEF Own, Untouched
<1> QED BY <1>2, <1>5, <1>6, <1>7 DEF Own

\* What is dispatched is pending in the database.
LEMMA DispatchesPending ==
  ASSUME TypeInv, NEW c \in Calls, Own(c), DispatchAction(c)
  PROVE  rows[act[c].e][act[c].n].status = "pending"
<1>1. act[c].pc = "dispatch" BY DispatchIs
<1>2. act[c].n \in act[c].todo BY <1>1 DEF TypeInv, Activations, OnExec
<1> QED BY <1>1, <1>2 DEF Own, Untouched

LEMMA OwnDispatch ==
  ASSUME TypeInv, NEW c \in Calls, Own(c), DispatchAction(c),
         NEW e, e = act[c].e, NEW n, n = act[c].n
  PROVE  Own(c)' /\ Writing(c, e, n)'
<1>1. act \in [Calls -> Activations] BY DEF TypeInv
<1>2. act[c].pc = "dispatch" /\ UNCHANGED rows BY DispatchIs
<1>3. PICK b \in Activations : act' = [act EXCEPT ![c] = b] /\ Moved(act[c], b, "persist")
  BY DispatchIs
<1>4. act'[c] = b BY <1>1, <1>3
<1>5. Mirror(c)' BY <1>2, <1>3, <1>4 DEF Own, Mirror, Moved, Looping
<1>6. Untouched(c)' BY <1>2, <1>3, <1>4 DEF Own, Untouched, Moved
<1>7. Writing(c, e, n)' BY <1>3, <1>4 DEF Writing, Moved
<1> QED BY <1>5, <1>6, <1>7 DEF Own

LEMMA OwnPersist ==
  ASSUME TypeInv, NEW c \in Calls, Own(c), PersistNode(c),
         NEW e \in Execs, e = act[c].e, NEW n \in Nodes, n = act[c].n
  PROVE  Own(c)' /\ Kept /\ rows'[e][n].status # "pending"
<1>1. act \in [Calls -> Activations] /\ rows \in [Execs -> [Nodes -> NodeState]] BY DEF TypeInv
<1>2. act[c].pc = "persist" /\ UNCHANGED <<dispatched, restarts>> BY PersistIs
<1>3. PICK o \in NodeState :
        /\ o.status \in {"succeeded", "failed"} /\ SetRow(act[c].e, act[c].n, o)
        /\ \E b \in Activations :
             /\ act' = [act EXCEPT ![c] = b]
             /\ b.pc \in {"finalize", "node", "wave"} /\ b.e = act[c].e
             /\ b.todo = act[c].todo \ {act[c].n} /\ b.st = [act[c].st EXCEPT ![act[c].n] = o]
             /\ o.status = "failed" /\ ~HasFailureEdge(act[c].e, act[c].n)
                  => b.pc = "finalize" /\ b.goal = "failed"
  BY PersistIs
<1>4. PICK b \in Activations :
        /\ act' = [act EXCEPT ![c] = b] /\ b.pc \in {"finalize", "node", "wave"} /\ b.e = e
        /\ b.todo = act[c].todo \ {n} /\ b.st = [act[c].st EXCEPT ![n] = o]
  BY <1>3
<1>5. act'[c] = b BY <1>1, <1>4
<1>6. \A f \in Execs, m \in Nodes : rows'[f][m] = IF f = e /\ m = n THEN o ELSE rows[f][m]
  BY <1>1, <1>3 DEF SetRow
<1>7. Mirror(c)'
  <2>1. act[c].st = rows[e] BY <1>2 DEF Own, Mirror, Looping
  <2>2. rows'[e] = [rows[e] EXCEPT ![n] = o] BY <1>1, <1>3 DEF SetRow
  <2> QED BY <1>4, <1>5, <2>1, <2>2 DEF Mirror
<1>8. Untouched(c)'
  <2>1. \A m \in act[c].todo : rows[e][m].status = "pending" BY <1>2 DEF Own, Untouched
  <2>2. act[c].todo \subseteq Nodes BY DEF TypeInv, Activations, ActType
  <2>3. \A m \in b.todo : rows'[e][m].status = "pending" BY <1>4, <1>6, <2>1, <2>2
  <2> QED BY <1>4, <1>5, <2>3 DEF Untouched
<1>9. Kept BY <1>2, <1>3, RowKept
<1>10. rows'[e][n].status # "pending" BY <1>3, <1>6
<1> QED BY <1>7, <1>8, <1>9, <1>10 DEF Own

\* A step leaves the other calls and the rows of other executions alone.
LEMMA StepIsLocal ==
  ASSUME TypeInv, NEW d \in Calls, Step(d)
  PROVE  /\ act[d].pc # "idle"
         /\ \A c \in Calls : c # d => act'[c] = act[c]
         /\ \A f \in Execs : f # act[d].e => rows'[f] = rows[f]
<1>1. act[d].pc # "idle"
  BY DEF Step, Load, LoadStates, MarkRunning, Wave, TakeNode, DispatchAction, PersistNode, Arm,
         CreateApproval, SetWaiting, StartChild, Finalize, Resume, FindWaiting, ResumeNode,
         ResumeExec, ExpireApproval, MatchEvent, RecordDecision, FlagCancelling, At
<1>2. ASSUME NEW b, act' = [act EXCEPT ![d] = b] PROVE \A c \in Calls : c # d => act'[c] = act[c]
  BY <1>2 DEF TypeInv
<1>3. ASSUME NEW p, Goto(d, p) PROVE \A c \in Calls : c # d => act'[c] = act[c]
  BY <1>3 DEF TypeInv, Goto
<1>4. CASE Wave(d)
  <2>1. \E b : act' = [act EXCEPT ![d] = b] BY <1>4, WaveIs
  <2>2. UNCHANGED rows \/ \E D : rows' = [rows EXCEPT ![act[d].e] = Pruned(D, rows[act[d].e])]
    BY <1>4, WaveIs
  <2>3. \A f \in Execs : f # act[d].e => rows'[f] = rows[f] BY <2>2 DEF TypeInv
  <2> QED BY <1>1, <1>2, <2>1, <2>3
<1>5. CASE PersistNode(d)
  <2>1. \E b : act' = [act EXCEPT ![d] = b] BY <1>5, PersistIs
  <2>2. PICK o : SetRow(act[d].e, act[d].n, o) BY <1>5, PersistIs
  <2>3. \A f \in Execs : f # act[d].e => rows'[f] = rows[f] BY <2>2 DEF TypeInv, SetRow
  <2> QED BY <1>1, <1>2, <2>1, <2>3
<1>6. CASE Arm(d) \/ ResumeNode(d)
  <2>1. PICK o : SetRow(act[d].e, act[d].n, o) BY <1>6 DEF Arm, ResumeNode
  <2>2. \E p : Goto(d, p) BY <1>6 DEF Arm, ResumeNode
  <2>3. \A f \in Execs : f # act[d].e => rows'[f] = rows[f] BY <2>1 DEF TypeInv, SetRow
  <2> QED BY <1>1, <1>3, <2>2, <2>3
<1>7. CASE TakeNode(d) \/ DispatchAction(d)
  <2>1. UNCHANGED rows /\ \E b : act' = [act EXCEPT ![d] = b] BY <1>7, TakeIs, DispatchIs
  <2> QED BY <1>1, <1>2, <2>1
<1>8. CASE \/ Load(d) \/ LoadStates(d) \/ MarkRunning(d) \/ CreateApproval(d) \/ SetWaiting(d)
           \/ StartChild(d) \/ Finalize(d) \/ Resume(d) \/ FindWaiting(d) \/ ResumeExec(d)
           \/ ExpireApproval(d) \/ MatchEvent(d) \/ RecordDecision(d) \/ FlagCancelling(d)
  <2>1. UNCHANGED rows
    BY <1>8 DEF Load, LoadStates, MarkRunning, CreateApproval, SetWaiting, StartChild, Finalize, Resume,
         FindWaiting, ResumeExec, ExpireApproval, MatchEvent, RecordDecision, FlagCancelling
  <2>2. (\E p : Goto(d, p)) \/ (\E b : act' = [act EXCEPT ![d] = b])
    BY <1>8 DEF Load, LoadStates, MarkRunning, CreateApproval, SetWaiting, StartChild, Finalize, Resume,
         FindWaiting, ResumeExec, ExpireApproval, MatchEvent, RecordDecision, FlagCancelling, Return
  <2> QED BY <1>1, <1>2, <1>3, <2>1, <2>2
<1> QED BY <1>4, <1>5, <1>6, <1>7, <1>8 DEF Step

\* A call that may touch the node rows of its execution; one that is about to set a
\* final status or the flag of a cancel does not.
Working(c) == act[c].pc \notin {"idle", "flag", "finalize"}

\* No two calls are at work on the node rows of one execution.
Exclusive == \A c, d \in Calls : Working(c) /\ Working(d) /\ act[c].e = act[d].e => c = d

\* A call that no step concerns.
LEMMA OwnUntouched ==
  ASSUME NEW c, Own(c), act'[c] = act[c], Working(c) => rows'[act[c].e] = rows[act[c].e]
  PROVE  Own(c)'
BY DEF Own, Mirror, Untouched, Looping, Working

LEMMA OwnStep ==
  ASSUME TypeInv, NEW d \in Calls, Step(d), \A c \in Calls : Own(c), Exclusive
  PROVE  \A c \in Calls : Own(c)'
<1>1. Own(d)'
  <2>1. Own(d) OBVIOUS
  <2>2. CASE act'[d].pc \notin Looping BY <2>2 DEF Own, Mirror, Untouched, Looping
  <2>3. CASE DispatchAction(d) BY <2>1, <2>3, OwnDispatch
  <2>4. CASE PersistNode(d) BY <2>1, <2>4, OwnPersist, PersistIs
  <2> QED BY <2>1, <2>2, <2>3, <2>4, OutsideLoop, OwnLoop, OwnWave, OwnTake DEF Step
<1>2. ASSUME NEW c \in Calls, c # d PROVE Own(c)'
  <2>1. act'[c] = act[c] BY <1>2, StepIsLocal
  <2>2. Working(c) => act[c].e \in Execs BY DEF Working, TypeInv, Activations, OnExec
  <2>3. Working(c) => rows'[act[c].e] = rows[act[c].e]
    <3>1. CASE Working(d)
      <4>1. Working(c) => act[c].e # act[d].e BY <1>2, <3>1 DEF Exclusive
      <4> QED BY <2>2, <4>1, StepIsLocal
    <3>2. CASE ~Working(d)
      <4>1. act[d].pc \in {"flag", "finalize"} BY <3>2, StepIsLocal DEF Working
      <4>2. Finalize(d) \/ FlagCancelling(d)
        BY <4>1 DEF Step, Load, LoadStates, MarkRunning, Wave, TakeNode, DispatchAction,
             PersistNode, Arm, CreateApproval, SetWaiting, StartChild, Finalize, Resume,
             FindWaiting, ResumeNode, ResumeExec, ExpireApproval, MatchEvent, RecordDecision,
             FlagCancelling, At
      <4> QED BY <4>2 DEF Finalize, FlagCancelling
    <3> QED BY <3>1, <3>2
  <2> QED BY <2>1, <2>3, OwnUntouched
<1> QED BY <1>1, <1>2

\* A step that undoes nothing, of a call that was not about to write an outcome.
LEMMA RanKept ==
  ASSUME Ran, Kept, \A c \in Calls, e \in Execs, n \in Nodes : Writing(c, e, n) => Writing(c, e, n)'
  PROVE  Ran'
BY DEF Ran, Kept

LEMMA RanStep ==
  ASSUME TypeInv, NEW d \in Calls, Step(d), \A c \in Calls : Own(c), Exclusive, Ran
  PROVE  Ran'
<1>1. \A c \in Calls, e \in Execs, n \in Nodes : c # d /\ Writing(c, e, n) => Writing(c, e, n)'
  BY StepIsLocal DEF Writing
<1>2. Own(d) OBVIOUS
<1>3. CASE act[d].pc # "persist" /\ Kept
  <2>1. \A e \in Execs, n \in Nodes : ~Writing(d, e, n) BY <1>3 DEF Writing
  <2> QED BY <1>1, <1>3, <2>1, RanKept
<1>4. CASE DispatchAction(d)
  <2>1. dispatched \in [Execs -> [Nodes -> 0..2]] BY DEF TypeInv
  <2>2. PICK e \in Execs, n \in Nodes : e = act[d].e /\ n = act[d].n BY <1>4, DispatchIs
  <2>3. act[d].pc = "dispatch" /\ UNCHANGED <<rows, restarts>> BY <1>4, DispatchIs
  <2>4. PICK k \in 0..2 : /\ dispatched' = [dispatched EXCEPT ![e][n] = k]
                          /\ dispatched[e][n] = 0 => k = 1
    BY <1>4, <2>2, DispatchIs
  <2>5. rows[e][n].status = "pending" BY <1>2, <1>4, <2>2, DispatchesPending
  <2>6. Writing(d, e, n)' BY <1>2, <1>4, <2>2, OwnDispatch
  <2>7. \A c \in Calls : ~Writing(c, e, n) BY <2>2, <2>3 DEF Writing, Exclusive, Working
  <2>8. \A c \in Calls, f \in Execs, m \in Nodes : Writing(c, f, m) => Writing(c, f, m)'
    <3>1. \A f \in Execs, m \in Nodes : ~Writing(d, f, m) BY <2>3 DEF Writing
    <3> QED BY <1>1, <3>1
  <2> SUFFICES ASSUME restarts = 0, NEW f \in Execs, NEW m \in Nodes
               PROVE  \/ dispatched'[f][m] = 0
                      \/ /\ dispatched'[f][m] = 1
                         /\ rows[f][m].status # "pending" \/ \E c \in Calls : Writing(c, f, m)'
    BY <2>3 DEF Ran
  <2>9. CASE f = e /\ m = n
    <3>1. dispatched[e][n] = 0 BY <2>5, <2>7 DEF Ran
    <3>2. dispatched'[f][m] = 1 BY <2>1, <2>4, <2>9, <3>1
    <3> QED BY <2>6, <2>9, <3>2
  <2>10. CASE ~(f = e /\ m = n)
    <3>1. dispatched'[f][m] = dispatched[f][m] BY <2>1, <2>4, <2>10
    <3> QED BY <2>8, <3>1 DEF Ran
  <2> QED BY <2>9, <2>10
<1>5. CASE PersistNode(d)
  <2>1. PICK e \in Execs, n \in Nodes : e = act[d].e /\ n = act[d].n BY <1>5, PersistIs
  <2>2. Kept /\ rows'[e][n].status # "pending" BY <1>2, <1>5, <2>1, OwnPersist
  <2>3. \A f \in Execs, m \in Nodes : Writing(d, f, m) => f = e /\ m = n BY <2>1 DEF Writing
  <2> QED BY <1>1, <2>2, <2>3 DEF Ran, Kept
<1> QED BY <1>2, <1>3, <1>4, <1>5, OutsideLoop, OwnLoop, OwnWave, OwnTake DEF Step

LEMMA RecoverKeeps ==
  ASSUME TypeInv, NEW d \in Calls, NEW e \in Execs, Recover(d, e)
  PROVE  Kept
<1>1. /\ UNCHANGED <<dispatched, restarts>> /\ rows' = [rows EXCEPT ![e] = Recovered(rows[e])]
  BY RecoverIs
<1>2. rows \in [Execs -> [Nodes -> NodeState]] BY DEF TypeInv
<1>3. \A n \in Nodes : rows[e][n].status # "pending" => Recovered(rows[e])[n].status # "pending"
  <2> SUFFICES ASSUME NEW n \in Nodes, rows[e][n].status # "pending"
               PROVE  Recovered(rows[e])[n].status # "pending"
    OBVIOUS
  <2>1. CASE rows[e][n].status = "running"
    <3>1. Recovered(rows[e])[n] = [status |-> "failed", ports |-> {}] BY <2>1 DEF Recovered
    <3> QED BY <3>1
  <2>2. CASE rows[e][n].status # "running"
    <3>1. Recovered(rows[e])[n] = rows[e][n] BY <2>2 DEF Recovered
    <3> QED BY <3>1
  <2> QED BY <2>1, <2>2
<1>4. \A f \in Execs, n \in Nodes :
        rows[f][n].status # "pending" => rows'[f][n].status # "pending"
  BY <1>1, <1>2, <1>3
<1> QED BY <1>1, <1>4 DEF Kept

\* A call that begins: it is not in its loop, and the others stay where they are.
LEMMA Begins ==
  ASSUME TypeInv, NEW d \in Calls, NEW e \in Execs,
         \/ Start(d, e) \/ Tick(d, e) \/ DomainEvent(d, e) \/ Cancel(d, e) \/ Recover(d, e)
         \/ \E x \in {"approved", "rejected"} : Respond(d, e, x)
  PROVE  /\ act[d].pc = "idle" /\ act'[d].pc \notin Looping \cup {"idle"} /\ act'[d].e = e
         /\ \A c \in Calls : c # d => act'[c] = act[c]
         /\ \A f \in Execs : f # e => rows'[f] = rows[f]
         /\ Kept
<1>1. CASE Recover(d, e)
  <2>1. act[d].pc = "idle" /\ act'[d].pc = "load" /\ rows' = [rows EXCEPT ![e] = Recovered(rows[e])]
    BY <1>1, RecoverIs
  <2>2. \A f \in Execs : f # e => rows'[f] = rows[f] BY <2>1 DEF TypeInv
  <2>3. "out" \in Ports /\ "load" \in {"load", "match", "respond"} BY PortTypes
  <2>4. PICK b \in Activations :
          act' = [act EXCEPT ![d] = b] /\ Fresh(b, "load", e, None, "out", "completed", FALSE)
    BY <1>1, <2>3, BeginIs DEF Recover
  <2>5. act'[d].e = e /\ \A c \in Calls : c # d => act'[c] = act[c] BY <2>4 DEF TypeInv, Fresh
  <2> QED BY <1>1, <2>1, <2>2, <2>5, RecoverKeeps DEF Looping
<1>2. CASE \/ Start(d, e) \/ Tick(d, e) \/ DomainEvent(d, e) \/ Cancel(d, e)
           \/ \E x \in {"approved", "rejected"} : Respond(d, e, x)
  <2>1. /\ act[d].pc = "idle" /\ act'[d].e = e /\ UNCHANGED <<rows, dispatched, restarts>>
        /\ act'[d].pc \in {"load", "resume", "expire", "match", "respond", "finalize", "flag"}
    BY <1>2, ComesIn
  <2>2. \E b : act' = [act EXCEPT ![d] = b]
    BY <1>2 DEF Start, Tick, DomainEvent, Cancel, Respond, Begin
  <2>3. \A c \in Calls : c # d => act'[c] = act[c] BY <2>2 DEF TypeInv
  <2> QED BY <2>1, <2>3 DEF Looping, Kept
<1> QED BY <1>1, <1>2

LEMMA RunNext == RunInv /\ Exclusive /\ Exclusive' /\ [Next]_vars => RunInv'
<1> SUFFICES ASSUME RunInv, Exclusive, Exclusive', [Next]_vars PROVE RunInv' OBVIOUS
<1>1. TypeInv /\ (\A c \in Calls : Own(c)) /\ Ran BY DEF RunInv
<1>2. TypeInv' BY <1>1, TypeNext
<1>3. CASE UNCHANGED vars
  <2>1. (\A c \in Calls : Own(c))' BY <1>1, <1>3 DEF vars, Own, Mirror, Untouched
  <2>2. Ran' BY <1>1, <1>3 DEF vars, Ran, Writing
  <2> QED BY <1>2, <2>1, <2>2 DEF RunInv
<1>4. CASE Restart
  <2>1. \A c \in Calls : act'[c].pc = "idle" BY <1>4, IdleIs DEF Restart, Fresh
  <2>2. restarts' # 0 BY <1>1, <1>4, RestartAssumption DEF Restart, TypeInv
  <2>3. (\A c \in Calls : Own(c))' BY <2>1 DEF Own, Mirror, Untouched, Looping
  <2> QED BY <1>2, <2>2, <2>3 DEF RunInv, Ran
<1>5. ASSUME NEW d \in Calls, Step(d) PROVE RunInv'
  <2>1. \A c \in Calls : Own(c)' BY <1>1, <1>5, OwnStep
  <2>2. Ran' BY <1>1, <1>5, RanStep
  <2> QED BY <1>2, <2>1, <2>2 DEF RunInv
<1>6. ASSUME NEW d \in Calls, NEW e \in Execs,
             \/ Start(d, e) \/ Tick(d, e) \/ DomainEvent(d, e) \/ Cancel(d, e) \/ Recover(d, e)
             \/ \E x \in {"approved", "rejected"} : Respond(d, e, x)
      PROVE  RunInv'
  <2>1. /\ act[d].pc = "idle" /\ act'[d].pc \notin Looping \cup {"idle"} /\ act'[d].e = e
        /\ \A c \in Calls : c # d => act'[c] = act[c]
        /\ \A f \in Execs : f # e => rows'[f] = rows[f]
        /\ Kept
    BY <1>1, <1>6, Begins
  <2>2. ASSUME NEW c \in Calls PROVE Own(c)'
    <3>1. CASE c = d BY <2>1, <3>1 DEF Own, Mirror, Untouched, Looping
    <3>2. CASE c # d
      <4>1. act'[c] = act[c] BY <2>1, <3>2
      <4>2. Working(c) => act[c].e \in Execs
        BY <1>1 DEF Working, TypeInv, Activations, OnExec
      <4>3. Working(c) => rows'[act[c].e] = rows[act[c].e]
        <5>1. CASE Recover(d, e)
          <6>1. act'[d].pc = "load" BY <1>1, <5>1, RecoverIs
          <6>2. Working(c) => act[c].e # e
            BY <2>1, <3>2, <4>1, <6>1 DEF Exclusive, Working
          <6> QED BY <2>1, <4>2, <6>2
        <5>2. CASE ~Recover(d, e)
          BY <1>6, <5>2 DEF Start, Tick, DomainEvent, Cancel, Respond
        <5> QED BY <5>1, <5>2
      <4> QED BY <1>1, <4>1, <4>3, OwnUntouched
    <3> QED BY <3>1, <3>2
  <2>3. \A c \in Calls, f \in Execs, n \in Nodes : Writing(c, f, n) => Writing(c, f, n)'
    BY <2>1 DEF Writing
  <2>4. Ran' BY <1>1, <2>1, <2>3, RanKept
  <2> QED BY <1>2, <2>2, <2>4 DEF RunInv
<1> QED BY <1>3, <1>4, <1>5, <1>6, Zenon DEF Next

----------------------------------------------------------------------------
(* Workflows that wait for nothing but the time.                            *)

\* No execution waits for an event, a decision or a child: all its waits are delays,
\* which only the tick resumes.
Unattended ==
  \A e \in Execs :
    /\ Parent[e] = None
    /\ \A n \in GraphOf[e].nodes : Cat(e, n) \notin {"wait", "approval", "subworkflow"}

\* The tick would resume e.
Due(e) == Status(e) = "waiting" /\ exec[e].timer = "resumeAt"

\* The stages of subworkflows, gates and events.
Attended == {"gate", "child", "expire", "match", "respond"}

\* A call that works on e came from where only one can come from: its start, the tick,
\* or boot recovery.  While it works e is not due, except to the tick that made it
\* work, and recovery does not have it on its list.
Sole(c) ==
  /\ Working(c) => /\ Status(act[c].e) # "absent" /\ act[c].e \notin orphans
                   /\ act[c].tick \/ ~Due(act[c].e)
  /\ act[c].pc \notin Attended
  /\ act[c].pc \in {"arm", "setWaiting"} => Cat(act[c].e, act[c].n) = "delay"

SoleInv ==
  /\ Exclusive
  /\ \A c, d \in Calls : act[c].tick /\ act[d].tick => c = d
  /\ \A c \in Calls : Sole(c)
  /\ \A e \in Execs : /\ Status(e) \notin {"waiting_for_event", "waiting_for_approval"}
                      /\ approval[e] = "none"
  /\ \A e \in orphans : Status(e) # "absent" /\ ~Due(e)

LEMMA SoleInit == Init => SoleInv
<1> SUFFICES ASSUME Init PROVE SoleInv OBVIOUS
<1>1. \A c \in Calls : act[c].pc = "idle" /\ act[c].tick = FALSE BY DEF Init, Idle
<1>2. \A e \in Execs : Status(e) = "absent" /\ approval[e] = "none" BY DEF Init, Status
<1>3. orphans = {} BY DEF Init
<1> QED BY <1>1, <1>2, <1>3 DEF SoleInv, Exclusive, Working, Sole, Attended

\* What call d may do to its execution: nothing, or a status that makes it due only when
\* the call is over.
Marks(d) ==
  \/ UNCHANGED exec
  \/ \E x \in ExecType :
       /\ exec' = [exec EXCEPT ![act[d].e] = x]
       /\ x.status \notin {"absent", "waiting_for_event", "waiting_for_approval"}
       /\ x.status = "waiting" => Working(d) /\ ~Working(d)'

\* And to itself: it works on, or does so no longer.
GoesOn(d) ==
  \/ ~Working(d)' /\ (act'[d].tick => act[d].tick)
  \/ /\ Working(d) /\ act'[d].e = act[d].e /\ act'[d].tick = act[d].tick
     /\ act'[d].pc \notin Attended
     /\ act'[d].pc \in {"arm", "setWaiting"} => Cat(act'[d].e, act'[d].n) = "delay"

LEMMA SoleKept ==
  ASSUME TypeInv, SoleInv, NEW d \in Calls, act[d].pc # "idle",
         \A c \in Calls : c # d => act'[c] = act[c],
         UNCHANGED <<approval, orphans>>, Marks(d), GoesOn(d)
  PROVE  SoleInv'
<1>1. /\ act[d].e \in Execs /\ exec \in [Execs -> ExecType] /\ orphans \subseteq Execs
      /\ \A c \in Calls : Working(c) => act[c].e \in Execs
  BY DEF TypeInv, Activations, OnExec, Working
<1>2. ASSUME NEW e \in Execs
      PROVE  /\ Status(e) # "absent" => Status(e)' # "absent"
             /\ Status(e)' \notin {"waiting_for_event", "waiting_for_approval"}
             /\ Due(e)' => Due(e) \/ (e = act[d].e /\ Working(d) /\ ~Working(d)')
  BY <1>1 DEF Marks, Status, Due, SoleInv
<1>3. Exclusive' BY DEF SoleInv, Exclusive, GoesOn, Working
<1>4. (\A c, x \in Calls : act[c].tick /\ act[x].tick => c = x)' BY DEF SoleInv, GoesOn
<1>5. ASSUME NEW c \in Calls PROVE Sole(c)'
  <2>1. Sole(c) /\ Sole(d) BY DEF SoleInv
  <2>2. CASE c # d
    <3>1. act'[c] = act[c] /\ (Working(c)' <=> Working(c)) BY <2>2 DEF Working
    <3>2. Working(c) => ~(act[c].e = act[d].e /\ Working(d)) BY <2>2 DEF SoleInv, Exclusive
    <3> QED BY <1>1, <1>2, <2>1, <3>1, <3>2 DEF Sole
  <2>3. CASE c = d /\ ~Working(d)' BY <2>3 DEF Sole, Working, Attended
  <2>4. CASE c = d /\ Working(d)'
    <3>1. /\ Working(d) /\ act'[d].e = act[d].e /\ act'[d].tick = act[d].tick
          /\ act'[d].pc \notin Attended
          /\ act'[d].pc \in {"arm", "setWaiting"} => Cat(act'[d].e, act'[d].n) = "delay"
      BY <2>4 DEF GoesOn
    <3> QED BY <1>1, <1>2, <2>1, <2>4, <3>1 DEF Sole, Cat
  <2> QED BY <2>2, <2>3, <2>4
<1>6. ASSUME NEW e \in orphans' PROVE Status(e)' # "absent" /\ ~Due(e)'
  <2>1. e \in orphans /\ e \in Execs BY <1>1
  <2>2. Working(d) => act[d].e # e BY <2>1 DEF SoleInv, Sole
  <2> QED BY <1>2, <2>1, <2>2 DEF SoleInv
<1> QED BY <1>2, <1>3, <1>4, <1>5, <1>6 DEF SoleInv

\* Steps that only move the call on.
LEMMA SoleMoves ==
  ASSUME TypeInv, SoleInv, Unattended, NEW d \in Calls,
         \/ Load(d) \/ LoadStates(d) \/ Wave(d) \/ TakeNode(d) \/ DispatchAction(d)
         \/ PersistNode(d) \/ Arm(d) \/ Resume(d) \/ FindWaiting(d) \/ ResumeNode(d)
  PROVE  GoesOn(d)
<1>1. act \in [Calls -> Activations] /\ act[d] \in ActType /\ OnExec(act[d]) /\ Sole(d)
  BY DEF TypeInv, Activations, SoleInv
<1>2. Working(d)
  BY DEF Load, LoadStates, Wave, TakeNode, DispatchAction, PersistNode, Arm, Resume,
         FindWaiting, ResumeNode, At, Working
<1>3. ASSUME NEW p \in Stages \ (Attended \cup {"arm", "setWaiting"}), Goto(d, p) PROVE GoesOn(d)
  <2>1. PICK b : act' = [act EXCEPT ![d] = b] /\ Moved(act[d], b, p) BY <1>3, Goes
  <2> QED BY <1>1, <1>2, <2>1 DEF GoesOn, Moved
<1>4. CASE Return(d) BY <1>1, <1>4, IdleIs DEF Return, GoesOn, Working, Fresh
<1>5. ASSUME NEW b, act' = [act EXCEPT ![d] = b], b.e = act[d].e, b.tick = act[d].tick,
             b.pc \notin Attended \cup {"arm", "setWaiting"}
      PROVE  GoesOn(d)
  BY <1>1, <1>2, <1>5 DEF GoesOn
<1>6. CASE Load(d) \/ Resume(d) \/ DispatchAction(d) \/ ResumeNode(d)
  <2>1. Return(d) \/ \E p \in {"states", "find", "persist", "resumeExec"} : Goto(d, p)
    BY <1>6 DEF Load, Resume, DispatchAction, ResumeNode
  <2> QED BY <1>3, <1>4, <2>1 DEF Stages, Attended
<1>7. CASE Arm(d)
  <2>1. act[d].pc = "arm" BY <1>7 DEF Arm, At
  <2>2. Cat(act[d].e, act[d].n) = "delay" BY <1>1, <2>1 DEF Sole
  <2>3. Goto(d, "setWaiting") BY <1>7, <2>2 DEF Arm
  <2>4. PICK b : act' = [act EXCEPT ![d] = b] /\ Moved(act[d], b, "setWaiting")
    BY <2>3, Goes DEF Stages
  <2> QED BY <1>1, <1>2, <2>2, <2>4 DEF GoesOn, Moved, Attended
<1>8. CASE LoadStates(d)
  <2> DEFINE b == [act[d] EXCEPT !.pc = "mark", !.st = rows[act[d].e]]
  <2>1. act' = [act EXCEPT ![d] = b] BY <1>8 DEF LoadStates
  <2>2. b.pc = "mark" /\ b.e = act[d].e /\ b.tick = act[d].tick BY <1>1 DEF ActType
  <2> HIDE DEF b
  <2> QED BY <1>5, <2>1, <2>2 DEF Attended
<1>9. CASE FindWaiting(d)
  <2>1. ASSUME NEW n, act' = [act EXCEPT ![d] = [@ EXCEPT !.n = n, !.pc = "resumeNode"]]
        PROVE  GoesOn(d)
    <3> DEFINE b == [act[d] EXCEPT !.n = n, !.pc = "resumeNode"]
    <3>1. act' = [act EXCEPT ![d] = b] BY <2>1
    <3>2. b.pc = "resumeNode" /\ b.e = act[d].e /\ b.tick = act[d].tick BY <1>1 DEF ActType
    <3> HIDE DEF b
    <3> QED BY <1>5, <3>1, <3>2 DEF Attended
  <2> QED BY <1>4, <1>9, <2>1 DEF FindWaiting
<1>10. CASE TakeNode(d)
  <2>1. PICK n \in act[d].todo :
          act' = [act EXCEPT ![d] = [@ EXCEPT
                    !.n = n,
                    !.pc = CASE Cat(act[d].e, n) \in PAUSING -> "arm"
                             [] Cat(act[d].e, n) = "action" -> "dispatch"
                             [] OTHER -> "persist"]]
    BY <1>10 DEF TakeNode
  <2>2. PICK p \in {"arm", "dispatch", "persist"} :
          /\ p = (CASE Cat(act[d].e, n) \in PAUSING -> "arm"
                    [] Cat(act[d].e, n) = "action" -> "dispatch"
                    [] OTHER -> "persist")
          /\ p = "arm" => Cat(act[d].e, n) \in PAUSING
    BY DEF PAUSING
  <2> DEFINE b == [act[d] EXCEPT !.n = n, !.pc = p]
  <2>3. act' = [act EXCEPT ![d] = b] BY <2>1, <2>2
  <2>4. b.pc = p /\ b.n = n /\ b.e = act[d].e /\ b.tick = act[d].tick BY <1>1 DEF ActType
  <2> HIDE DEF b
  <2>5. act[d].pc = "node" /\ act[d].e \in Execs BY <1>1, <1>10 DEF TakeNode, At, OnExec
  <2>6. n \in GraphOf[act[d].e].nodes BY <1>1, <2>5 DEF OnExec
  <2>7. p = "arm" => Cat(act[d].e, n) = "delay" BY <2>2, <2>5, <2>6 DEF Unattended, PAUSING
  <2> QED BY <1>1, <1>2, <2>3, <2>4, <2>7 DEF GoesOn, Attended
<1>11. CASE PersistNode(d)
  <2>1. PICK b \in Activations :
          /\ act' = [act EXCEPT ![d] = b] /\ b.pc \in {"finalize", "node", "wave"}
          /\ b.e = act[d].e /\ b.tick = act[d].tick
    BY <1>11, PersistIs
  <2> QED BY <1>5, <2>1 DEF Attended
<1>12. CASE Wave(d)
  <2>1. PICK b \in Activations :
          /\ act' = [act EXCEPT ![d] = b] /\ b.pc \in {"finalize", "node", "wave"}
          /\ b.e = act[d].e /\ b.tick = act[d].tick
    BY <1>12, WaveIs
  <2> QED BY <1>5, <2>1 DEF Attended
<1> QED BY <1>6, <1>7, <1>8, <1>9, <1>10, <1>11, <1>12

\* Steps that set the status of the execution.
LEMMA SoleMarks ==
  ASSUME TypeInv, SoleInv, Unattended, NEW d \in Calls,
         \/ MarkRunning(d) \/ SetWaiting(d) \/ Finalize(d) \/ ResumeExec(d) \/ FlagCancelling(d)
  PROVE  GoesOn(d) /\ Marks(d)
<1>1. /\ act \in [Calls -> Activations] /\ act[d] \in ActType /\ OnExec(act[d]) /\ Sole(d)
      /\ exec \in [Execs -> ExecType]
  BY DEF TypeInv, Activations, SoleInv
<1>2. act[d].pc # "idle"
  BY DEF MarkRunning, SetWaiting, Finalize, ResumeExec, FlagCancelling, At
<1>3. act[d].e \in Execs BY <1>1, <1>2 DEF OnExec
<1>4. Return(d) => ~Working(d)' /\ GoesOn(d)
  BY <1>1, IdleIs DEF Return, GoesOn, Working, Fresh
<1>5. ASSUME NEW s \in EXECUTION_ACTIVE \cup TERMINAL, SetStatus(act[d].e, s), 
             s \notin {"waiting", "waiting_for_event", "waiting_for_approval"}
      PROVE  Marks(d)
  <2> DEFINE x == [exec[act[d].e] EXCEPT !.status = s]
  <2>1. exec' = [exec EXCEPT ![act[d].e] = x] BY <1>3, <1>5, <1>1 DEF SetStatus
  <2>2. x \in ExecType /\ x.status = s BY <1>1, <1>3 DEF ExecType
  <2>3. s # "absent" BY DEF EXECUTION_ACTIVE, TERMINAL, WAITING_STATUSES
  <2> HIDE DEF x
  <2> QED BY <1>5, <2>1, <2>2, <2>3 DEF Marks
<1>6. CASE MarkRunning(d)
  <2>1. PICK b : act' = [act EXCEPT ![d] = b] /\ Moved(act[d], b, "wave")
    BY <1>6, Goes DEF MarkRunning, Stages
  <2>2. Working(d) BY <1>6 DEF MarkRunning, At, Working
  <2>3. GoesOn(d) BY <1>1, <2>1, <2>2 DEF GoesOn, Moved, Attended
  <2> QED BY <1>5, <1>6, <2>3 DEF MarkRunning, EXECUTION_ACTIVE
<1>7. CASE SetWaiting(d)
  <2>1. act[d].pc = "setWaiting" BY <1>7 DEF SetWaiting, At
  <2>2. Cat(act[d].e, act[d].n) = "delay" BY <1>1, <2>1 DEF Sole
  <2>3. Return(d) BY <1>7, <2>2 DEF SetWaiting
  <2> DEFINE x == [status |-> "waiting", timer |-> "resumeAt"]
  <2>4. exec' = [exec EXCEPT ![act[d].e] = x] BY <1>7, <2>2 DEF SetWaiting
  <2>5. x \in ExecType BY DEF ExecType, EXECUTION_ACTIVE, WAITING_STATUSES
  <2>6. Working(d) BY <2>1 DEF Working
  <2> QED BY <1>4, <2>3, <2>4, <2>5, <2>6 DEF Marks
<1>8. CASE Finalize(d)
  <2>1. Parent[act[d].e] = None BY <1>3 DEF Unattended
  <2>2. Return(d) /\ SetStatus(act[d].e, act[d].goal) BY <1>8, <2>1 DEF Finalize
  <2>3. act[d].goal \in TERMINAL BY <1>1 DEF ActType
  <2>4. act[d].goal \notin {"waiting", "waiting_for_event", "waiting_for_approval"}
    BY <2>3 DEF TERMINAL
  <2> QED BY <1>4, <1>5, <2>2, <2>3, <2>4
<1>9. CASE FlagCancelling(d)
  BY <1>4, <1>5, <1>9 DEF FlagCancelling, EXECUTION_ACTIVE
<1>10. CASE ResumeExec(d)
  <2> DEFINE x == [status |-> "running", timer |-> "none"]
  <2>1. exec' = [exec EXCEPT ![act[d].e] = x] BY <1>10 DEF ResumeExec
  <2>2. x \in ExecType BY DEF ExecType, EXECUTION_ACTIVE
  <2>3. PICK e, t : e = act[d].e /\ t = act[d].tick OBVIOUS
  <2> DEFINE b == [Idle EXCEPT !.pc = "load", !.e = e, !.tick = t]
  <2>4. act' = [act EXCEPT ![d] = b] BY <1>10, <2>3 DEF ResumeExec
  <2>5. b.pc = "load" /\ b.e = e /\ b.tick = t BY IdleIs DEF Fresh, ActType
  <2> HIDE DEF b
  <2>6. Working(d) BY <1>10 DEF ResumeExec, At, Working
  <2>7. GoesOn(d) BY <1>1, <2>3, <2>4, <2>5, <2>6 DEF GoesOn, Attended
  <2> QED BY <2>1, <2>2, <2>7 DEF Marks
<1> QED BY <1>6, <1>7, <1>8, <1>9, <1>10

LEMMA SoleStep ==
  ASSUME TypeInv, SoleInv, Unattended, NEW d \in Calls, Step(d) PROVE SoleInv'
<1>1. act[d].pc # "idle" /\ \A c \in Calls : c # d => act'[c] = act[c] BY StepIsLocal
<1>2. act[d].pc \notin Attended BY DEF SoleInv, Sole
<1>3. CASE \/ MarkRunning(d) \/ SetWaiting(d) \/ Finalize(d) \/ ResumeExec(d) \/ FlagCancelling(d)
  <2>1. UNCHANGED <<approval, orphans>>
    BY <1>3 DEF MarkRunning, SetWaiting, Finalize, ResumeExec, FlagCancelling
  <2> QED BY <1>1, <1>3, <2>1, SoleMarks, SoleKept
<1>4. CASE \/ Load(d) \/ LoadStates(d) \/ Wave(d) \/ TakeNode(d) \/ DispatchAction(d)
           \/ PersistNode(d) \/ Arm(d) \/ Resume(d) \/ FindWaiting(d) \/ ResumeNode(d)
  <2>1. UNCHANGED <<approval, orphans>> /\ Marks(d)
    BY <1>4 DEF Load, LoadStates, Wave, TakeNode, DispatchAction, PersistNode, Arm, Resume,
                FindWaiting, ResumeNode, Marks
  <2> QED BY <1>1, <1>4, <2>1, SoleMoves, SoleKept
<1>5. ~(\/ CreateApproval(d) \/ StartChild(d) \/ ExpireApproval(d) \/ MatchEvent(d)
        \/ RecordDecision(d))
  BY <1>2 DEF CreateApproval, StartChild, ExpireApproval, MatchEvent, RecordDecision, At, Attended
<1> QED BY <1>3, <1>4, <1>5 DEF Step

\* A call comes in where no other works: at an execution that is not there yet, that is
\* due, or that recovery takes off its list.
LEMMA SoleBegins ==
  ASSUME TypeInv, SoleInv, NEW d \in Calls, NEW e \in Execs,
         \/ Start(d, e) \/ Tick(d, e) \/ DomainEvent(d, e) \/ Cancel(d, e) \/ Recover(d, e)
         \/ \E x \in {"approved", "rejected"} : Respond(d, e, x)
  PROVE  SoleInv'
<1>1. /\ act \in [Calls -> Activations] /\ exec \in [Execs -> ExecType] /\ orphans \subseteq Execs
      /\ \A c \in Calls : Working(c) => act[c].e \in Execs
  BY DEF TypeInv, Activations, OnExec, Working
<1>2. act[d].pc = "idle" /\ act'[d].e = e /\ \A c \in Calls : c # d => act'[c] = act[c] BY Begins
<1>3. ~DomainEvent(d, e) /\ ~\E x \in {"approved", "rejected"} : Respond(d, e, x)
  BY DEF DomainEvent, Respond, SoleInv
<1>4. ASSUME \A c \in Calls : Working(c) => act[c].e # e,
             act'[d].pc \in {"load", "resume"},
             Status(e)' # "absent", act'[d].tick \/ ~Due(e)', e \notin orphans',
             act'[d].tick => \A c \in Calls : ~act[c].tick,
             Status(e)' \notin {"waiting_for_event", "waiting_for_approval"},
             \A f \in Execs \ {e} : exec'[f] = exec[f],
             UNCHANGED approval, orphans' \subseteq orphans
      PROVE  SoleInv'
  <2>1. Working(d)' /\ \A c \in Calls : c # d => (Working(c)' <=> Working(c))
    BY <1>2, <1>4 DEF Working
  <2>2. Exclusive' BY <1>2, <1>4, <2>1 DEF SoleInv, Exclusive
  <2>3. (\A c, x \in Calls : act[c].tick /\ act[x].tick => c = x)' BY <1>2, <1>4 DEF SoleInv
  <2>4. ASSUME NEW c \in Calls PROVE Sole(c)'
    <3>1. CASE c = d BY <1>2, <1>4, <3>1 DEF Sole, Attended
    <3>2. CASE c # d
      <4>1. act'[c] = act[c] /\ (Working(c)' <=> Working(c)) /\ Sole(c)
        BY <1>2, <2>1, <3>2 DEF SoleInv
      <4>2. Working(c) => exec'[act[c].e] = exec[act[c].e] BY <1>1, <1>4
      <4> QED BY <1>4, <4>1, <4>2 DEF Sole, Status, Due, Cat
    <3> QED BY <3>1, <3>2
  <2>5. ASSUME NEW f \in Execs
        PROVE  /\ Status(f)' \notin {"waiting_for_event", "waiting_for_approval"}
               /\ approval'[f] = "none"
    BY <1>4 DEF SoleInv, Status
  <2>6. ASSUME NEW f \in orphans' PROVE Status(f)' # "absent" /\ ~Due(f)'
    <3>1. f \in orphans /\ f \in Execs \ {e} BY <1>1, <1>4
    <3> QED BY <1>4, <3>1 DEF SoleInv, Status, Due
  <2> QED BY <2>2, <2>3, <2>4, <2>5, <2>6 DEF SoleInv
<1>5. CASE Start(d, e)
  <2>1. \A c \in Calls : Working(c) => act[c].e # e BY <1>5 DEF Start, SoleInv, Sole
  <2>2. e \notin orphans BY <1>5 DEF Start, SoleInv
  <2>3. "out" \in Ports /\ "load" \in {"load", "match", "respond"} BY PortTypes
  <2>4. PICK b : act' = [act EXCEPT ![d] = b] /\ Fresh(b, "load", e, None, "out", "completed", FALSE)
    BY <1>5, <2>3, BeginIs DEF Start
  <2>5. act'[d].pc = "load" /\ ~act'[d].tick BY <1>1, <2>4 DEF Fresh
  <2>6. /\ Status(e)' = "queued" /\ \A f \in Execs \ {e} : exec'[f] = exec[f]
        /\ UNCHANGED <<approval, orphans>>
    BY <1>1, <1>5 DEF Start, SetStatus, Status, ExecType
  <2> QED BY <1>4, <2>1, <2>2, <2>5, <2>6 DEF Due
<1>6. CASE Recover(d, e)
  <2>1. /\ e \in orphans /\ orphans' = orphans \ {e} /\ UNCHANGED <<exec, approval>>
    BY <1>6 DEF Recover
  <2>2. \A c \in Calls : Working(c) => act[c].e # e BY <2>1 DEF SoleInv, Sole
  <2>3. "out" \in Ports /\ "load" \in {"load", "match", "respond"} BY PortTypes
  <2>4. PICK b : act' = [act EXCEPT ![d] = b] /\ Fresh(b, "load", e, None, "out", "completed", FALSE)
    BY <1>6, <2>3, BeginIs DEF Recover
  <2>5. act'[d].pc = "load" /\ ~act'[d].tick BY <1>1, <2>4 DEF Fresh
  <2>6. Status(e) # "absent" /\ ~Due(e) BY <2>1 DEF SoleInv
  <2>7. Status(e) \notin {"waiting_for_event", "waiting_for_approval"} BY DEF SoleInv
  <2>8. Status(e)' = Status(e) /\ Due(e)' = Due(e) BY <2>1 DEF Status, Due
  <2> QED BY <1>4, <2>1, <2>2, <2>5, <2>6, <2>7, <2>8
<1>7. CASE Tick(d, e)
  <2>1. /\ Due(e) /\ (\A c \in Calls : ~act[c].tick) /\ UNCHANGED <<exec, approval, orphans>>
        /\ act' = [act EXCEPT ![d] = [Idle EXCEPT !.pc = "resume", !.e = e, !.tick = TRUE]]
    BY <1>7 DEF Tick, SoleInv, Due
  <2>2. \A c \in Calls : Working(c) => act[c].e # e BY <2>1 DEF SoleInv, Sole
  <2>3. e \notin orphans BY <2>1 DEF SoleInv
  <2> DEFINE b == [Idle EXCEPT !.pc = "resume", !.e = e, !.tick = TRUE]
  <2>4. b.pc = "resume" /\ b.tick = TRUE BY IdleIs DEF Fresh, ActType
  <2>5. act' = [act EXCEPT ![d] = b] BY <2>1
  <2> HIDE DEF b
  <2>6. act'[d].pc = "resume" /\ act'[d].tick BY <1>1, <2>4, <2>5
  <2>7. Status(e)' = "waiting" BY <2>1 DEF Due, Status
  <2> QED BY <1>4, <2>1, <2>2, <2>3, <2>6, <2>7
<1>8. CASE Cancel(d, e)
  <2>1. PICK p \in {"finalize", "flag"} :
          act' = [act EXCEPT ![d] = [Idle EXCEPT !.e = e, !.goal = "cancelled", !.pc = p]]
    BY <1>8 DEF Cancel
  <2> DEFINE b == [Idle EXCEPT !.e = e, !.goal = "cancelled", !.pc = p]
  <2>2. b.pc = p /\ b.tick = FALSE BY IdleIs DEF Fresh, ActType
  <2>3. act' = [act EXCEPT ![d] = b] BY <2>1
  <2> HIDE DEF b
  <2>4. ~Working(d)' /\ ~Working(d) /\ ~act'[d].tick BY <1>1, <1>2, <2>2, <2>3 DEF Working
  <2>5. UNCHANGED <<exec, approval, orphans>> BY <1>8 DEF Cancel
  <2>6. \A c \in Calls : c # d => (Working(c)' <=> Working(c)) BY <1>2 DEF Working
  <2>7. Exclusive' BY <1>2, <2>4, <2>6 DEF SoleInv, Exclusive
  <2>8. (\A c, x \in Calls : act[c].tick /\ act[x].tick => c = x)' BY <1>2, <2>4 DEF SoleInv
  <2>9. ASSUME NEW c \in Calls PROVE Sole(c)'
    <3>1. CASE c = d BY <2>4, <3>1 DEF Sole, Working, Attended
    <3>2. CASE c # d
      BY <1>2, <2>5, <2>6, <3>2 DEF SoleInv, Sole, Status, Due, Cat
    <3> QED BY <3>1, <3>2
  <2> QED BY <2>5, <2>7, <2>8, <2>9 DEF SoleInv, Status, Due
<1> QED BY <1>3, <1>5, <1>6, <1>7, <1>8

LEMMA SoleNext == TypeInv /\ SoleInv /\ Unattended /\ [Next]_vars => SoleInv'
<1> SUFFICES ASSUME TypeInv, SoleInv, Unattended, [Next]_vars PROVE SoleInv' OBVIOUS
<1>1. CASE UNCHANGED vars
  BY <1>1 DEF vars, SoleInv, Exclusive, Working, Sole, Status, Due, Cat
<1>2. CASE Restart
  <2>1. \A c \in Calls : act'[c].pc = "idle" /\ ~act'[c].tick BY <1>2, IdleIs DEF Restart, Fresh
  <2>2. /\ UNCHANGED <<exec, approval>>
        /\ orphans' = {e \in Execs : Status(e) \in {"queued", "running", "retrying"}}
    BY <1>2 DEF Restart
  <2> QED BY <2>1, <2>2 DEF SoleInv, Exclusive, Working, Sole, Attended, Status, Due
<1>3. ASSUME NEW d \in Calls, Step(d) PROVE SoleInv' BY <1>3, SoleStep
<1>4. ASSUME NEW d \in Calls, NEW e \in Execs,
             \/ Start(d, e) \/ Tick(d, e) \/ DomainEvent(d, e) \/ Cancel(d, e) \/ Recover(d, e)
             \/ \E x \in {"approved", "rejected"} : Respond(d, e, x)
      PROVE  SoleInv'
  BY <1>4, SoleBegins
<1> QED BY <1>1, <1>2, <1>3, <1>4, Zenon DEF Next

LEMMA UnattendedRuns == ASSUME Unattended PROVE Spec => [](RunInv /\ SoleInv)
<1>1. Init => RunInv /\ SoleInv BY RunInit, SoleInit
<1>2. RunInv /\ SoleInv /\ [Next]_vars => (RunInv /\ SoleInv)'
  <2> SUFFICES ASSUME RunInv, SoleInv, [Next]_vars PROVE RunInv' /\ SoleInv' OBVIOUS
  <2>1. SoleInv' BY SoleNext DEF RunInv
  <2>2. Exclusive /\ Exclusive' BY <2>1 DEF SoleInv
  <2> QED BY <2>1, <2>2, RunNext
<1> QED BY <1>1, <1>2, PTL DEF Spec

\* Workflows whose waits are all delays dispatch each action at most once, in an
\* execution no restart interrupted, however many starts, ticks and cancels overlap: the
\* tick awaits each run it resumes (tick), and with that no two run loops meet.  A wait
\* that an event, an approver or a child may resume beside the tick lacks this.
THEOREM DispatchedOnceUnattended == ASSUME Unattended PROVE Spec => []DispatchedOnce
<1>1. RunInv => DispatchedOnce
  <2> SUFFICES ASSUME RunInv, restarts = 0, NEW e \in Execs, NEW n \in Nodes
               PROVE  dispatched[e][n] <= 1
    BY DEF DispatchedOnce, Uninterrupted
  <2>1. dispatched[e][n] = 0 \/ dispatched[e][n] = 1 BY DEF RunInv, Ran
  <2> QED BY <2>1
<1> QED BY <1>1, UnattendedRuns, PTL

\* And a node whose outcome is in the database is not dispatched again (loadStates,
\* onModuleInit), through any number of restarts and recoveries.
THEOREM SettledNotRedispatchedUnattended == ASSUME Unattended PROVE Spec => SettledNotRedispatched
<1>1. RunInv /\ [Next]_vars =>
        [\A e \in Execs, n \in Nodes :
           dispatched'[e][n] # dispatched[e][n]
             => rows[e][n].status \notin {"succeeded", "failed", "skipped"}]_vars
  <2> SUFFICES ASSUME RunInv, Next, NEW e \in Execs, NEW n \in Nodes,
                      dispatched'[e][n] # dispatched[e][n]
               PROVE  rows[e][n].status \notin {"succeeded", "failed", "skipped"}
    OBVIOUS
  <2>1. PICK d \in Calls : DispatchAction(d)
    <3>1. UNCHANGED dispatched \/ \E d \in Calls : Step(d)
      BY DEF Next, Restart, Recover, Start, Tick, DomainEvent, Cancel, Respond
    <3>2. \A d \in Calls : Step(d) => DispatchAction(d) \/ UNCHANGED dispatched
      BY DEF Step, Load, LoadStates, MarkRunning, Wave, TakeNode, PersistNode, Arm, CreateApproval,
             SetWaiting, StartChild, Finalize, Resume, FindWaiting, ResumeNode, ResumeExec,
             ExpireApproval, MatchEvent, RecordDecision, FlagCancelling
    <3> QED BY <3>1, <3>2
  <2>2. TypeInv /\ Own(d) BY DEF RunInv
  <2>3. PICK f \in Execs, m \in Nodes : f = act[d].e /\ m = act[d].n BY <2>1, <2>2, DispatchIs
  <2>4. PICK k : dispatched' = [dispatched EXCEPT ![f][m] = k] BY <2>1, <2>2, <2>3, DispatchIs
  <2>5. e = f /\ n = m BY <2>2, <2>4 DEF TypeInv
  <2>6. rows[e][n].status = "pending" BY <2>1, <2>2, <2>3, <2>5, DispatchesPending
  <2> QED BY <2>6
<1> QED BY <1>1, UnattendedRuns, PTL DEF Spec, SettledNotRedispatched

----------------------------------------------------------------------------
(* The planner's waves (module PlannerWaves), on any acyclic graphs.        *)

\* The equation of ShouldRun, with the solution as a function and as a set.
RunsBody(x, o, runs, n) ==
  CASE x.cat[n] = "trigger" -> TRUE
    [] x.cat[n] = "join" ->
         /\ Incoming(x, n) # {}
         /\ \A e \in Incoming(x, n) : runs[e.src] /\ e.port \in o[e.src]
    [] OTHER -> \E e \in Incoming(x, n) : runs[e.src] /\ e.port \in o[e.src]
IsRuns(x, o, runs) == runs = [n \in x.nodes |-> RunsBody(x, o, runs, n)]

Asked(x, o, R, n) ==
  \/ x.cat[n] = "trigger"
  \/ /\ x.cat[n] = "join" /\ Incoming(x, n) # {}
     /\ \A e \in Incoming(x, n) : e.src \in R /\ e.port \in o[e.src]
  \/ /\ x.cat[n] \notin {"trigger", "join"}
     /\ \E e \in Incoming(x, n) : e.src \in R /\ e.port \in o[e.src]

LEMMA BodyIs ==
  ASSUME NEW x, NEW o, NEW runs, NEW R, NEW n, IsDag(x),
         \A m \in x.nodes : runs[m] = (m \in R)
  PROVE  RunsBody(x, o, runs, n) = Asked(x, o, R, n)
<1>1. \A e \in Incoming(x, n) : e.src \in x.nodes BY DEF Incoming, IsDag
<1>2. \A e \in Incoming(x, n) : runs[e.src] = (e.src \in R) BY <1>1
<1>3. CASE x.cat[n] = "trigger" BY <1>3 DEF RunsBody, Asked
<1>4. CASE x.cat[n] = "join" BY <1>2, <1>4 DEF RunsBody, Asked
<1>5. CASE x.cat[n] \notin {"trigger", "join"} BY <1>2, <1>5 DEF RunsBody, Asked
<1> QED BY <1>3, <1>4, <1>5

LEMMA AskedMonotone ==
  ASSUME NEW x, NEW o, NEW R, NEW S, R \subseteq S, NEW n, Asked(x, o, R, n)
  PROVE  Asked(x, o, S, n)
BY DEF Asked

\* The equation has a solution: the least set closed under it.
LEMMA RunsExist ==
  ASSUME NEW x, NEW o, IsDag(x)
  PROVE  \E runs : IsRuns(x, o, runs)
<1> DEFINE Closed == {S \in SUBSET x.nodes : \A n \in x.nodes : Asked(x, o, S, n) => n \in S}
           L == {n \in x.nodes : \A S \in Closed : n \in S}
           runs == [n \in x.nodes |-> n \in L]
<1>1. ASSUME NEW n \in x.nodes, Asked(x, o, L, n) PROVE n \in L
  <2>1. ASSUME NEW S \in Closed PROVE n \in S
    <3>1. L \subseteq S OBVIOUS
    <3>2. Asked(x, o, S, n)
      <4> HIDE DEF L, Closed
      <4> QED BY <1>1, <3>1, AskedMonotone
    <3> QED BY <3>2
  <2> QED BY <2>1
<1>2. ASSUME NEW n \in L PROVE Asked(x, o, L, n)
  <2> SUFFICES ASSUME ~Asked(x, o, L, n) PROVE FALSE OBVIOUS
  <2> DEFINE S == L \ {n}
  <2>1. ASSUME NEW m \in x.nodes, Asked(x, o, S, m) PROVE m \in S
    <3>1. Asked(x, o, L, m)
      <4>1. S \subseteq L OBVIOUS
      <4> HIDE DEF L, S
      <4> QED BY <2>1, <4>1, AskedMonotone
    <3>2. m \in L BY <1>1, <3>1
    <3>3. m # n BY <3>1
    <3> QED BY <3>2, <3>3
  <2>2. S \in SUBSET x.nodes OBVIOUS
  <2>3. S \in Closed
    <3> HIDE DEF S, L
    <3> QED BY <2>1, <2>2
  <2>4. n \in S BY <2>3
  <2> QED BY <2>4
<1>3. \A n \in x.nodes : (n \in L) = Asked(x, o, L, n)
  <2>1. \A n \in x.nodes : (n \in L) <=> Asked(x, o, L, n) BY <1>1, <1>2
  <2>2. \A n : Asked(x, o, L, n) \in BOOLEAN BY DEF Asked
  <2> HIDE DEF L
  <2> QED BY <2>1, <2>2
<1> HIDE DEF L
<1>4. \A m \in x.nodes : runs[m] = (m \in L) OBVIOUS
<1> HIDE DEF runs
<1>5. \A n \in x.nodes : RunsBody(x, o, runs, n) = (n \in L) BY <1>3, <1>4, BodyIs
<1>6. [n \in x.nodes |-> RunsBody(x, o, runs, n)] = [n \in x.nodes |-> n \in L] BY <1>5
<1>7. IsRuns(x, o, runs) BY <1>6 DEF IsRuns, runs
<1> QED BY <1>7

\* The reference as a function of the graph and of what its nodes fire.
Wanted(x, o) == {n \in x.nodes : (CHOOSE runs : IsRuns(x, o, runs))[n]}

LEMMA ShouldRunIs == ShouldRun = Wanted(dag, outcome)
BY DEF ShouldRun, Wanted, IsRuns, RunsBody

LEMMA WantedObeys ==
  ASSUME NEW x, NEW o, IsDag(x), NEW n \in x.nodes
  PROVE  n \in Wanted(x, o) <=> Asked(x, o, Wanted(x, o), n)
<1> DEFINE runs == CHOOSE runs : IsRuns(x, o, runs)
<1>1. IsRuns(x, o, runs) BY RunsExist
<1>2. Wanted(x, o) = {m \in x.nodes : runs[m]} BY DEF Wanted
<1> HIDE DEF runs
<1>3. \A m \in x.nodes : runs[m] = RunsBody(x, o, runs, m) BY <1>1 DEF IsRuns
<1>4. \A m \in x.nodes : runs[m] \in BOOLEAN
  <2>1. \A m : RunsBody(x, o, runs, m) \in BOOLEAN BY DEF RunsBody
  <2> QED BY <1>3, <2>1
<1>5. \A m \in x.nodes : runs[m] = (m \in Wanted(x, o)) BY <1>2, <1>4
<1>6. RunsBody(x, o, runs, n) = Asked(x, o, Wanted(x, o), n) BY <1>5, BodyIs
<1>7. runs[n] = Asked(x, o, Wanted(x, o), n) BY <1>3, <1>6
<1> QED BY <1>2, <1>7

LEMMA DagFinite == ASSUME NEW x, IsDag(x) PROVE IsFiniteSet(x.nodes)
BY DEF IsDag

HasEnded(n) == [status |-> "succeeded", ports |-> outcome[n]]
Settled == {n \in dag.nodes : states[n] # Pending}

\* Settled nodes are settled rightly, every wave so far has settled one, and the
\* loop ends when nothing is left to run.
WavesInv ==
  /\ IsDag(dag)
  /\ \A n \in dag.nodes :
       \/ states[n] = Pending
       \/ states[n] = Skipped /\ n \notin Wanted(dag, outcome)
       \/ states[n] = HasEnded(n) /\ n \in Wanted(dag, outcome)
  /\ wave \in Nat
  /\ ~over => wave <= Cardinality(Settled)
  /\ over => \A n \in Wanted(dag, outcome) : states[n] = HasEnded(n)

LEMMA StatesDiffer ==
  /\ Pending.status = "pending" /\ Skipped.status = "skipped"
  /\ \A n : HasEnded(n).status = "succeeded" /\ HasEnded(n).ports = outcome[n]
BY DEF Pending, Skipped, HasEnded

\* What an edge says of the node it leaves.
LEMMA EdgeSays ==
  ASSUME WavesInv, NEW e \in dag.edges
  PROVE  /\ EdgeState(e, states) = "live" =>
              e.src \in Wanted(dag, outcome) /\ e.port \in outcome[e.src]
         /\ EdgeState(e, states) = "dead" =>
              ~(e.src \in Wanted(dag, outcome) /\ e.port \in outcome[e.src])
         /\ EdgeState(e, states) = "pending" => states[e.src] = Pending
         /\ states[e.src] = HasEnded(e.src) /\ e.port \in outcome[e.src]
              => EdgeState(e, states) = "live"
         /\ EdgeState(e, states) \in {"live", "dead", "pending"}
<1>1. e.src \in dag.nodes BY DEF WavesInv, IsDag
<1>2. CASE states[e.src] = Pending
  BY <1>2, StatesDiffer DEF EdgeState
<1>3. CASE states[e.src] = Skipped /\ e.src \notin Wanted(dag, outcome)
  BY <1>3, StatesDiffer DEF EdgeState
<1>4. CASE states[e.src] = HasEnded(e.src) /\ e.src \in Wanted(dag, outcome)
  BY <1>4, StatesDiffer DEF EdgeState
<1> QED BY <1>1, <1>2, <1>3, <1>4 DEF WavesInv

LEMMA ReadyIsWanted ==
  ASSUME WavesInv, NEW n \in Ready(dag, states)
  PROVE  n \in Wanted(dag, outcome) /\ states[n] = Pending
<1>1. n \in dag.nodes /\ IsReady(dag, states, n) BY DEF Ready
<1>2. states[n] = Pending BY <1>1, StatesDiffer DEF IsReady, WavesInv
<1>3. \A e \in InState(dag, states, n, "live") :
        e \in Incoming(dag, n) /\ e.src \in Wanted(dag, outcome) /\ e.port \in outcome[e.src]
  BY EdgeSays DEF InState, Incoming
<1>4. Asked(dag, outcome, Wanted(dag, outcome), n)
  <2>1. CASE dag.cat[n] = "trigger" BY <2>1 DEF Asked
  <2>2. CASE dag.cat[n] = "join" BY <1>1, <1>3, <2>2 DEF IsReady, Asked
  <2>3. CASE dag.cat[n] \notin {"trigger", "join"} BY <1>1, <1>3, <2>3 DEF IsReady, Asked
  <2> QED BY <2>1, <2>2, <2>3
<1> QED BY <1>1, <1>2, <1>4, WantedObeys DEF WavesInv

LEMMA DeadIsUnwanted ==
  ASSUME WavesInv, NEW n \in Dead(dag, states)
  PROVE  n \notin Wanted(dag, outcome)
<1>1. n \in dag.nodes /\ IsDead(dag, states, n) BY DEF Dead
<1>2. \A e \in Incoming(dag, n) : e \in dag.edges /\ EdgeState(e, states) \in {"live", "dead"}
  BY <1>1, EdgeSays DEF IsDead, InState, Incoming
<1>3. ~Asked(dag, outcome, Wanted(dag, outcome), n)
  <2>1. CASE dag.cat[n] = "join"
    <3>1. Incoming(dag, n) = {} \/ InState(dag, states, n, "dead") # {}
      BY <1>1, <2>1 DEF IsDead
    <3>2. \A e \in InState(dag, states, n, "dead") :
            /\ e \in Incoming(dag, n)
            /\ ~(e.src \in Wanted(dag, outcome) /\ e.port \in outcome[e.src])
      BY EdgeSays DEF InState, Incoming
    <3> QED BY <2>1, <3>1, <3>2 DEF Asked
  <2>2. CASE dag.cat[n] # "join"
    <3>1. dag.cat[n] # "trigger" /\ (Incoming(dag, n) = {} \/ InState(dag, states, n, "live") = {})
      BY <1>1, <2>2 DEF IsDead
    <3>2. \A e \in Incoming(dag, n) : EdgeState(e, states) = "dead"
      BY <1>2, <3>1 DEF InState
    <3>3. \A e \in Incoming(dag, n) : ~(e.src \in Wanted(dag, outcome) /\ e.port \in outcome[e.src])
      BY <1>2, <3>2, EdgeSays
    <3> QED BY <2>2, <3>1, <3>3 DEF Asked
  <2> QED BY <2>1, <2>2
<1> QED BY <1>1, <1>3, WantedObeys DEF WavesInv

LEMMA LeastOf ==
  ASSUME NEW S \in SUBSET Nat, S # {}
  PROVE  \E x \in S : \A y \in S : ~(y < x)
<1>1. \E x \in S : \A y \in S : ~(<<y, x>> \in OpToRel(<, Nat))
  BY NatLessThanWellFounded, WFMin
<1> QED BY <1>1 DEF OpToRel

\* Nothing is ready: the least wanted node that is pending would be.
LEMMA NothingLeft ==
  ASSUME WavesInv, Ready(dag, states) = {}, NEW n \in Wanted(dag, outcome)
  PROVE  states[n] = HasEnded(n)
<1> DEFINE Left == {m \in Wanted(dag, outcome) : states[m] = Pending}
<1>1. Wanted(dag, outcome) \subseteq dag.nodes BY DEF Wanted
<1>2. Left = {}
  <2> SUFFICES ASSUME Left # {} PROVE FALSE OBVIOUS
  <2>1. Left \subseteq Nat BY <1>1 DEF WavesInv, IsDag
  <2>2. PICK m \in Left : \A k \in Left : ~(k < m)
    <3> HIDE DEF Left
    <3> QED BY <2>1, LeastOf
  <2>3. Asked(dag, outcome, Wanted(dag, outcome), m) BY <1>1, WantedObeys DEF WavesInv
  <2>4. ASSUME NEW e \in Incoming(dag, m), e.src \in Wanted(dag, outcome),
               e.port \in outcome[e.src]
        PROVE  e \in InState(dag, states, m, "live")
    <3>1. e \in dag.edges /\ e.dst = m BY DEF Incoming
    <3>2. e.src \in dag.nodes /\ e.src < m BY <3>1 DEF WavesInv, IsDag
    <3>3. e.src \notin Left BY <2>2, <3>2
    <3>4. states[e.src] = HasEnded(e.src) BY <2>4, <3>2, <3>3 DEF WavesInv
    <3>5. EdgeState(e, states) = "live" BY <2>4, <3>1, <3>4, EdgeSays
    <3> QED BY <3>5 DEF InState
  <2>5. states[m].status = "pending" BY StatesDiffer
  <2>6. IsReady(dag, states, m)
    <3>1. CASE dag.cat[m] = "trigger" BY <2>5, <3>1 DEF IsReady
    <3>2. CASE dag.cat[m] = "join"
      <4>1. Incoming(dag, m) # {}
            /\ \A e \in Incoming(dag, m) : e.src \in Wanted(dag, outcome) /\ e.port \in outcome[e.src]
        BY <2>3, <3>2 DEF Asked
      <4>2. InState(dag, states, m, "live") = Incoming(dag, m)
        BY <2>4, <4>1 DEF InState
      <4> QED BY <2>5, <3>2, <4>1, <4>2 DEF IsReady
    <3>3. CASE dag.cat[m] \notin {"trigger", "join"}
      <4>1. PICK e \in Incoming(dag, m) : e.src \in Wanted(dag, outcome) /\ e.port \in outcome[e.src]
        BY <2>3, <3>3 DEF Asked
      <4>2. e \in InState(dag, states, m, "live") BY <2>4, <4>1
      <4> QED BY <2>5, <3>3, <4>1, <4>2 DEF IsReady
    <3> QED BY <3>1, <3>2, <3>3
  <2>7. m \in Ready(dag, states) BY <1>1, <2>6 DEF Ready
  <2> QED BY <2>7
<1>3. n \notin Left /\ n \in dag.nodes BY <1>1, <1>2
<1> QED BY <1>3 DEF WavesInv

LEMMA WavesInitially == WavesInit => WavesInv
<1> SUFFICES ASSUME WavesInit PROVE WavesInv OBVIOUS
<1>1. IsDag(dag) BY GraphsAssumption DEF WavesInit
<1>2. Cardinality(Settled) \in Nat
  <2>1. IsFiniteSet(Settled) BY <1>1, DagFinite, FS_Subset DEF Settled
  <2> QED BY <2>1, FS_CardinalityType
<1>3. \A n \in dag.nodes : states[n] = Pending BY DEF WavesInit
<1> QED BY <1>1, <1>2, <1>3 DEF WavesInv, WavesInit

\* One wave.
LEMMA WaveKeeps == ASSUME WavesInv, RunWave PROVE WavesInv'
<1> DEFINE ready == Ready(dag, states)
           dead == Dead(dag, states)
           W == Wanted(dag, outcome)
<1>1. /\ ~over /\ wave' = wave + 1 /\ dag' = dag /\ outcome' = outcome
      /\ states' = [n \in dag.nodes |->
                      IF n \in dead THEN Skipped
                      ELSE IF n \in ready THEN HasEnded(n) ELSE states[n]]
      /\ over' = (ready = {} /\ (Quiescent(dag, states) \/ dead = {}))
  BY DEF RunWave, HasEnded
<1>2. IsDag(dag) /\ wave \in Nat /\ wave <= Cardinality(Settled) BY <1>1 DEF WavesInv
<1>3. ready \subseteq dag.nodes /\ dead \subseteq dag.nodes BY DEF Ready, Dead
<1>4. \A n \in ready : n \in W /\ states[n] = Pending BY ReadyIsWanted
<1>5. \A n \in dead : n \notin W BY DeadIsUnwanted
<1>6. W \subseteq dag.nodes BY DEF Wanted
<1>7. ready = {} => \A n \in W : states[n] = HasEnded(n) BY NothingLeft
<1>8. ready = {} => Quiescent(dag, states)
  BY StatesDiffer DEF Quiescent, WavesInv
<1>9. \A n \in dag.nodes : \/ states[n] = Pending
                           \/ states[n] = Skipped /\ n \notin W
                           \/ states[n] = HasEnded(n) /\ n \in W
  BY DEF WavesInv
<1> HIDE DEF ready, dead, W
<1>10. W' = W /\ \A n : HasEnded(n)' = HasEnded(n) BY <1>1 DEF W, Wanted, IsRuns, RunsBody, HasEnded, Incoming
<1>11. Pending' = Pending /\ Skipped' = Skipped
  BY DEF Pending, Skipped
<1>12. \A n \in dag'.nodes : \/ states'[n] = Pending
                             \/ states'[n] = Skipped /\ n \notin W
                             \/ states'[n] = HasEnded(n) /\ n \in W
  BY <1>1, <1>4, <1>5, <1>9
<1>13. over' => \A n \in W : states'[n] = HasEnded(n)
  <2> SUFFICES ASSUME over', NEW n \in W PROVE states'[n] = HasEnded(n) OBVIOUS
  <2>1. ready = {} BY <1>1
  <2>2. states[n] = HasEnded(n) BY <1>7, <2>1
  <2>3. n \in dag.nodes /\ n \notin dead BY <1>5, <1>6
  <2> QED BY <1>1, <2>1, <2>2, <2>3
<1>14. ~over' => wave' <= Cardinality(Settled')
  <2> SUFFICES ASSUME ~over' PROVE wave' <= Cardinality(Settled') OBVIOUS
  <2>1. PICK n \in ready : TRUE BY <1>1, <1>8
  <2>2. n \in dag.nodes /\ states[n] = Pending /\ n \in W /\ n \notin dead
    BY <1>3, <1>4, <1>5
  <2>3. states'[n] = HasEnded(n) BY <1>1, <2>2
  <2>4. HasEnded(n) # Pending /\ Skipped # Pending BY StatesDiffer
  <2>5. Settled' = {m \in dag.nodes : states'[m] # Pending} BY <1>1, <1>11 DEF Settled
  <2>6. Settled \subseteq Settled' /\ n \in Settled' /\ n \notin Settled
    <3>1. \A m \in dag.nodes : states[m] # Pending => states'[m] # Pending
      BY <1>1, <1>4, <2>4
    <3> QED BY <2>2, <2>3, <2>4, <2>5, <3>1 DEF Settled
  <2>7. IsFiniteSet(Settled') BY <1>2, <2>5, DagFinite, FS_Subset
  <2>8. /\ Cardinality(Settled) <= Cardinality(Settled')
        /\ Cardinality(Settled) # Cardinality(Settled')
        /\ IsFiniteSet(Settled)
    BY <2>6, <2>7, FS_Subset
  <2>9. Cardinality(Settled) \in Nat /\ Cardinality(Settled') \in Nat
    BY <2>7, <2>8, FS_CardinalityType
  <2> QED BY <1>1, <1>2, <2>8, <2>9
<1>15. IsDag(dag)' BY <1>1, <1>2 DEF IsDag
<1>16. wave' \in Nat BY <1>1, <1>2
<1> QED BY <1>10, <1>11, <1>12, <1>13, <1>14, <1>15, <1>16 DEF WavesInv, W

\* execution-planner.ts and the loop of runExecution: on any acyclic graph, whatever its
\* nodes fire, the waves dispatch exactly the nodes the graph asks for, and the loop
\* ends before its iteration cap.
THEOREM WavesRunWhatTheGraphAsks == WavesSpec => []RunsWhatTheGraphAsks
<1>1. WavesInv /\ [WavesNext]_wavesVars => WavesInv'
  <2> SUFFICES ASSUME WavesInv, [WavesNext]_wavesVars PROVE WavesInv' OBVIOUS
  <2>1. CASE RunWave BY <2>1, WaveKeeps
  <2>2. CASE UNCHANGED wavesVars
    <3>1. UNCHANGED <<dag, outcome, states, wave, over>> BY <2>2 DEF wavesVars
    <3>2. Wanted(dag, outcome)' = Wanted(dag, outcome) /\ IsDag(dag)' = IsDag(dag)
      BY <3>1 DEF Wanted, IsRuns, RunsBody, Incoming, IsDag
    <3>3. \A n : HasEnded(n)' = HasEnded(n) BY <3>1 DEF HasEnded
    <3>4. Pending' = Pending /\ Skipped' = Skipped
      BY DEF Pending, Skipped
    <3>5. Settled' = Settled BY <3>1, <3>4 DEF Settled
    <3> QED BY <3>1, <3>2, <3>3, <3>4, <3>5 DEF WavesInv
  <2> QED BY <2>1, <2>2 DEF WavesNext
<1>2. WavesInv => RunsWhatTheGraphAsks
  <2> SUFFICES ASSUME WavesInv PROVE RunsWhatTheGraphAsks OBVIOUS
  <2>1. HasRun \subseteq ShouldRun
    BY StatesDiffer, ShouldRunIs DEF WavesInv, HasRun
  <2>2. over => HasRun = ShouldRun
    <3> SUFFICES ASSUME over PROVE ShouldRun \subseteq HasRun BY <2>1
    <3>1. Wanted(dag, outcome) \subseteq dag.nodes BY DEF Wanted
    <3> QED BY <3>1, StatesDiffer, ShouldRunIs DEF WavesInv, HasRun
  <2>3. wave > Cardinality(dag.nodes) => over
    <3> SUFFICES ASSUME ~over PROVE ~(wave > Cardinality(dag.nodes)) OBVIOUS
    <3>1. IsFiniteSet(dag.nodes) /\ Settled \subseteq dag.nodes BY DagFinite DEF WavesInv, Settled
    <3>2. Cardinality(Settled) <= Cardinality(dag.nodes) /\ IsFiniteSet(Settled) BY <3>1, FS_Subset
    <3>3. Cardinality(Settled) \in Nat /\ Cardinality(dag.nodes) \in Nat
      BY <3>1, <3>2, FS_CardinalityType
    <3> QED BY <3>2, <3>3 DEF WavesInv
  <2> QED BY <2>1, <2>2, <2>3 DEF RunsWhatTheGraphAsks
<1> QED BY <1>1, <1>2, WavesInitially, PTL DEF WavesSpec
=============================================================================
