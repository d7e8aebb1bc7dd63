------------------------- MODULE MCWorkflowExecution -------------------------
EXTENDS WorkflowExecution, TLC

\* Executions (the second is a subworkflow's) and nodes, named by their category.
CONSTANTS
  main, child,
  trig, prep, fork, wait, gate, delay, sub, cond, join, pick, work, stop

Edge(src, port, dst) == [src |-> src, port |-> port, dst |-> dst]
Graph(cat, edges) ==
  [nodes |-> DOMAIN cat, edges |-> edges, cat |-> cat, timed |-> DOMAIN cat]

\* trigger -> action -> delay -> action, whose failure is not handled
DelayGraph ==
  Graph(trig :> "trigger" @@ prep :> "action" @@ delay :> "delay" @@ work :> "action",
        {Edge(trig, "out", prep), Edge(prep, "out", delay), Edge(delay, "out", work)})

\* trigger -> wait for an event; completed -> action; timeout -> delay -> action
WaitGraph ==
  Graph(trig :> "trigger" @@ wait :> "wait" @@ delay :> "delay" @@ work :> "action" @@
          prep :> "action",
        {Edge(trig, "out", wait), Edge(wait, "completed", work),
         Edge(wait, "timeout", delay), Edge(delay, "out", prep)})

\* Two waits side by side: trigger -> action -> parallel; left -> wait, right ->
\* approval; a join of the two, then a branch and an action.  A gate that times
\* out goes to a delay, then a subworkflow and a condition on its result.
TourGraph ==
  Graph(trig :> "trigger" @@ prep :> "action" @@ fork :> "parallel" @@ wait :> "wait" @@
          gate :> "approval" @@ delay :> "delay" @@ sub :> "subworkflow" @@
          cond :> "condition" @@ join :> "join" @@ pick :> "branch" @@ work :> "action",
        {Edge(trig, "out", prep), Edge(prep, "out", fork), Edge(prep, "failure", work),
         Edge(fork, "left", wait), Edge(fork, "right", gate),
         Edge(gate, "timeout", delay), Edge(delay, "out", sub),
         Edge(sub, "out", cond), Edge(sub, "failure", work), Edge(cond, "true", work),
         Edge(wait, "completed", join), Edge(gate, "approved", join),
         Edge(join, "out", pick), Edge(pick, "left", work)})

\* The subworkflow: a delay and an action.
ChildGraph ==
  Graph(trig :> "trigger" @@ delay :> "delay" @@ work :> "action" @@ stop :> "end",
        {Edge(trig, "out", delay), Edge(delay, "out", work), Edge(work, "out", stop)})

AllNodes ==
  {trig, prep, fork, wait, gate, delay, sub, cond, join, pick, work, stop}
OnlyDelay == main :> DelayGraph
OnlyWait  == main :> WaitGraph
TourAndChild == main :> TourGraph @@ child :> ChildGraph
NoParents == main :> None
ChildOfMain == main :> None @@ child :> <<main, sub>>
=============================================================================
