----------------------------- MODULE PlannerWaves -----------------------------
(***************************************************************************)
(* The wave loop of runExecution around planExecution, on an arbitrary     *)
(* acyclic graph whose nodes all complete: which nodes run in the end, and *)
(* how many waves it takes.  What each node fires is fixed in advance by   *)
(* `outcome', so that the result can be compared with a definition that    *)
(* knows nothing of waves.  Its names differ from WorkflowExecution's, so  *)
(* that a module can speak of both.                                        *)
(***************************************************************************)
EXTENDS ExecutionPlanner, Naturals, FiniteSets

CONSTANTS
  Graphs,       \* acyclic graphs
  PortSets      \* what a node may fire

\* The nodes of an acyclic graph can be numbered so that its edges lead upwards.
IsDag(x) ==
  /\ IsFiniteSet(x.nodes) /\ x.nodes \subseteq Nat
  /\ \A e \in x.edges : e.src \in x.nodes /\ e.dst \in x.nodes /\ e.src < e.dst

ASSUME GraphsAssumption == \A x \in Graphs : IsDag(x)

VARIABLES dag, outcome, states, wave, over

wavesVars == <<dag, outcome, states, wave, over>>

WavesInit ==
  /\ dag \in Graphs
  /\ outcome \in [dag.nodes -> PortSets]
  /\ states = [n \in dag.nodes |-> Pending]
  /\ wave = 0
  /\ over = FALSE

MaxIterations == Cardinality(dag.nodes) * 3 + 5

\* One iteration: prune the dead, run the ready, or leave the loop.
RunWave ==
  /\ ~over /\ wave < MaxIterations
  /\ LET dead  == Dead(dag, states)
         ready == Ready(dag, states)
     IN /\ states' = [n \in dag.nodes |->
                    IF n \in dead THEN Skipped
                    ELSE IF n \in ready
                      THEN [status |-> "succeeded", ports |-> outcome[n]] ELSE states[n]]
        /\ over' = (ready = {} /\ (Quiescent(dag, states) \/ dead = {}))
  /\ wave' = wave + 1
  /\ UNCHANGED <<dag, outcome>>

WavesNext == RunWave

WavesSpec == WavesInit /\ [][WavesNext]_wavesVars

----------------------------------------------------------------------------
\* The reference: which nodes of the graph should run, by recursion along it.
ShouldRun ==
  LET runs[n \in dag.nodes] ==
        LET fires(e) == runs[e.src] /\ e.port \in outcome[e.src]
            ins == Incoming(dag, n)
        IN CASE dag.cat[n] = "trigger" -> TRUE
             [] dag.cat[n] = "join"    -> ins # {} /\ \A e \in ins : fires(e)
             [] OTHER                -> \E e \in ins : fires(e)
  IN {n \in dag.nodes : runs[n]}

HasRun == {n \in dag.nodes : states[n].status = "succeeded"}

\* The nodes the waves of runExecution dispatch are exactly the ones the graph
\* asks for: none is dispatched that should not be, at any moment, and none is
\* missing when the loop ends, which it does by itself: the iteration cap
\* nodes * 3 + 5 of runExecution never cuts it short.
RunsWhatTheGraphAsks ==
  /\ HasRun \subseteq ShouldRun
  /\ over => HasRun = ShouldRun
  /\ wave > Cardinality(dag.nodes) => over
=============================================================================
