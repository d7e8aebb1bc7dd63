---------------------------- MODULE MCPlannerWaves ----------------------------
(* Every acyclic graph on four nodes, at most one edge between two nodes.     *)
EXTENDS PlannerWaves

NodeSet == 1..4
Pairs == {p \in NodeSet \X NodeSet : p[1] < p[2]}

MCGraphs ==
  {[nodes |-> NodeSet,
    edges |-> {[src |-> p[1], port |-> w[p], dst |-> p[2]] :
                 p \in {q \in Pairs : w[q] # "none"}},
    cat   |-> [n \in NodeSet |-> IF n = 1 THEN "trigger"
                                 ELSE IF n \in joins THEN "join" ELSE "action"]]
     : w \in [Pairs -> {"none", "p", "q"}], joins \in SUBSET {2, 3, 4}}

\* A node that fires {"q"} is one that fires {"p"} with its edges relabelled.
MCPortSets == {{"p"}, {"p", "q"}}
=============================================================================
