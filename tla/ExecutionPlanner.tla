--------------------------- MODULE ExecutionPlanner ---------------------------
(***************************************************************************)
(* The scheduling core of the workflow executor                            *)
(* (workflows/domain/execution-planner.ts), as operators on                *)
(*   g  : the pinned graph [nodes, edges, cat], edges [src, port, dst];    *)
(*   st : node -> [status, ports], the persisted state of each node, in    *)
(*        which a node without a row is pending.                           *)
(***************************************************************************)

NodeStatuses == {"pending", "running", "waiting", "succeeded", "failed", "skipped"}

Pending == [status |-> "pending", ports |-> {}]
Skipped == [status |-> "skipped", ports |-> {}]

Incoming(g, n) == {e \in g.edges : e.dst = n}

\* A completed node fires exactly the ports it recorded, a failed one included.
EdgeState(e, st) ==
  LET src == st[e.src]
  IN CASE src.status \in {"succeeded", "failed"} ->
            IF e.port \in src.ports THEN "live" ELSE "dead"
       [] src.status = "skipped" -> "dead"
       [] OTHER -> "pending"

InState(g, st, n, s) == {e \in Incoming(g, n) : EdgeState(e, st) = s}

\* Mutant: a join that does not wait for its other inputs.
IsReadyEagerJoin(g, st, n) ==
  /\ st[n].status = "pending"
  /\ g.cat[n] = "trigger" \/ InState(g, st, n, "live") # {}

\* Dispatch these next: a join needs every incoming edge live, any other node one.
IsReady(g, st, n) ==
  /\ st[n].status = "pending"
  /\ \/ g.cat[n] = "trigger"
     \/ /\ Incoming(g, n) # {}
        /\ IF g.cat[n] = "join"
             THEN InState(g, st, n, "live") = Incoming(g, n)
             ELSE InState(g, st, n, "live") # {}

\* Skip these: every incoming edge is resolved and what the node needs did not fire.
IsDead(g, st, n) ==
  /\ st[n].status = "pending"
  /\ g.cat[n] # "trigger"
  /\ InState(g, st, n, "pending") = {}
  /\ \/ Incoming(g, n) = {}
     \/ IF g.cat[n] = "join"
          THEN InState(g, st, n, "dead") # {}
          ELSE InState(g, st, n, "live") = {}

Ready(g, st) == {n \in g.nodes : IsReady(g, st, n)}
Dead(g, st)  == {n \in g.nodes : IsDead(g, st, n)}

Quiescent(g, st) ==
  /\ \A n \in g.nodes : st[n].status \notin {"running", "waiting"}
  /\ Ready(g, st) = {}
=============================================================================
