-------------------------- MODULE MCTorrentScheduler --------------------------
EXTENDS TorrentScheduler

CONSTANTS t1, t2

MCRank == (t1 :> 1) @@ (t2 :> 2)

\* A slot for each kind, and a seed removed once it is imported; or one slot for all.
MCPolicies ==
  {[downloads |-> 1, seeds |-> 1, total |-> Unlimited, after |-> "remove", require |-> 1],
   [downloads |-> Unlimited, seeds |-> Unlimited, total |-> 1, after |-> "leave_active",
    require |-> 2]}
=============================================================================
