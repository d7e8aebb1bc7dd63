---------------------------- MODULE DistributedLock ----------------------------
(***************************************************************************)
(* The best-effort lock shared by backend replicas                         *)
(* (redis/distributed-lock.service.ts), for one key.                       *)
(*                                                                         *)
(* withLock takes a Redis lease that expires by itself and runs the        *)
(* caller's body under it; without Redis, or after any failure, it runs    *)
(* the body under a guard of the process.  A replica calls withLock for    *)
(* one key at a time, so the replica's name serves as the random token of  *)
(* its current lease.                                                      *)
(***************************************************************************)
EXTENDS Integers, FiniteSets

CONSTANTS
  Replicas,   \* backend processes
  Nobody      \* no lease

ASSUME NobodyAssumption == Nobody \notin Replicas

VARIABLES
  lease,      \* Redis: [owner, old], old once LOCK_TTL_MS may have passed
  disabled,   \* redisDisabled of each replica
  via,        \* what each replica's body runs under: "out", "redis" or "local"
  overran     \* history: replicas whose lease expired before their body ended

lockVars == <<lease, disabled, via, overran>>

NoLease == [owner |-> Nobody, old |-> FALSE]

LockTypeOK ==
  /\ lease \in [owner : Replicas \cup {Nobody}, old : BOOLEAN]
  /\ disabled \in [Replicas -> BOOLEAN]
  /\ via \in [Replicas -> {"out", "redis", "local"}]
  /\ overran \subseteq Replicas

LockInit ==
  /\ lease = NoLease
  /\ disabled = [r \in Replicas |-> FALSE]
  /\ via = [r \in Replicas |-> "out"]
  /\ overran = {}

-----------------------------------------------------------------------------
\* SET NX PX succeeds; while it does not, withLock returns without the body.
TakeLease(r) ==
  /\ via[r] = "out" /\ ~disabled[r] /\ lease.owner = Nobody
  /\ lease' = [owner |-> r, old |-> FALSE]
  /\ via' = [via EXCEPT ![r] = "redis"]
  /\ UNCHANGED <<disabled, overran>>

\* The in-process fallback.
TakeLocal(r) ==
  /\ via[r] = "out" /\ disabled[r]
  /\ via' = [via EXCEPT ![r] = "local"]
  /\ UNCHANGED <<lease, disabled, overran>>

\* A release that does not compare the token (a mutant).
LeaseDeleted(r) == IF lease.owner # Nobody /\ ~disabled[r] THEN NoLease ELSE lease

\* What is left of the lease after releaseRedis: the script compares the token,
\* and a disconnected client deletes nothing.
LeaseWithout(r) == IF lease.owner = r /\ ~disabled[r] THEN NoLease ELSE lease

\* The body returned.
Release(r) ==
  /\ via[r] # "out"
  /\ lease' = IF via[r] = "redis" THEN LeaseWithout(r) ELSE lease
  /\ via' = [via EXCEPT ![r] = "out"]
  /\ overran' = overran \ {r}
  /\ UNCHANGED disabled

\* The body threw under the lease: it is taken for a Redis failure, and the body
\* runs again under the guard of the process.
FailOver(r) ==
  /\ via[r] = "redis"
  /\ lease' = LeaseWithout(r)
  /\ disabled' = [disabled EXCEPT ![r] = TRUE]
  /\ via' = [via EXCEPT ![r] = "local"]
  /\ overran' = overran \ {r}

\* The body threw under the guard of the process: the guard is dropped and the
\* caller sees the exception.
Rethrow(r) ==
  /\ via[r] = "local"
  /\ via' = [via EXCEPT ![r] = "out"]
  /\ UNCHANGED <<lease, disabled, overran>>

\* The client reports an error, or SET fails: Redis is off for good.
DisableRedis(r) ==
  /\ ~disabled[r]
  /\ disabled' = [disabled EXCEPT ![r] = TRUE]
  /\ UNCHANGED <<lease, via, overran>>

\* LOCK_TTL_MS passes, in the clock of the module that uses the lock.
LeaseAges ==
  /\ lease' = [lease EXCEPT !.old = lease.owner # Nobody]
  /\ UNCHANGED <<disabled, via, overran>>

LeaseExpires ==
  /\ lease.old
  /\ lease' = NoLease
  /\ overran' = overran \cup {r \in {lease.owner} : via[r] = "redis"}
  /\ UNCHANGED <<disabled, via>>

\* A restarted process has forgotten that Redis failed; its lease stays behind.
LockCrash(r) ==
  /\ via' = [via EXCEPT ![r] = "out"]
  /\ disabled' = [disabled EXCEPT ![r] = FALSE]
  /\ overran' = overran \ {r}
  /\ UNCHANGED lease

-----------------------------------------------------------------------------
\* A replica that runs under Redis and has not outlived its lease owns it, and only
\* an owned lease grows old.
LeaseKnowsItsOwner ==
  /\ \A r \in Replicas : via[r] = "redis" /\ r \notin overran => lease.owner = r
  /\ lease.old => lease.owner # Nobody

\* Two replicas run the body under Redis at once only when one of them has
\* outlived its lease: in particular the late release of an expired lease never
\* frees the lease of the replica that took over (releaseRedis, 105-114).
OneAtATime ==
  \A r, s \in Replicas :
    r # s /\ via[r] = "redis" /\ via[s] = "redis" => {r, s} \cap overran # {}
=============================================================================
