------------------------ MODULE StreamEnforcementProofs ------------------------
(***************************************************************************)
(* For any number of replicas, sessions and titles, any limit and any      *)
(* bound on failures: the replicas' enforcement bodies exclude each other, *)
(* the rows stay well formed, and nobody is stopped without a cause.       *)
(*                                                                         *)
(* OneAtATime is not inductive: the release of one replica must be known   *)
(* not to touch the lease of another, which is LeaseKnowsItsOwner.         *)
(*                                                                         *)
(* StopsForACause speaks of the decision, and rests on what the rows mean  *)
(* by then: GoneBounded, that every cycle a stream has been gone is paid   *)
(* for by a missed poll, by a fault, or by the polls of the current cycle  *)
(* that are still due.  A poll preserves it only if it keeps the ids of    *)
(* rows apart (RowOf is one row at most), which is part of TypeOK and the  *)
(* laborious part: Reconciled joins one short sequence per row, so what a  *)
(* join collects is shown first.                                           *)
(***************************************************************************)
EXTENDS StreamEnforcement, FiniteSetTheorems, SequenceTheorems, TLAPS

LockInv == LockTypeOK /\ LeaseKnowsItsOwner

\* Initially nobody is inside and there is no lease.
LEMMA LockInitially == LockInit => LockInv
BY NobodyAssumption DEF LockInit, LockInv, LockTypeOK, LeaseKnowsItsOwner, NoLease

\* withLock's way in: the lease is free, so whoever runs under Redis has outlived
\* its own (SET NX PX).
LEMMA TakeKeeps ==
  ASSUME LockInv, NEW r \in Replicas, TakeLease(r) \/ TakeLocal(r)
  PROVE  LockInv'
<1>1. CASE TakeLease(r)
  BY <1>1, NobodyAssumption DEF LockInv, LockTypeOK, LeaseKnowsItsOwner, TakeLease
<1>2. CASE TakeLocal(r)
  BY <1>2, NobodyAssumption DEF LockInv, LockTypeOK, LeaseKnowsItsOwner, TakeLocal
<1> QED BY <1>1, <1>2

\* The script of releaseRedis removes at most the caller's own lease.
LEMMA ReleaseIsOwn ==
  ASSUME LockInv, NEW r \in Replicas
  PROVE  /\ LeaseWithout(r) \in [owner : Replicas \cup {Nobody}, old : BOOLEAN]
         /\ lease.owner # r => LeaseWithout(r) = lease
         /\ LeaseWithout(r).old => LeaseWithout(r).owner # Nobody
BY NobodyAssumption DEF LockInv, LockTypeOK, LeaseKnowsItsOwner, LeaseWithout, NoLease

\* The ways out: the body returned, threw under the lease, or threw locally.
LEMMA ExitKeeps ==
  ASSUME LockInv, NEW r \in Replicas, Release(r) \/ FailOver(r) \/ Rethrow(r)
  PROVE  LockInv'
<1>1. CASE Release(r)
  BY <1>1, ReleaseIsOwn, NobodyAssumption DEF LockInv, LockTypeOK, LeaseKnowsItsOwner, Release
<1>2. CASE FailOver(r)
  BY <1>2, ReleaseIsOwn, NobodyAssumption DEF LockInv, LockTypeOK, LeaseKnowsItsOwner, FailOver
<1>3. CASE Rethrow(r)
  BY <1>3 DEF LockInv, LockTypeOK, LeaseKnowsItsOwner, Rethrow
<1> QED BY <1>1, <1>2, <1>3

\* Redis fails, the process restarts, the lease grows old or expires.
LEMMA MishapKeeps ==
  ASSUME LockInv, NEW r \in Replicas, DisableRedis(r) \/ LockCrash(r)
  PROVE  LockInv'
<1>1. CASE DisableRedis(r)
  BY <1>1 DEF LockInv, LockTypeOK, LeaseKnowsItsOwner, DisableRedis
<1>2. CASE LockCrash(r)
  BY <1>2 DEF LockInv, LockTypeOK, LeaseKnowsItsOwner, LockCrash
<1> QED BY <1>1, <1>2

LEMMA ClockKeeps ==
  ASSUME LockInv, LeaseAges \/ LeaseExpires
  PROVE  LockInv'
<1>1. CASE LeaseAges
  BY <1>1, NobodyAssumption DEF LockInv, LockTypeOK, LeaseKnowsItsOwner, LeaseAges
<1>2. CASE LeaseExpires
  <2>1. lease.owner \in Replicas
    BY <1>2 DEF LockInv, LockTypeOK, LeaseKnowsItsOwner, LeaseExpires
  <2>2. overran' \subseteq Replicas /\ overran \subseteq overran'
    BY <1>2, <2>1 DEF LockInv, LockTypeOK, LeaseExpires
  <2>3. ASSUME NEW r \in Replicas, via'[r] = "redis"
        PROVE  r \in overran'
    <3>1. CASE r \in overran BY <2>2, <3>1
    <3>2. CASE r \notin overran
      <4>1. r = lease.owner
        BY <1>2, <2>3, <3>2 DEF LockInv, LeaseKnowsItsOwner, LeaseExpires
      <4> QED BY <1>2, <2>3, <4>1 DEF LeaseExpires
    <3> QED BY <3>1, <3>2
  <2> QED BY <1>2, <2>2, <2>3 DEF LockInv, LockTypeOK, LeaseKnowsItsOwner, LeaseExpires, NoLease
<1> QED BY <1>1, <1>2

\* Everything else leaves the lock alone.
LEMMA LockUntouched ==
  ASSUME LockInv, UNCHANGED lockVars
  PROVE  LockInv'
BY DEF LockInv, LockTypeOK, LeaseKnowsItsOwner, lockVars

\* One step per action of the enforcer, the poller, the person and the faults.
LEMMA LockStep ==
  ASSUME LockInv, [Next]_vars
  PROVE  LockInv'
<1>1. CASE Person
  BY <1>1, LockUntouched DEF Person, Stop, Pause, Start, Autoplay, PersonActs
<1>2. CASE Tick BY <1>2, ClockKeeps DEF Tick
<1>3. CASE Poll \/ PollFails BY <1>3, LockUntouched DEF Poll, PollFails
<1>4. CASE Expire BY <1>4, ClockKeeps DEF Expire
<1>5. ASSUME NEW r \in Replicas, Pass(r)
      PROVE  LockInv'
  <2>1. CASE Comply(r) BY <2>1, LockUntouched DEF Comply
  <2>2. CASE Arm(r) BY <2>2, LockUntouched DEF Arm
  <2>3. CASE Enter(r) BY <2>3, TakeKeeps DEF Enter
  <2>4. CASE Decide(r) BY <2>4, LockUntouched DEF Decide
  <2>5. CASE Leave(r) BY <2>5, ExitKeeps DEF Leave
  <2>6. ASSUME NEW s \in Sessions, Terminate(r, s)
        PROVE  LockInv'
    BY <2>6, LockUntouched DEF Terminate
  <2> QED BY <1>5, <2>1, <2>2, <2>3, <2>4, <2>5, <2>6 DEF Pass
<1>6. ASSUME NEW r \in Replicas, BodyFails(r)
      PROVE  LockInv'
  BY <1>6, ExitKeeps DEF BodyFails
<1>7. ASSUME NEW r \in Replicas, RedisFails(r) \/ Crash(r)
      PROVE  LockInv'
  BY <1>7, MishapKeeps DEF RedisFails, Crash
<1>8. CASE UNCHANGED vars BY <1>8, LockUntouched DEF vars
<1> QED BY <1>1, <1>2, <1>3, <1>4, <1>5, <1>6, <1>7, <1>8 DEF Next

\* The lock's state is well formed and knows its owner, whatever the enforcer does.
THEOREM LockInvariant == Spec => []LockInv
<1>1. Init => LockInv BY LockInitially DEF Init
<1>2. LockInv /\ [Next]_vars => LockInv' BY LockStep
<1> QED BY <1>1, <1>2, PTL DEF Spec

\* At most one replica enforces under Redis without having outlived its lease
\* (withLock and releaseRedis, with crashes, Redis failures and slow bodies).
THEOREM Exclusion == Spec => []OneAtATime
<1>1. LockInv => OneAtATime
  BY DEF LockInv, LockTypeOK, LeaseKnowsItsOwner, OneAtATime
<1> QED BY <1>1, LockInvariant, PTL

\* The cap of a counter: Min of two integers is one of them and below both.
LEMMA MinOfTwo ==
  ASSUME NEW a \in Int, NEW b \in Int
  PROVE  Min({a, b}) \in {a, b} /\ Min({a, b}) <= a /\ Min({a, b}) <= b
<1>1. \E x \in {a, b} : \A y \in {a, b} : x <= y
  <2>1. CASE a <= b BY <2>1
  <2>2. CASE b <= a BY <2>2
  <2> QED BY <2>1, <2>2
<1>2. Min({a, b}) \in {a, b} /\ \A y \in {a, b} : Min({a, b}) <= y BY <1>1 DEF Min
<1> QED BY <1>2

-----------------------------------------------------------------------------
(* Sequences of rows, joined.                                               *)

\* Induction over the natural numbers, for the set of those with the property.
LEMMA NatSetInduction ==
  ASSUME NEW S, 0 \in S, \A n \in Nat : n \in S => n + 1 \in S
  PROVE  Nat \subseteq S
<1> SUFFICES ASSUME Nat \ S # {} PROVE FALSE OBVIOUS
<1>1. \E x \in Nat \ S : \A y \in Nat \ S : ~ (<<y, x>> \in OpToRel(<, Nat))
  BY NatLessThanWellFounded, WFMin
<1>2. PICK x \in Nat \ S : \A y \in Nat \ S : ~(y < x) BY <1>1 DEF OpToRel
<1>3. x # 0 /\ x - 1 \in Nat BY <1>2
<1>4. x - 1 \in S BY <1>2, <1>3
<1> QED BY <1>2, <1>3, <1>4

\* The recursion of FlattenSeq, on the first n sequences.
JoinStep(seqs, f, i) == IF i = 1 THEN seqs[i] ELSE f[i-1] \o seqs[i]
Joins(seqs, n, f) == f = [i \in 1..n |-> JoinStep(seqs, f, i)]

\* What FlattenSeq computes is the last value of that recursion.
LEMMA FlattenIs ==
  ASSUME NEW seqs, Len(seqs) # 0
  PROVE  FlattenSeq(seqs) = (CHOOSE f : Joins(seqs, Len(seqs), f))[Len(seqs)]
BY DEF FlattenSeq, Joins, JoinStep

\* The recursion has a solution, by extending the one for n to n + 1.
LEMMA JoinsExists ==
  ASSUME NEW seqs, NEW n \in Nat
  PROVE  \E f : Joins(seqs, n, f)
<1> DEFINE N == {k \in Nat : \E f : Joins(seqs, k, f)}
<1>1. 0 \in N
  <2> DEFINE f == [i \in 1..0 |-> 0]
  <2>1. 1..0 = {} OBVIOUS
  <2>2. Joins(seqs, 0, f) BY <2>1 DEF Joins
  <2> QED BY <2>2
<1>2. ASSUME NEW k \in Nat, k \in N PROVE k + 1 \in N
  <2>1. PICK f : Joins(seqs, k, f) BY <1>2
  <2> DEFINE h == [i \in 1..(k + 1) |-> JoinStep(seqs, f, i)]
  <2>2. ASSUME NEW i \in 1..(k + 1) PROVE JoinStep(seqs, f, i) = JoinStep(seqs, h, i)
    <3>1. CASE i = 1 BY <3>1 DEF JoinStep
    <3>2. CASE i # 1
      <4>1. i - 1 \in 1..k /\ i - 1 \in 1..(k + 1) BY <3>2
      <4>2. f[i - 1] = JoinStep(seqs, f, i - 1) BY <2>1, <4>1 DEF Joins
      <4>3. h[i - 1] = JoinStep(seqs, f, i - 1) BY <4>1
      <4> HIDE DEF h
      <4> QED BY <3>2, <4>2, <4>3 DEF JoinStep
    <3> QED BY <3>1, <3>2
  <2>3. h = [i \in 1..(k + 1) |-> JoinStep(seqs, f, i)] OBVIOUS
  <2> HIDE DEF h
  <2>4. Joins(seqs, k + 1, h) BY <2>2, <2>3 DEF Joins
  <2> QED BY <2>4
<1>3. Nat \subseteq N
  <2> HIDE DEF N
  <2> QED BY <1>1, <1>2, NatSetInduction
<1> QED BY <1>3

\* At most one element each, all of S and with distinct ids.
Singles(seqs, S) ==
  /\ seqs \in Seq(Seq(S))
  /\ \A i \in 1..Len(seqs) : Len(seqs[i]) <= 1
  /\ \A i, j \in 1..Len(seqs) :
       i # j /\ seqs[i] # <<>> /\ seqs[j] # <<>> => seqs[i][1].id # seqs[j][1].id

\* t collects what the first n of them hold.
Collects(t, seqs, n, S) ==
  /\ t \in Seq(S)
  /\ \A k \in 1..Len(t) : \E i \in 1..n : seqs[i] # <<>> /\ t[k] = seqs[i][1]
  /\ \A k, l \in 1..Len(t) : t[k].id = t[l].id => k = l

\* A sequence of one element is not the empty one.
LEMMA NotEmpty == \A q : Len(q) = 1 => q # <<>>
<1> SUFFICES ASSUME NEW q, Len(q) = 1, q = <<>> PROVE FALSE OBVIOUS
<1>1. Len(<<>>) = 0 OBVIOUS
<1> QED BY <1>1

\* Joining one more sequence collects what it holds.
LEMMA CollectsOne ==
  ASSUME NEW S, NEW seqs, Singles(seqs, S), NEW n \in 1..Len(seqs), NEW t,
         Collects(t, seqs, n - 1, S)
  PROVE  Collects(t \o seqs[n], seqs, n, S)
<1>1. seqs[n] \in Seq(S) /\ Len(seqs[n]) <= 1 /\ t \in Seq(S)
  BY ElementOfSeq DEF Singles, Collects
<1>2. Len(seqs[n]) \in {0, 1}
  <2>1. Len(seqs[n]) \in Nat BY <1>1, LenProperties
  <2>2. \A k \in Nat : k <= 1 => k \in {0, 1} OBVIOUS
  <2> QED BY <1>1, <2>1, <2>2, Zenon
<1>3. n \in Nat /\ 1..(n - 1) \subseteq 1..n BY DEF Singles
<1>4. CASE Len(seqs[n]) = 0
  <2>1. seqs[n] = <<>> BY <1>1, <1>4, EmptySeq
  <2>2. t \o seqs[n] = t BY <1>1, <2>1, ConcatEmptySeq
  <2> QED BY <1>3, <2>2 DEF Collects
<1>5. CASE Len(seqs[n]) = 1
  <2> DEFINE u == t \o seqs[n]
             a == seqs[n][1]
  <2>1. /\ u \in Seq(S) /\ Len(u) = Len(t) + 1 /\ u[Len(t) + 1] = a
        /\ \A k \in 1..Len(t) : u[k] = t[k]
        /\ seqs[n] # <<>> /\ Len(t) \in Nat
    <3>1. Len(t) \in Nat BY <1>1, LenProperties
    <3>2. /\ u \in Seq(S) /\ Len(u) = Len(t) + 1
          /\ \A k \in 1..(Len(t) + 1) : u[k] = IF k <= Len(t) THEN t[k] ELSE seqs[n][k - Len(t)]
      <4>1. /\ u \in Seq(S) /\ Len(u) = Len(t) + Len(seqs[n])
            /\ \A k \in 1..(Len(t) + Len(seqs[n])) : u[k] = IF k <= Len(t) THEN t[k] ELSE seqs[n][k - Len(t)]
        BY <1>1, ConcatProperties
      <4>2. Len(t) + Len(seqs[n]) = Len(t) + 1 BY <1>5
      <4> HIDE DEF u
      <4> QED BY <4>1, <4>2
    <3>3. seqs[n] # <<>>
      <4> HIDE DEF u, a
      <4> QED BY <1>5, NotEmpty
    <3> HIDE DEF u
    <3>4. u[Len(t) + 1] = a
      <4>1. Len(t) + 1 \in 1..(Len(t) + 1) /\ ~(Len(t) + 1 <= Len(t)) /\ (Len(t) + 1) - Len(t) = 1 BY <3>1
      <4> QED BY <3>2, <4>1
    <3>5. \A k \in 1..Len(t) : u[k] = t[k]
      <4> TAKE k \in 1..Len(t)
      <4>1. k \in 1..(Len(t) + 1) /\ k <= Len(t) BY <3>1
      <4> QED BY <3>2, <4>1
    <3> QED BY <3>1, <3>2, <3>3, <3>4, <3>5
  <2> HIDE DEF u
  <2>2. \A k \in 1..Len(u) : \E i \in 1..n : seqs[i] # <<>> /\ u[k] = seqs[i][1]
    <3> TAKE k \in 1..Len(u)
    <3>1. CASE k = Len(t) + 1 BY <1>3, <2>1, <3>1
    <3>2. CASE k \in 1..Len(t) BY <1>3, <2>1, <3>2 DEF Collects
    <3> QED BY <2>1, <3>1, <3>2
  <2>3. \A k \in 1..Len(t) : u[k].id # a.id
    <3> TAKE k \in 1..Len(t)
    <3>1. PICK i \in 1..(n - 1) : seqs[i] # <<>> /\ t[k] = seqs[i][1] BY DEF Collects
    <3>2. i # n /\ i \in 1..Len(seqs) BY <1>3, <3>1 DEF Singles
    <3>3. seqs[i][1].id # seqs[n][1].id BY <2>1, <3>1, <3>2 DEF Singles
    <3> QED BY <2>1, <3>1, <3>3
  <2>4. \A k, l \in 1..Len(u) : u[k].id = u[l].id => k = l
    <3> TAKE k, l \in 1..Len(u)
    <3>1. CASE k \in 1..Len(t) /\ l \in 1..Len(t) BY <2>1, <3>1 DEF Collects
    <3>2. CASE k = Len(t) + 1 /\ l \in 1..Len(t) BY <2>1, <2>3, <3>2
    <3>3. CASE k \in 1..Len(t) /\ l = Len(t) + 1 BY <2>1, <2>3, <3>3
    <3>4. CASE k = Len(t) + 1 /\ l = Len(t) + 1 BY <3>4
    <3>5. (k \in 1..Len(t) \/ k = Len(t) + 1) /\ (l \in 1..Len(t) \/ l = Len(t) + 1) BY <2>1
    <3> QED BY <3>1, <3>2, <3>3, <3>4, <3>5
  <2>5. Collects(u, seqs, n, S) BY <2>1, <2>2, <2>4 DEF Collects
  <2> QED BY <2>5 DEF u
<1> QED BY <1>2, <1>4, <1>5

\* FlattenSeq collects what all of them hold, and loses no distinction of ids.
LEMMA FlattenCollects ==
  ASSUME NEW S, NEW seqs, Singles(seqs, S)
  PROVE  Collects(FlattenSeq(seqs), seqs, Len(seqs), S)
<1>1. seqs \in Seq(Seq(S)) /\ Len(seqs) \in Nat BY DEF Singles
<1>2. CASE Len(seqs) = 0
  <2>1. FlattenSeq(seqs) = seqs BY <1>2 DEF FlattenSeq
  <2>2. seqs = <<>> BY <1>1, <1>2
  <2> QED BY <1>2, <2>1, <2>2 DEF Collects
<1>3. CASE Len(seqs) # 0
  <2> DEFINE f == CHOOSE f : Joins(seqs, Len(seqs), f)
  <2>1. Joins(seqs, Len(seqs), f) BY <1>1, JoinsExists
  <2>2. FlattenSeq(seqs) = f[Len(seqs)] BY <1>3, FlattenIs
  <2> HIDE DEF f
  <2>3. \A i \in 1..Len(seqs) : f[i] = JoinStep(seqs, f, i) BY <2>1 DEF Joins
  <2> DEFINE N == {k \in Nat : k + 1 \in 1..Len(seqs) => Collects(f[k + 1], seqs, k + 1, S)}
  <2>4. 0 \in N
    <3>1. Collects(<<>>, seqs, 0, S) BY DEF Collects
    <3>2. 1 \in 1..Len(seqs) BY <1>1, <1>3
    <3>3. Collects(<<>> \o seqs[1], seqs, 1, S)
      <4>1. Collects(<<>>, seqs, 1 - 1, S) BY <3>1
      <4> QED BY <3>2, <4>1, CollectsOne
    <3>4. <<>> \o seqs[1] = seqs[1]
      <4>1. seqs[1] \in Seq(S) BY <1>1, <3>2, ElementOfSeq
      <4> QED BY <4>1, ConcatEmptySeq
    <3>5. f[1] = seqs[1] BY <2>3, <3>2 DEF JoinStep
    <3> QED BY <3>3, <3>4, <3>5
  <2>5. ASSUME NEW k \in Nat, k \in N PROVE k + 1 \in N
    <3> SUFFICES ASSUME (k + 1) + 1 \in 1..Len(seqs)
                 PROVE  Collects(f[(k + 1) + 1], seqs, (k + 1) + 1, S)
      OBVIOUS
    <3> DEFINE m == (k + 1) + 1
    <3>1. m \in 1..Len(seqs) /\ m - 1 = k + 1 /\ m # 1 /\ k + 1 \in 1..Len(seqs) BY <1>1
    <3>2. Collects(f[k + 1], seqs, k + 1, S) BY <2>5, <3>1
    <3>3. f[m] = f[m - 1] \o seqs[m] BY <2>3, <3>1 DEF JoinStep
    <3> HIDE DEF m
    <3>4. Collects(f[k + 1] \o seqs[m], seqs, m, S) BY <3>1, <3>2, CollectsOne
    <3>5. Collects(f[m], seqs, m, S) BY <3>1, <3>3, <3>4
    <3> QED BY <3>5 DEF m
  <2>6. Nat \subseteq N
    <3> HIDE DEF N
    <3> QED BY <2>4, <2>5, NatSetInduction
  <2>7. Len(seqs) - 1 \in N /\ (Len(seqs) - 1) + 1 = Len(seqs) /\ Len(seqs) \in 1..Len(seqs)
    <3> HIDE DEF N
    <3>1. Len(seqs) - 1 \in Nat BY <1>1, <1>3
    <3>2. (Len(seqs) - 1) + 1 = Len(seqs) /\ Len(seqs) \in 1..Len(seqs) BY <1>1, <1>3
    <3> QED BY <2>6, <3>1, <3>2
  <2>8. Collects(f[Len(seqs)], seqs, Len(seqs), S) BY <2>7
  <2> QED BY <2>2, <2>8
<1> QED BY <1>2, <1>3

-----------------------------------------------------------------------------
(* The invariant.                                                           *)

\* How long the stream of a row may have been gone: one cycle for each missed
\* poll, for each fault, and for the cycle whose polls are all due.
Lag == faults + (IF due = Cardinality(Replicas) THEN 1 ELSE 0)
GoneBounded == \A i \in DOMAIN rows : rows[i].gone <= rows[i].missed + Lag

StreamInv == TypeOK /\ IsFiniteSet(DOMAIN live) /\ GoneBounded

\* There is a poll per cycle.
LEMMA ReplicasCount == Cardinality(Replicas) \in Nat \ {0}
BY ReplicaAssumption, FS_CardinalityType, FS_EmptySet

\* A non-empty set of naturals has a least element, and Min is it.
LEMMA LeastIs ==
  ASSUME NEW S, S \subseteq Nat, S # {}
  PROVE  Min(S) \in S /\ \A y \in S : Min(S) <= y
<1>1. \E x \in S : \A y \in S : ~ (<<y, x>> \in OpToRel(<, Nat))
  BY NatLessThanWellFounded, WFMin
<1>2. PICK x \in S : \A y \in S : ~(y < x) BY <1>1 DEF OpToRel
<1>3. \A y \in S : x <= y BY <1>2
<1> QED BY <1>3 DEF Min

\* The cycles not yet charged to a row are the faults and at most one more.
LEMMA LagIs ==
  ASSUME TypeOK
  PROVE  /\ faults \in Nat /\ due \in Nat /\ Lag \in Nat /\ faults <= Lag /\ Lag <= faults + 1
         /\ due # Cardinality(Replicas) => Lag = faults
BY ReplicasCount, StreamBounds DEF TypeOK, Lag

-----------------------------------------------------------------------------
(* A poll.                                                                  *)

\* Rows whose missed polls and the faults account for the whole absence.
Settled == {r \in Row : r.gone <= r.missed + faults}

SeenAs(claim, i) == {s \in DOMAIN live : claim[s] = i}

Kept(claim, i) ==
  IF SeenAs(claim, i) = {} THEN Missed(rows[i])
  ELSE LET s == CHOOSE x \in SeenAs(claim, i) : TRUE
       IN  IF NewViewing(s, i) THEN <<>> ELSE <<Seen(s)>>

\* Reconciled, with its local definitions named.
LEMMA ReconciledIs ==
  ASSUME NEW claim, NEW order
  PROVE  Reconciled(claim, order) =
           FlattenSeq([i \in DOMAIN rows |-> Kept(claim, i)]) \o [k \in DOMAIN order |-> Seen(order[k])]
BY DEF Reconciled, Kept, SeenAs

\* The rows are a sequence of rows.
LEMMA RowsAre ==
  ASSUME TypeOK
  PROVE  DOMAIN rows = 1..Len(rows) /\ Len(rows) \in Nat /\ \A i \in DOMAIN rows : rows[i] \in Row
<1>1. rows \in Seq(Row) BY DEF TypeOK
<1> QED BY <1>1, LenProperties, ElementOfSeq

\* A live session claims its own row if it has one, and a row or none at all.
LEMMA ClaimIs ==
  ASSUME TypeOK, NEW s
  PROVE  /\ ClaimOf(s) \in DOMAIN rows \cup {None}
         /\ \A i \in DOMAIN rows : rows[i].id = s => ClaimOf(s) = i
<1>1. DOMAIN rows \subseteq Nat BY RowsAre
<1>2. RowOf(s) \subseteq DOMAIN rows /\ Adoptable(s) \subseteq DOMAIN rows BY DEF RowOf, Adoptable
<1>3. CASE RowOf(s) # {}
  <2>1. ClaimOf(s) = Min(RowOf(s)) BY <1>3 DEF ClaimOf
  <2>2. ClaimOf(s) \in RowOf(s) BY <1>1, <1>2, <1>3, <2>1, LeastIs
  <2> QED BY <1>2, <2>2 DEF RowOf, TypeOK
<1>4. CASE RowOf(s) = {} /\ Adoptable(s) # {}
  <2>1. ClaimOf(s) = Min(Adoptable(s)) BY <1>4 DEF ClaimOf
  <2>2. ClaimOf(s) \in Adoptable(s) BY <1>1, <1>2, <1>4, <2>1, LeastIs
  <2> QED BY <1>2, <1>4, <2>2 DEF RowOf
<1>5. CASE RowOf(s) = {} /\ Adoptable(s) = {}
  <2>1. ClaimOf(s) = None BY <1>5 DEF ClaimOf
  <2> QED BY <1>5, <2>1 DEF RowOf
<1> QED BY <1>3, <1>4, <1>5

\* What a poll writes about a session it sees accounts for itself.
LEMMA SeenIs ==
  ASSUME TypeOK, NEW s \in DOMAIN live
  PROVE  Seen(s) \in Settled /\ Seen(s).id = s
<1>1. s \in Sessions /\ live[s] \in [title : Titles, paused : BOOLEAN] BY DEF TypeOK
<1>2. live[s].title \in Titles /\ live[s].paused \in BOOLEAN BY <1>1
<1>3. /\ 0 \in 0..(GracePolls - 1) /\ 0 \in 0..(Stale + 1) /\ 0 \in 0..(Memory + 1)
  BY LimitAssumption, StreamBounds DEF Memory
<1>4. Seen(s) \in Row BY <1>1, <1>2, <1>3 DEF Seen, Row
<1>5. Seen(s).gone = 0 /\ Seen(s).missed = 0 /\ Seen(s).id = s BY DEF Seen
<1> QED BY <1>4, <1>5, LagIs DEF Settled

\* The fields of a row.
LEMMA RowFields ==
  ASSUME NEW r \in Row
  PROVE  /\ r.id \in Sessions /\ r.title \in Titles /\ r.paused \in BOOLEAN
         /\ r.missed \in Nat /\ r.missed < GracePolls
         /\ r.age \in Nat /\ r.age <= Stale + 1 /\ r.gone \in Nat /\ r.gone <= Memory + 1
         /\ GracePolls \in Nat /\ Stale \in Nat /\ Memory \in Nat
BY LimitAssumption, StreamBounds DEF Row, Memory

\* A row with a miss counted, field by field.
LEMMA WithMiss ==
  ASSUME NEW r, NEW v, NEW w,
         r = [id |-> r.id, title |-> r.title, paused |-> r.paused, missed |-> r.missed, age |-> r.age, gone |-> r.gone]
  PROVE  [r EXCEPT !.missed = v, !.age = w] =
           [id |-> r.id, title |-> r.title, paused |-> r.paused, missed |-> v, age |-> w, gone |-> r.gone]
<1> DEFINE e == [r EXCEPT !.missed = v]
<1>1. e = [id |-> r.id, title |-> r.title, paused |-> r.paused, missed |-> v, age |-> r.age, gone |-> r.gone]
  OBVIOUS
<1> HIDE DEF e
<1>2. [e EXCEPT !.age = w] =
        [id |-> r.id, title |-> r.title, paused |-> r.paused, missed |-> v, age |-> w, gone |-> r.gone]
  BY <1>1
<1>3. [r EXCEPT !.missed = v, !.age = w] = [e EXCEPT !.age = w] BY DEF e
<1> QED BY <1>2, <1>3

\* A row nobody claims pays for the cycle with a missed poll, or ends.
LEMMA MissedIs ==
  ASSUME TypeOK, NEW r \in Row, r.gone <= r.missed + Lag
  PROVE  /\ Missed(r) \in Seq(Settled) /\ Len(Missed(r)) <= 1
         /\ Missed(r) # <<>> => Missed(r)[1].id = r.id
<1>1. CASE r.missed + 1 < GracePolls
  <2> DEFINE q == [r EXCEPT !.missed = @ + 1, !.age = 0]
  <2>1. Missed(r) = <<q>> BY <1>1 DEF Missed
  <2>2. /\ q.missed = r.missed + 1 /\ q.gone = r.gone /\ q.id = r.id
        /\ q \in [id : Sessions, title : Titles, paused : BOOLEAN, missed : Nat, age : {0}, gone : 0..(Memory + 1)]
    <3>1. q = [id |-> r.id, title |-> r.title, paused |-> r.paused, missed |-> r.missed + 1, age |-> 0, gone |-> r.gone]
      <4>1. r = [id |-> r.id, title |-> r.title, paused |-> r.paused, missed |-> r.missed, age |-> r.age, gone |-> r.gone]
        BY DEF Row
      <4> QED BY <4>1, WithMiss
    <3> HIDE DEF q
    <3> QED BY <3>1, RowFields
  <2> HIDE DEF q
  <2>3. q \in Row BY <1>1, <2>2, RowFields DEF Row
  <2>4. q.gone <= q.missed + faults BY <2>2, LagIs, RowFields
  <2>5. q \in Settled BY <2>3, <2>4 DEF Settled
  <2> QED BY <2>1, <2>2, <2>5
<1>2. CASE ~(r.missed + 1 < GracePolls)
  <2>1. Missed(r) = <<>> BY <1>2 DEF Missed
  <2> QED BY <2>1, EmptySeq
<1> QED BY <1>1, <1>2

\* At most one row is left at each place: the old one, missed, or that of the
\* session that claims it.
LEMMA KeptIs ==
  ASSUME StreamInv, NEW claim, NEW i \in DOMAIN rows
  PROVE  /\ Kept(claim, i) \in Seq(Settled) /\ Len(Kept(claim, i)) <= 1
         /\ Kept(claim, i) # <<>> =>
              \/ SeenAs(claim, i) = {} /\ Kept(claim, i)[1].id = rows[i].id
              \/ LET s == Kept(claim, i)[1].id
                 IN  s \in DOMAIN live /\ claim[s] = i /\ ~NewViewing(s, i)
<1>1. TypeOK /\ GoneBounded BY DEF StreamInv
<1>2. CASE SeenAs(claim, i) = {}
  <2>1. Kept(claim, i) = Missed(rows[i]) BY <1>2 DEF Kept
  <2>2. rows[i] \in Row /\ rows[i].gone <= rows[i].missed + Lag BY <1>1, RowsAre DEF GoneBounded
  <2> QED BY <1>1, <1>2, <2>1, <2>2, MissedIs
<1>3. CASE SeenAs(claim, i) # {}
  <2> DEFINE s == CHOOSE x \in SeenAs(claim, i) : TRUE
  <2>1. s \in SeenAs(claim, i) BY <1>3
  <2>2. Kept(claim, i) = IF NewViewing(s, i) THEN <<>> ELSE <<Seen(s)>> BY <1>3 DEF Kept
  <2> HIDE DEF s
  <2>3. s \in DOMAIN live /\ claim[s] = i BY <2>1 DEF SeenAs
  <2>4. Seen(s) \in Settled /\ Seen(s).id = s BY <1>1, <2>3, SeenIs
  <2>5. CASE NewViewing(s, i)
    <3>1. Kept(claim, i) = <<>> BY <2>2, <2>5
    <3> QED BY <3>1, EmptySeq
  <2>6. CASE ~NewViewing(s, i)
    <3>1. Kept(claim, i) = <<Seen(s)>> BY <2>2, <2>6
    <3>2. Kept(claim, i) \in Seq(Settled) /\ Len(Kept(claim, i)) = 1 /\ Kept(claim, i)[1] = Seen(s) BY <2>4, <3>1
    <3> QED BY <2>3, <2>4, <2>6, <3>2
  <2> QED BY <2>5, <2>6
<1> QED BY <1>2, <1>3

\* A poll writes every session it sees into one row and keeps the ids of rows apart.
LEMMA PollKeeps ==
  ASSUME StreamInv, Poll
  PROVE  /\ rows' \in Seq(Settled)
         /\ \A k, l \in DOMAIN rows' : rows'[k].id = rows'[l].id => k = l
<1> DEFINE claim == [s \in DOMAIN live |-> ClaimOf(s)]
           New == {s \in DOMAIN live : NewViewing(s, claim[s])}
           seqs == [i \in DOMAIN rows |-> Kept(claim, i)]
           t == FlattenSeq(seqs)
<1>1. PICK order \in SetToSeqs(New) : rows' = Reconciled(claim, order) BY DEF Poll
<1> DEFINE u == [k \in DOMAIN order |-> Seen(order[k])]
           c == Cardinality(New)
<1>2. rows' = t \o u BY <1>1, ReconciledIs
<1>3. TypeOK /\ IsFiniteSet(DOMAIN live) BY DEF StreamInv
<1>4. \A s \in DOMAIN live : claim[s] = ClaimOf(s) OBVIOUS
<1>5. c \in Nat BY <1>3, FS_Subset, FS_CardinalityType
<1>6. order \in [1..c -> New] /\ \A k, l \in 1..c : k # l => order[k] # order[l]
  BY <1>1 DEF SetToSeqs
<1> HIDE DEF claim
<1>7. \A k \in 1..c : order[k] \in DOMAIN live /\ NewViewing(order[k], claim[order[k]])
  BY <1>6
<1>8. u = [k \in 1..c |-> Seen(order[k])] BY <1>6
<1> HIDE DEF c, New, u
<1>9. u \in Seq(Settled) /\ Len(u) = c /\ \A k \in 1..c : u[k].id = order[k]
  <2>1. \A k \in 1..c : Seen(order[k]) \in Settled /\ Seen(order[k]).id = order[k]
    BY <1>3, <1>7, SeenIs
  <2> QED BY <1>5, <1>8, <2>1
<1>10. Singles(seqs, Settled) /\ Len(seqs) = Len(rows)
  <2>1. DOMAIN rows = 1..Len(rows) /\ Len(rows) \in Nat BY <1>3, RowsAre
  <2>2. \A i \in 1..Len(rows) : seqs[i] = Kept(claim, i) BY <2>1
  <2>3. \A i \in 1..Len(rows) : Kept(claim, i) \in Seq(Settled) BY <2>1, KeptIs
  <2>4. seqs \in Seq(Seq(Settled)) /\ Len(seqs) = Len(rows) BY <2>1, <2>3
  <2> HIDE DEF seqs
  <2>5. ASSUME NEW i \in 1..Len(rows), NEW j \in 1..Len(rows),
               i # j, seqs[i] # <<>>, seqs[j] # <<>>
        PROVE  seqs[i][1].id # seqs[j][1].id
    <3>1. Kept(claim, i) # <<>> /\ Kept(claim, j) # <<>> BY <2>2, <2>5
    <3> DEFINE a == Kept(claim, i)[1].id
               b == Kept(claim, j)[1].id
    <3>2. \/ SeenAs(claim, i) = {} /\ a = rows[i].id
          \/ a \in DOMAIN live /\ claim[a] = i
      BY <2>1, <3>1, KeptIs
    <3>3. \/ SeenAs(claim, j) = {} /\ b = rows[j].id
          \/ b \in DOMAIN live /\ claim[b] = j
      BY <2>1, <3>1, KeptIs
    <3> HIDE DEF a, b
    <3>4. a # b
      <4>1. CASE a = rows[i].id /\ b = rows[j].id
        BY <1>3, <2>1, <2>5, <4>1 DEF TypeOK
      <4>2. CASE SeenAs(claim, i) = {} /\ a = rows[i].id /\ b \in DOMAIN live /\ claim[b] = j
        <5>1. a = b => claim[b] = i BY <1>3, <1>4, <2>1, <4>2, ClaimIs
        <5> QED BY <2>5, <4>2, <5>1
      <4>3. CASE a \in DOMAIN live /\ claim[a] = i /\ SeenAs(claim, j) = {} /\ b = rows[j].id
        <5>1. a = b => claim[a] = j BY <1>3, <1>4, <2>1, <4>3, ClaimIs
        <5> QED BY <2>5, <4>3, <5>1
      <4>4. CASE claim[a] = i /\ claim[b] = j BY <2>5, <4>4
      <4> QED BY <3>2, <3>3, <4>1, <4>2, <4>3, <4>4
    <3> QED BY <2>2, <3>4 DEF a, b
  <2>6. \A i \in 1..Len(rows) : Len(seqs[i]) <= 1 BY <2>1, <2>2, KeptIs
  <2> QED BY <2>4, <2>5, <2>6 DEF Singles
<1>11. Collects(t, seqs, Len(rows), Settled) BY <1>10, FlattenCollects
<1>12. \A i \in 1..Len(rows) : seqs[i] = Kept(claim, i) BY <1>3, RowsAre
<1> HIDE DEF seqs, t
<1>13. t \in Seq(Settled) /\ Len(t) \in Nat BY <1>11, LenProperties DEF Collects
<1>14. \A k \in 1..Len(t), l \in 1..c : t[k].id # u[l].id
  <2> TAKE k \in 1..Len(t), l \in 1..c
  <2>1. PICK i \in 1..Len(rows) : seqs[i] # <<>> /\ t[k] = seqs[i][1] BY <1>11 DEF Collects
  <2> DEFINE a == Kept(claim, i)[1].id
  <2>2. i \in DOMAIN rows /\ Kept(claim, i) # <<>> /\ t[k].id = a BY <1>3, <1>12, <2>1, RowsAre
  <2>3. \/ SeenAs(claim, i) = {} /\ a = rows[i].id
        \/ a \in DOMAIN live /\ claim[a] = i /\ ~NewViewing(a, i)
    BY <2>2, KeptIs
  <2> HIDE DEF a
  <2>4. order[l] \in DOMAIN live /\ NewViewing(order[l], claim[order[l]]) /\ u[l].id = order[l] BY <1>7, <1>9
  <2>5. CASE SeenAs(claim, i) = {} /\ a = rows[i].id
    <3>1. a = order[l] => claim[order[l]] = i BY <1>3, <1>4, <2>2, <2>4, <2>5, ClaimIs
    <3>2. a = order[l] => order[l] \in SeenAs(claim, i) BY <2>4, <3>1 DEF SeenAs
    <3> QED BY <2>2, <2>4, <2>5, <3>2
  <2>6. CASE a \in DOMAIN live /\ claim[a] = i /\ ~NewViewing(a, i) BY <2>2, <2>4, <2>6
  <2> QED BY <2>3, <2>5, <2>6
<1> DEFINE w == t \o u
<1>15. /\ w \in Seq(Settled) /\ Len(w) = Len(t) + c
       /\ \A k \in 1..(Len(t) + c) : w[k] = IF k <= Len(t) THEN t[k] ELSE u[k - Len(t)]
  BY <1>9, <1>13, ConcatProperties
<1>16. rows' = w /\ DOMAIN w = 1..(Len(t) + c) BY <1>2, <1>15, LenProperties
<1> HIDE DEF w
<1>17. ASSUME NEW k \in 1..(Len(t) + c), NEW l \in 1..(Len(t) + c), w[k].id = w[l].id
       PROVE  k = l
  <2>0. Len(t) \in Nat /\ c \in Nat BY <1>5, <1>13
  <2>1. CASE k <= Len(t) /\ l <= Len(t)
    <3>1. w[k] = t[k] /\ w[l] = t[l] /\ k \in 1..Len(t) /\ l \in 1..Len(t) BY <1>15, <2>0, <2>1
    <3> QED BY <1>11, <1>17, <3>1 DEF Collects
  <2>2. CASE k <= Len(t) /\ ~(l <= Len(t))
    <3>1. w[k] = t[k] /\ w[l] = u[l - Len(t)] /\ k \in 1..Len(t) /\ l - Len(t) \in 1..c BY <1>15, <2>0, <2>2
    <3> QED BY <1>14, <1>17, <3>1
  <2>3. CASE ~(k <= Len(t)) /\ l <= Len(t)
    <3>1. w[l] = t[l] /\ w[k] = u[k - Len(t)] /\ l \in 1..Len(t) /\ k - Len(t) \in 1..c BY <1>15, <2>0, <2>3
    <3> QED BY <1>14, <1>17, <3>1
  <2>4. CASE ~(k <= Len(t)) /\ ~(l <= Len(t))
    <3>1. /\ w[k] = u[k - Len(t)] /\ w[l] = u[l - Len(t)]
          /\ k - Len(t) \in 1..c /\ l - Len(t) \in 1..c
      BY <1>15, <2>0, <2>4
    <3>2. order[k - Len(t)] = order[l - Len(t)] BY <1>9, <1>17, <3>1
    <3>3. k - Len(t) = l - Len(t) BY <1>6, <3>1, <3>2
    <3> QED BY <2>0, <3>3
  <2> QED BY <2>1, <2>2, <2>3, <2>4
<1> QED BY <1>15, <1>16, <1>17

-----------------------------------------------------------------------------
(* The rows, under every action.                                            *)

RowsOK ==
  /\ rows \in Seq(Row)
  /\ \A i, j \in DOMAIN rows : rows[i].id = rows[j].id => i = j
  /\ GoneBounded

\* After a poll every absence is paid for.
LEMMA PollRows ==
  ASSUME StreamInv, Poll
  PROVE  RowsOK'
<1>1. /\ rows' \in Seq(Settled)
      /\ \A k, l \in DOMAIN rows' : rows'[k].id = rows'[l].id => k = l
  BY PollKeeps
<1>2. rows' \in Seq(Row)
  <2>1. Settled \subseteq Row BY DEF Settled
  <2> QED BY <1>1, <2>1, SeqMonotonic
<1>3. \A i \in DOMAIN rows' : rows'[i] \in Settled
  <2>1. DOMAIN rows' = 1..Len(rows') BY <1>1, LenProperties
  <2> QED BY <1>1, <2>1, ElementOfSeq
<1>4. Lag' = faults
  <2>1. due \in 0..Cardinality(Replicas) /\ due' = due - 1 /\ due > 0 /\ faults' = faults /\ faults \in Nat
    BY LagIs DEF StreamInv, TypeOK, Poll
  <2>2. due' # Cardinality(Replicas) BY <2>1, ReplicasCount
  <2> QED BY <2>1, <2>2 DEF Lag
<1>5. GoneBounded' BY <1>3, <1>4 DEF GoneBounded, Settled
<1> QED BY <1>1, <1>2, <1>5 DEF RowsOK

\* A row a cycle older, field by field.
LEMMA WithCycle ==
  ASSUME NEW r, NEW v, NEW w,
         r = [id |-> r.id, title |-> r.title, paused |-> r.paused, missed |-> r.missed, age |-> r.age, gone |-> r.gone]
  PROVE  [r EXCEPT !.age = v, !.gone = w] =
           [id |-> r.id, title |-> r.title, paused |-> r.paused, missed |-> r.missed, age |-> v, gone |-> w]
<1> DEFINE e == [r EXCEPT !.age = v]
<1>1. e = [id |-> r.id, title |-> r.title, paused |-> r.paused, missed |-> r.missed, age |-> v, gone |-> r.gone]
  OBVIOUS
<1> HIDE DEF e
<1>2. [e EXCEPT !.gone = w] =
        [id |-> r.id, title |-> r.title, paused |-> r.paused, missed |-> r.missed, age |-> v, gone |-> w]
  BY <1>1
<1>3. [r EXCEPT !.age = v, !.gone = w] = [e EXCEPT !.gone = w] BY DEF e
<1> QED BY <1>2, <1>3

\* A cycle passes: every stream may be gone one cycle longer, and its polls are due.
LEMMA TickRows ==
  ASSUME StreamInv, Tick
  PROVE  RowsOK'
<1>1. TypeOK /\ GoneBounded BY DEF StreamInv
<1> DEFINE Older(r) == Min({r.age + 1, Stale + 1})
           Longer(r) == IF Plays(r) THEN 0 ELSE Min({r.gone + 1, Memory + 1})
           Aged(r) == [r EXCEPT !.age = Older(r), !.gone = Longer(r)]
<1>2. rows' = [i \in DOMAIN rows |-> Aged(rows[i])] BY DEF Tick
<1>3. ASSUME NEW r \in Row, r.gone <= r.missed + Lag
      PROVE  /\ Aged(r) \in Row /\ Aged(r).id = r.id
             /\ Aged(r).gone <= Aged(r).missed + Lag'
  <2>1. Older(r) \in 0..(Stale + 1)
    <3>1. r.age + 1 \in Int /\ Stale + 1 \in Int /\ r.age + 1 >= 0 /\ Stale + 1 >= 0 BY RowFields
    <3>2. Older(r) \in {r.age + 1, Stale + 1} /\ Older(r) <= Stale + 1 BY <3>1, MinOfTwo
    <3> QED BY <3>1, <3>2
  <2>2. Longer(r) \in 0..(Memory + 1) /\ Longer(r) <= r.gone + 1
    <3>0. r.gone \in Nat /\ Memory \in Nat BY RowFields
    <3>1. CASE Plays(r)
      <4>1. Longer(r) = 0 BY <3>1
      <4> QED BY <3>0, <4>1
    <3>2. CASE ~Plays(r)
      <4>1. r.gone + 1 \in Int /\ Memory + 1 \in Int /\ r.gone + 1 >= 0 /\ Memory + 1 >= 0 BY <3>0
      <4>2. Longer(r) = Min({r.gone + 1, Memory + 1}) BY <3>2
      <4>3. Longer(r) \in {r.gone + 1, Memory + 1} /\ Longer(r) <= Memory + 1 /\ Longer(r) <= r.gone + 1
        BY <4>1, <4>2, MinOfTwo
      <4> QED BY <4>1, <4>3
    <3> QED BY <3>1, <3>2
  <2>3. Lag' = Lag + 1
    <3>1. due = 0 /\ due' = Cardinality(Replicas) /\ faults' = faults /\ faults \in Nat BY <1>1, LagIs DEF Tick
    <3> QED BY <3>1, ReplicasCount DEF Lag
  <2>4. Aged(r) = [id |-> r.id, title |-> r.title, paused |-> r.paused, missed |-> r.missed,
                   age |-> Older(r), gone |-> Longer(r)]
    <3>1. r = [id |-> r.id, title |-> r.title, paused |-> r.paused, missed |-> r.missed, age |-> r.age, gone |-> r.gone]
      BY DEF Row
    <3> HIDE DEF Older, Longer
    <3> QED BY <3>1, WithCycle
  <2> HIDE DEF Aged, Older, Longer
  <2>5. Aged(r) \in Row BY <2>1, <2>2, <2>4, RowFields DEF Row
  <2>6. Aged(r).id = r.id /\ Aged(r).gone = Longer(r) /\ Aged(r).missed = r.missed BY <2>4
  <2>7. Longer(r) <= r.missed + (Lag + 1)
    <3>1. Longer(r) \in Int /\ r.gone \in Int /\ r.missed \in Int /\ Lag \in Int
      BY <1>1, <2>2, LagIs, RowFields
    <3> QED BY <1>3, <2>2, <3>1
  <2> QED BY <2>3, <2>5, <2>6, <2>7
<1> HIDE DEF Aged
<1>4. DOMAIN rows = 1..Len(rows) /\ Len(rows) \in Nat BY <1>1, RowsAre
<1>5. \A i \in DOMAIN rows : /\ rows'[i] \in Row /\ rows'[i].id = rows[i].id
                             /\ rows'[i].gone <= rows'[i].missed + Lag'
  <2> TAKE i \in DOMAIN rows
  <2>1. rows'[i] = Aged(rows[i]) /\ rows[i] \in Row /\ rows[i].gone <= rows[i].missed + Lag
    BY <1>1, <1>2, RowsAre DEF GoneBounded
  <2> QED BY <1>3, <2>1
<1>6. DOMAIN rows' = DOMAIN rows BY <1>2
<1>7. rows' \in Seq(Row)
  <2>1. \A i \in 1..Len(rows) : Aged(rows[i]) \in Row BY <1>2, <1>4, <1>5
  <2>2. rows' = [i \in 1..Len(rows) |-> Aged(rows[i])] BY <1>2, <1>4
  <2> QED BY <1>4, <2>1, <2>2
<1>8. GoneBounded' BY <1>5, <1>6 DEF GoneBounded
<1>9. \A i, j \in DOMAIN rows' : rows'[i].id = rows'[j].id => i = j BY <1>1, <1>5, <1>6 DEF TypeOK
<1> QED BY <1>7, <1>8, <1>9 DEF RowsOK

\* Rows nobody writes to: a fault pays for the cycle its polls lose.
LEMMA RowsStay ==
  ASSUME StreamInv, rows' = rows,
         \/ due' = due /\ faults' = faults
         \/ (due' = due \/ due' = 0) /\ faults' = faults + 1
  PROVE  RowsOK'
<1>1. TypeOK /\ GoneBounded BY DEF StreamInv
<1>2. Lag' \in Nat /\ Lag \in Nat /\ Lag <= Lag'
  BY <1>1, LagIs, ReplicasCount DEF Lag
<1>3. \A i \in DOMAIN rows : rows[i].gone <= rows[i].missed + Lag'
  <2> TAKE i \in DOMAIN rows
  <2>1. rows[i].gone \in Nat /\ rows[i].missed \in Nat BY <1>1, RowsAre, RowFields
  <2>2. rows[i].gone <= rows[i].missed + Lag BY <1>1 DEF GoneBounded
  <2> QED BY <1>2, <2>1, <2>2
<1>4. GoneBounded' BY <1>3 DEF GoneBounded
<1> QED BY <1>1, <1>4 DEF RowsOK, TypeOK

\* One step per action.
LEMMA RowsStep ==
  ASSUME StreamInv, [Next]_vars
  PROVE  RowsOK'
<1>1. CASE Person BY <1>1, RowsStay DEF Person, Stop, Pause, Start, Autoplay, PersonActs
<1>2. CASE Tick BY <1>2, TickRows
<1>3. CASE Poll BY <1>3, PollRows
<1>4. CASE PollFails BY <1>4, RowsStay DEF PollFails, Fault
<1>5. CASE Expire BY <1>5, RowsStay DEF Expire, streamVars
<1>6. ASSUME NEW r \in Replicas, Pass(r)
      PROVE  RowsOK'
  <2>1. CASE Comply(r) \/ Arm(r) \/ Enter(r) \/ Decide(r) \/ Leave(r)
    BY <2>1, RowsStay DEF Comply, Arm, Enter, Decide, Leave, Unmoved
  <2>2. ASSUME NEW s \in Sessions, Terminate(r, s)
        PROVE  RowsOK'
    BY <2>2, RowsStay DEF Terminate, Unmoved, Fault
  <2> QED BY <1>6, <2>1, <2>2 DEF Pass
<1>7. ASSUME NEW r \in Replicas, BodyFails(r) \/ Crash(r)
      PROVE  RowsOK'
  BY <1>7, RowsStay DEF BodyFails, Crash, Unmoved, Fault
<1>8. ASSUME NEW r \in Replicas, RedisFails(r)
      PROVE  RowsOK'
  BY <1>8, RowsStay DEF RedisFails, Unmoved
<1>9. CASE UNCHANGED vars BY <1>9, RowsStay DEF vars, streamVars
<1> QED BY <1>1, <1>2, <1>3, <1>4, <1>5, <1>6, <1>7, <1>8, <1>9 DEF Next

-----------------------------------------------------------------------------
(* The media server and the enforcer, under every action.                   *)

LiveOK ==
  /\ DOMAIN live \subseteq Sessions
  /\ live \in [DOMAIN live -> [title : Titles, paused : BOOLEAN]]
  /\ IsFiniteSet(DOMAIN live)

Playing == [title : Titles, paused : BOOLEAN]

\* What a person or a termination may make of a session.
LEMMA LiveIs ==
  ASSUME NEW D, D \subseteq Sessions, IsFiniteSet(D), live' \in [D -> Playing]
  PROVE  LiveOK'
BY DEF LiveOK, Playing

\* Sessions come, go, pause and move on.
LEMMA PersonLive ==
  ASSUME StreamInv, Person
  PROVE  LiveOK'
<1>1. /\ DOMAIN live \subseteq Sessions /\ IsFiniteSet(DOMAIN live)
      /\ live \in [DOMAIN live -> Playing]
  BY DEF StreamInv, TypeOK, Playing
<1>2. ASSUME NEW s \in Sessions, Stop(s) PROVE LiveOK'
  <2>1. live' = [x \in DOMAIN live \ {s} |-> live[x]] BY <1>2 DEF Stop, PersonActs
  <2>2. live' \in [DOMAIN live \ {s} -> Playing] BY <1>1, <2>1
  <2>3. IsFiniteSet(DOMAIN live \ {s}) BY <1>1, FS_Subset
  <2> QED BY <1>1, <2>2, <2>3, LiveIs
<1>3. ASSUME NEW s \in Sessions, Pause(s) PROVE LiveOK'
  <2>1. s \in DOMAIN live /\ live' = [live EXCEPT ![s].paused = ~@] BY <1>3 DEF Pause, PersonActs
  <2>2. [live[s] EXCEPT !.paused = ~@] \in Playing
    <3>1. live[s] \in Playing BY <1>1, <2>1
    <3> QED BY <3>1 DEF Playing
  <2>3. live' \in [DOMAIN live -> Playing] BY <1>1, <2>1, <2>2
  <2> QED BY <1>1, <2>3, LiveIs
<1>4. ASSUME NEW s \in Sessions, NEW t \in Titles, Start(s, t) PROVE LiveOK'
  <2>1. live' = [x \in DOMAIN live \cup {s} |-> IF x = s THEN [title |-> t, paused |-> FALSE] ELSE live[x]]
    BY <1>4 DEF Start, PersonActs
  <2>2. [title |-> t, paused |-> FALSE] \in Playing BY DEF Playing
  <2>3. live' \in [DOMAIN live \cup {s} -> Playing] BY <1>1, <2>1, <2>2
  <2>4. IsFiniteSet(DOMAIN live \cup {s}) BY <1>1, FS_AddElement
  <2> QED BY <1>1, <2>3, <2>4, LiveIs
<1>5. ASSUME NEW s \in Sessions, NEW t \in Titles, Autoplay(s, t) PROVE LiveOK'
  <2>1. s \in DOMAIN live /\ live' = [live EXCEPT ![s].title = t] BY <1>5 DEF Autoplay, PersonActs
  <2>2. [live[s] EXCEPT !.title = t] \in Playing
    <3>1. live[s] \in Playing BY <1>1, <2>1
    <3> QED BY <3>1 DEF Playing
  <2>3. live' \in [DOMAIN live -> Playing] BY <1>1, <2>1, <2>2
  <2> QED BY <1>1, <2>3, LiveIs
<1> QED BY <1>2, <1>3, <1>4, <1>5 DEF Person

\* One step per action.
LEMMA LiveStep ==
  ASSUME StreamInv, [Next]_vars
  PROVE  LiveOK'
<1>1. /\ DOMAIN live \subseteq Sessions /\ IsFiniteSet(DOMAIN live)
      /\ live \in [DOMAIN live -> Playing]
  BY DEF StreamInv, TypeOK, Playing
<1>2. live' = live => LiveOK' BY <1>1, LiveIs
<1>3. CASE Person BY <1>3, PersonLive
<1>4. CASE Tick \/ Poll \/ PollFails \/ Expire
  BY <1>2, <1>4 DEF Tick, Poll, PollFails, Expire, streamVars
<1>5. ASSUME NEW r \in Replicas, Pass(r)
      PROVE  LiveOK'
  <2>1. CASE Comply(r) \/ Arm(r) \/ Enter(r) \/ Decide(r) \/ Leave(r)
    BY <1>2, <2>1 DEF Comply, Arm, Enter, Decide, Leave
  <2>2. ASSUME NEW s \in Sessions, Terminate(r, s)
        PROVE  LiveOK'
    <3>1. CASE live' = [x \in DOMAIN live \ {s} |-> live[x]]
      <4>1. live' \in [DOMAIN live \ {s} -> Playing] BY <1>1, <3>1
      <4>2. IsFiniteSet(DOMAIN live \ {s}) BY <1>1, FS_Subset
      <4> QED BY <1>1, <4>1, <4>2, LiveIs
    <3> QED BY <1>2, <2>2, <3>1 DEF Terminate
  <2> QED BY <1>5, <2>1, <2>2 DEF Pass
<1>6. ASSUME NEW r \in Replicas, BodyFails(r) \/ RedisFails(r) \/ Crash(r)
      PROVE  LiveOK'
  BY <1>2, <1>6 DEF BodyFails, RedisFails, Crash
<1>7. CASE UNCHANGED vars BY <1>2, <1>7 DEF vars, streamVars
<1> QED BY <1>3, <1>4, <1>5, <1>6, <1>7 DEF Next

PassOK ==
  /\ due \in 0..Cardinality(Replicas)
  /\ pending \in [Replicas -> Unarmed..2]
  /\ pc \in [Replicas -> {"idle", "fresh", "kill"}]
  /\ victims \in [Replicas -> SUBSET Sessions]
  /\ acts \in 0..MaxActs /\ faults \in 0..MaxFaults

\* Whoever is selected has a row, and rows name sessions.
LEMMA VictimsAre ==
  ASSUME TypeOK
  PROVE  SelectVictims \subseteq Sessions
<1>1. \A i \in DOMAIN rows : rows[i].id \in Sessions BY RowsAre, RowFields
<1> QED BY <1>1 DEF SelectVictims, Countable

\* One step per action.
LEMMA PassStep ==
  ASSUME StreamInv, [Next]_vars
  PROVE  PassOK'
<1>1. TypeOK /\ PassOK BY DEF StreamInv, TypeOK, PassOK
<1>2. CASE Person
  BY <1>1, <1>2, StreamBounds DEF Person, Stop, Pause, Start, Autoplay, PersonActs, PassOK
<1>3. CASE Tick
  <2>0. /\ due' = Cardinality(Replicas)
        /\ pending' = [r \in Replicas |-> IF pending[r] = Unarmed THEN Unarmed ELSE Min({pending[r] + 1, 2})]
    BY <1>3 DEF Tick
  <2>1. \A r \in Replicas : pending'[r] \in Unarmed..2
    <3> TAKE r \in Replicas
    <3>1. pending[r] \in Unarmed..2 BY <1>1 DEF PassOK
    <3>2. CASE pending[r] = Unarmed BY <2>0, <3>2 DEF Unarmed
    <3>3. CASE pending[r] # Unarmed
      <4>1. pending'[r] = Min({pending[r] + 1, 2}) BY <2>0, <3>3
      <4>2. pending[r] + 1 \in Int /\ pending[r] + 1 >= -1 BY <3>1 DEF Unarmed
      <4>3. Min({pending[r] + 1, 2}) \in {pending[r] + 1, 2} /\ Min({pending[r] + 1, 2}) <= 2
        BY <4>2, MinOfTwo
      <4> QED BY <4>1, <4>2, <4>3 DEF Unarmed
    <3> QED BY <3>2, <3>3
  <2>2. pending' \in [Replicas -> Unarmed..2] BY <2>0, <2>1
  <2>3. due' \in 0..Cardinality(Replicas) BY <2>0, ReplicasCount
  <2> QED BY <1>1, <1>3, <2>2, <2>3 DEF Tick, PassOK
<1>4. CASE Poll
  <2>1. due' \in 0..Cardinality(Replicas) BY <1>1, <1>4, ReplicasCount DEF Poll, PassOK
  <2> QED BY <1>1, <1>4, <2>1 DEF Poll, PassOK
<1>5. CASE PollFails
  <2>1. due' \in 0..Cardinality(Replicas) BY <1>5, ReplicasCount DEF PollFails
  <2> QED BY <1>1, <1>5, <2>1, StreamBounds DEF PollFails, PassOK, Fault
<1>6. CASE Expire BY <1>1, <1>6 DEF Expire, streamVars, PassOK
<1>7. ASSUME NEW r \in Replicas, Pass(r)
      PROVE  PassOK'
  <2>1. CASE Comply(r) BY <1>1, <2>1 DEF Comply, Unmoved, PassOK, Unarmed
  <2>2. CASE Arm(r) BY <1>1, <2>2 DEF Arm, Unmoved, PassOK, Unarmed
  <2>3. CASE Enter(r) BY <1>1, <2>3 DEF Enter, Unmoved, PassOK
  <2>4. CASE Decide(r) BY <1>1, <2>4, VictimsAre DEF Decide, Unmoved, PassOK
  <2>5. CASE Leave(r) BY <1>1, <2>5 DEF Leave, Unmoved, PassOK, Unarmed
  <2>6. ASSUME NEW s \in Sessions, Terminate(r, s)
        PROVE  PassOK'
    <3>1. faults' \in 0..MaxFaults BY <1>1, <2>6, StreamBounds DEF Terminate, Fault, PassOK
    <3>2. victims' \in [Replicas -> SUBSET Sessions] BY <1>1, <2>6 DEF Terminate, PassOK
    <3> QED BY <1>1, <2>6, <3>1, <3>2 DEF Terminate, Unmoved, PassOK
  <2> QED BY <1>7, <2>1, <2>2, <2>3, <2>4, <2>5, <2>6 DEF Pass
<1>8. ASSUME NEW r \in Replicas, BodyFails(r) \/ Crash(r)
      PROVE  PassOK'
  <2>1. faults' \in 0..MaxFaults BY <1>1, <1>8, StreamBounds DEF BodyFails, Crash, Fault, PassOK
  <2>2. CASE BodyFails(r) BY <1>1, <2>1, <2>2 DEF BodyFails, Unmoved, PassOK
  <2>3. CASE Crash(r) BY <1>1, <2>1, <2>3 DEF Crash, Unmoved, PassOK, Unarmed
  <2> QED BY <1>8, <2>2, <2>3
<1>9. ASSUME NEW r \in Replicas, RedisFails(r)
      PROVE  PassOK'
  BY <1>1, <1>9 DEF RedisFails, Unmoved, PassOK
<1>10. CASE UNCHANGED vars BY <1>1, <1>10 DEF vars, streamVars, PassOK
<1> QED BY <1>2, <1>3, <1>4, <1>5, <1>6, <1>7, <1>8, <1>9, <1>10 DEF Next

-----------------------------------------------------------------------------
(* The theorems.                                                           *)

\* One session plays and has its row.
LEMMA StreamInitially ==
  ASSUME Init
  PROVE  StreamInv
<1>1. LockTypeOK BY NobodyAssumption DEF Init, LockInit, LockTypeOK, NoLease
<1>2. live = [s \in {FirstSession} |-> [title |-> FirstTitle, paused |-> FALSE]] BY DEF Init
<1>3. /\ DOMAIN live \subseteq Sessions /\ IsFiniteSet(DOMAIN live) /\ FirstSession \in DOMAIN live
      /\ live \in [DOMAIN live -> [title : Titles, paused : BOOLEAN]]
  BY <1>2, FirstAssumption, FS_Singleton
<1>4. live[FirstSession].title = FirstTitle /\ live[FirstSession].paused = FALSE BY <1>2
<1>5. /\ Seen(FirstSession) \in Row /\ Seen(FirstSession).gone = 0 /\ Seen(FirstSession).missed = 0
  <2>1. /\ 0 \in 0..(GracePolls - 1) /\ 0 \in 0..(Stale + 1) /\ 0 \in 0..(Memory + 1)
    BY LimitAssumption, StreamBounds DEF Memory
  <2> QED BY <1>4, <2>1, FirstAssumption DEF Seen, Row
<1>6. rows = <<Seen(FirstSession)>> BY DEF Init
<1>7. rows \in Seq(Row) /\ DOMAIN rows = {1} /\ rows[1] = Seen(FirstSession)
  <2> HIDE DEF Row, Seen
  <2> QED BY <1>5, <1>6
<1>8. PassOK BY ReplicasCount, StreamBounds DEF Init, PassOK, Unarmed
<1>9. TypeOK BY <1>1, <1>3, <1>7, <1>8 DEF TypeOK, PassOK
<1>10. GoneBounded
  <2>1. Lag \in Nat BY <1>9, LagIs
  <2> QED BY <1>5, <1>7, <2>1 DEF GoneBounded
<1> QED BY <1>3, <1>9, <1>10 DEF StreamInv

\* The parts together.
LEMMA StreamStep ==
  ASSUME StreamInv, LockInv', [Next]_vars
  PROVE  StreamInv'
<1>1. RowsOK' /\ LiveOK' /\ PassOK' BY RowsStep, LiveStep, PassStep
<1>2. LockTypeOK' BY DEF LockInv
<1>3. TypeOK' BY <1>1, <1>2 DEF TypeOK, RowsOK, LiveOK, PassOK
<1> QED BY <1>1, <1>3 DEF StreamInv, RowsOK, LiveOK

\* Rows, sessions and the enforcer's state stay well formed, and how long a
\* stream has been gone is bounded by the polls and faults that account for it.
THEOREM StreamInvariant == Spec => []StreamInv
<1>1. Init => StreamInv BY StreamInitially
<1>2. StreamInv /\ LockInv' /\ [Next]_vars => StreamInv' BY StreamStep
<1> QED BY <1>1, <1>2, LockInvariant, PTL DEF Spec

\* Every variable keeps its type; the ids of rows are unique (the upsert of the
\* poller needs no constraint to fail), and victims are known sessions.
THEOREM TypeCorrect == Spec => []TypeOK
<1>1. StreamInv => TypeOK BY DEF StreamInv
<1> QED BY <1>1, StreamInvariant, PTL

\* Every row the enforcer counts played within the polls a row outlives its stream.
LEMMA CountedPlayed ==
  ASSUME StreamInv
  PROVE  PlayedWithin(GracePolls + faults) = Units
<1>1. ASSUME NEW i \in Countable PROVE rows[i].gone <= GracePolls + faults
  <2>1. TypeOK /\ i \in DOMAIN rows BY DEF StreamInv, Countable
  <2>2. rows[i].gone <= rows[i].missed + Lag BY <2>1 DEF StreamInv, GoneBounded
  <2>3. rows[i] \in Row BY <2>1, RowsAre
  <2>4. /\ rows[i].gone \in Nat /\ rows[i].missed \in Nat /\ rows[i].missed < GracePolls
        /\ GracePolls \in Nat
    BY <2>3, RowFields
  <2> QED BY <2>1, <2>2, <2>4, LagIs
<1>2. {j \in Countable : rows[j].gone <= GracePolls + faults} = Countable BY <1>1
<1> QED BY <1>2 DEF PlayedWithin, Units

\* With a victim there are more than Limit units: the victim's own and the
\* Limit older ones.
LEMMA VictimsMeanExcess ==
  ASSUME TypeOK, SelectVictims # {}
  PROVE  Cardinality(Units) > Limit
<1> DEFINE older(t) == {u \in Units : StartOf(u) < StartOf(t)}
<1>1. PICK j \in Countable : Cardinality(older(rows[j].title)) >= Limit BY DEF SelectVictims
<1> DEFINE t == rows[j].title
<1>2. DOMAIN rows = 1..Len(rows) /\ Len(rows) \in Nat BY RowsAre
<1>3. Countable \subseteq DOMAIN rows BY DEF Countable
<1>4. IsFiniteSet(Countable)
  <2>1. IsFiniteSet(1..Len(rows)) BY <1>2, FS_Interval
  <2> QED BY <1>2, <1>3, <2>1, FS_Subset
<1>5. IsFiniteSet(Units)
  <2> DEFINE T == {rows[i].title : i \in Countable}
             f == [i \in Countable |-> rows[i].title]
  <2>1. f \in Surjection(Countable, T) BY DEF Surjection
  <2>2. IsFiniteSet(T) BY <1>4, <2>1, FS_Surjection
  <2> QED BY <2>2 DEF Units
<1>6. t \in Units BY DEF Units
<1>7. StartOf(t) \in Nat
  <2> DEFINE A == {i \in Countable : rows[i].title = t}
  <2>1. A \subseteq Nat /\ A # {} BY <1>2, <1>3
  <2>2. Min(A) \in A BY <2>1, LeastIs
  <2> HIDE DEF A
  <2>3. Min(A) \in Nat BY <2>1, <2>2
  <2> QED BY <2>3 DEF StartOf, A
<1>8. older(t) \subseteq Units \ {t}
  <2>1. ~(StartOf(t) < StartOf(t)) BY <1>7
  <2> HIDE DEF t
  <2> QED BY <2>1
<1> HIDE DEF older, t
<1>9. IsFiniteSet(Units \ {t}) /\ Cardinality(Units \ {t}) = Cardinality(Units) - 1 BY <1>5, <1>6, FS_RemoveElement
<1>10. Cardinality(older(t)) <= Cardinality(Units \ {t}) /\ Cardinality(older(t)) \in Nat
  BY <1>8, <1>9, FS_Subset, FS_CardinalityType
<1>11. Cardinality(Units) \in Nat /\ Limit \in Nat BY <1>5, FS_CardinalityType, LimitAssumption
<1>12. Cardinality(older(t)) >= Limit BY <1>1 DEF t
<1> QED BY <1>9, <1>10, <1>11, <1>12

\* Only the decision of a replica's own pass condemns.
LEMMA OnlyDecideCondemns ==
  ASSUME StreamInv, [Next]_vars, NEW r \in Replicas, pc[r] = "fresh", pc'[r] = "kill"
  PROVE  Decide(r)
<1>1. pc \in [Replicas -> {"idle", "fresh", "kill"}] BY DEF StreamInv, TypeOK
<1>2. pc' # pc BY <1>1
<1>3. CASE Person BY <1>2, <1>3 DEF Person, Stop, Pause, Start, Autoplay, PersonActs
<1>4. CASE Tick \/ Poll \/ PollFails \/ Expire
  BY <1>2, <1>4 DEF Tick, Poll, PollFails, Expire, streamVars
<1>5. ASSUME NEW q \in Replicas, Pass(q)
      PROVE  Decide(r)
  <2>1. CASE Comply(q) \/ Arm(q) BY <1>2, <2>1 DEF Comply, Arm
  <2>2. CASE Enter(q) BY <1>1, <2>2 DEF Enter
  <2>3. CASE Decide(q)
    <3>1. pc' = [pc EXCEPT ![q] = "kill"] BY <2>3 DEF Decide
    <3>2. q = r BY <1>1, <3>1
    <3> QED BY <2>3, <3>2
  <2>4. CASE Leave(q) BY <1>1, <2>4 DEF Leave
  <2>5. ASSUME NEW s \in Sessions, Terminate(q, s)
        PROVE  FALSE
    BY <1>2, <2>5 DEF Terminate
  <2> QED BY <1>5, <2>1, <2>2, <2>3, <2>4, <2>5 DEF Pass
<1>6. ASSUME NEW q \in Replicas, BodyFails(q) \/ RedisFails(q) \/ Crash(q)
      PROVE  FALSE
  <2>1. \/ pc' = [pc EXCEPT ![q] = "fresh"]
        \/ pc' = [pc EXCEPT ![q] = "idle"]
        \/ pc' = pc
    BY <1>6 DEF BodyFails, RedisFails, Crash
  <2> QED BY <1>1, <1>2, <2>1
<1>7. CASE UNCHANGED vars BY <1>2, <1>7 DEF vars, streamVars
<1> QED BY <1>3, <1>4, <1>5, <1>6, <1>7 DEF Next

\* The rows the decision counts were playing, and there are more than Limit of them.
LEMMA CondemnsForACause ==
  ASSUME StreamInv, [Next]_vars, NEW r \in Replicas, Condemns(r)
  PROVE  Cardinality(PlayedWithin(GracePolls + faults)) > Limit
<1>1. TypeOK BY DEF StreamInv
<1>2. Decide(r) BY OnlyDecideCondemns DEF Condemns
<1>3. victims'[r] = SelectVictims BY <1>1, <1>2 DEF Decide, TypeOK
<1>4. SelectVictims # {} BY <1>3 DEF Condemns
<1> QED BY <1>1, <1>4, CountedPlayed, VictimsMeanExcess

\* A replica decides to stop streams only when more than Limit viewings were playing
\* within the polls a row outlives its stream (StopsForACause): through crashes,
\* failing calls, unanswered polls, re-registrations and handoffs between devices.
THEOREM StopsOnlyForACause == Spec => StopsForACause
<1>1. StreamInv /\ [Next]_vars =>
        [\A r \in Replicas : Condemns(r) => Cardinality(PlayedWithin(GracePolls + faults)) > Limit]_vars
  BY CondemnsForACause
<1> QED BY <1>1, StreamInvariant, PTL DEF Spec, StopsForACause
=============================================================================
