--------------------------- MODULE TorrentSyncProofs ---------------------------
(***************************************************************************)
(* A completion is published at most once and runs its rule at most once,  *)
(* and the lifetime total of the ledger implements TransferTotals, for any *)
(* set of torrents and any bounds, however ticks, failing calls, restarts, *)
(* rechecks and removals interleave.                                       *)
(*                                                                         *)
(* EdgeAtMostOnce is not inductive.  A torrent passes through three views: *)
(* the engine, the listing of a tick and the snapshots.  What can still be *)
(* published without the torrent completing again is the number of places  *)
(* where a view is done and the one behind it is not yet (Unpublished);    *)
(* what can still run is that, or one backfill of a torrent whose run is   *)
(* not on record (Unfired).  Both are paid for in advance (Paid).          *)
(*                                                                         *)
(* The total is handled the same way: the bytes that may still be banked   *)
(* without the engine moving any (Unbanked) count as banked (Balance).     *)
(* That takes a theory of sums over finite sets, from which it follows     *)
(* that looking at the counters twice never accrues less than once.        *)
(***************************************************************************)
EXTENDS TorrentSync, FiniteSetTheorems, TLAPS

\* The view knows h as complete.
Complete100(view, h) == h \in DOMAIN view /\ view[h].done

\* One for a completion that `from' sees and `behind' does not.
Ahead(from, behind, h) == IF Complete100(from, h) /\ ~Complete100(behind, h) THEN 1 ELSE 0

One(b) == IF b THEN 1 ELSE 0

\* TORRENT_COMPLETED events of h that may still come without another completion.
Unpublished(h) ==
  CASE tick.pc = "persistSnapshots" ->
         Ahead(tick.readings, snap, h) + Ahead(engine, tick.readings, h)
    [] tick.pc = "prune" ->
         One(h \in RisingEdges(tick.readings, tick.prior)) + Ahead(engine, tick.readings, h)
    [] tick.pc = "edges" -> One(h \in tick.todo) + Ahead(engine, snap, h)
    [] OTHER -> Ahead(engine, snap, h)

\* Runs of the rule for h that may still come without a completion or a mishap.
Unfired(h) ==
  IF h \in logged \cup tick.ran \/ Unpublished(h) > 0 THEN Unpublished(h)
  ELSE One(Complete100(snap, h))

Paid ==
  \A h \in Torrents :
    /\ published[h] + Unpublished(h) <= completed[h]
    /\ fired[h] + Unfired(h) <= completed[h] + crashes + faults

\* Only this loop writes snapshots: what it read of them is what they say.
ViewsAgree ==
  /\ tick.pc = "persistSnapshots" => tick.prior = PriorSnapshots(tick.readings)
  /\ tick.pc = "prune" =>
       \A h \in DOMAIN tick.readings : h \in DOMAIN snap /\ snap[h] = tick.readings[h]
  /\ tick.pc = "edges" =>
       /\ DOMAIN snap = DOMAIN tick.readings
       /\ \A h \in DOMAIN tick.readings : snap[h] = tick.readings[h]
       /\ \A h \in tick.todo : Complete100(snap, h)
  /\ tick.pc = "reconcile" =>
       \A h \in tick.todo : Complete100(snap, h) /\ h \notin logged
  /\ tick.ran # {} => tick.pc \in {"edges", "reconcile"}
  /\ tick.ran \cap tick.todo = {}

\* What the argument needs of the types; the ledger's sums are left out.
Reading == [down : Nat, done : BOOLEAN]
IsTick(t) ==
  t \in [pc : Phases, seed : {t.seed}, repeats : {t.repeats},
         readings : Tables(Reading), prior : Tables(Reading),
         rising : SUBSET Torrents, todo : SUBSET Torrents, ran : SUBSET Torrents]
SyncTyped ==
  /\ engine \in Tables(Reading) /\ snap \in Tables(Reading)
  /\ IsTick(tick)
  /\ published \in [Torrents -> Nat] /\ fired \in [Torrents -> Nat]
  /\ completed \in [Torrents -> Nat]
  /\ crashes \in Nat /\ faults \in Nat

SyncInv == SyncTyped /\ ViewsAgree /\ Paid

----------------------------------------------------------------------------
(* Sums over finite sets.  The library's induction theorems take the        *)
(* statement as an operator, which the provers cannot instantiate; here it  *)
(* is a set, and the theorems follow from WFMin: a set that is not exhausted *)
(* has a least element that is missing.                                     *)

\* Induction over the natural numbers, for the set of those with the property.
LEMMA NatSetInduction ==
  ASSUME NEW S, 0 \in S, \A n \in Nat : n \in S => n + 1 \in S
  PROVE  Nat \subseteq S
<1> SUFFICES ASSUME Nat \ S # {} PROVE FALSE OBVIOUS
<1>1. \E x \in Nat \ S : \A y \in Nat \ S : ~ (<<y, x>> \in OpToRel(<, Nat))
  BY NatLessThanWellFounded, WFMin
<1>2. PICK x \in Nat \ S : \A y \in Nat \ S : ~(y < x) BY <1>1 DEF OpToRel
<1>3. x # 0 /\ x - 1 \in Nat BY <1>2
<1>4. x - 1 \in S BY <1>2, <1>3
<1> QED BY <1>2, <1>3, <1>4

\* Induction over the subsets of a finite set.
LEMMA SubsetInduction ==
  ASSUME NEW U, IsFiniteSet(U), NEW C,
         \A T \in SUBSET U : (\A R \in SUBSET T : R # T => R \in C) => T \in C
  PROVE  U \in C
<1> SUFFICES ASSUME U \notin C PROVE FALSE OBVIOUS
<1> DEFINE Bad == (SUBSET U) \ C
<1>1. FiniteSubsetsOf(U) = SUBSET U BY FS_FiniteSubsetsOfFinite
<1>2. IsWellFoundedOn(StrictSubsetOrdering(U), FiniteSubsetsOf(U))
  BY FS_StrictSubsetOrderingWellFounded
<1>3. Bad \subseteq FiniteSubsetsOf(U) /\ Bad # {} BY <1>1
<1>4. \E T \in Bad : \A R \in Bad : ~(<<R, T>> \in StrictSubsetOrdering(U))
  <2> HIDE DEF Bad
  <2> QED BY <1>2, <1>3, WFMin
<1>5. ASSUME NEW R \in SUBSET U, NEW T \in SUBSET U, R \subseteq T, R # T
      PROVE  <<R, T>> \in StrictSubsetOrdering(U)
  BY <1>5 DEF StrictSubsetOrdering
<1>6. PICK T \in Bad : \A R \in Bad : ~(<<R, T>> \in StrictSubsetOrdering(U)) BY <1>4
<1>7. ASSUME NEW R \in SUBSET T, R # T PROVE R \in C
  <2>1. T \in SUBSET U /\ R \in SUBSET U OBVIOUS
  <2>2. R \subseteq T OBVIOUS
  <2>3. <<R, T>> \in StrictSubsetOrdering(U)
    <3> HIDE DEF Bad
    <3> QED BY <1>5, <1>7, <2>1, <2>2
  <2>4. R \notin Bad BY <1>6, <2>3
  <2> QED BY <2>1, <2>4
<1> QED BY <1>6, <1>7

\* The recursion of MapThenFoldSet for a sum: an arbitrary element, and the rest.
Chosen(s) == CHOOSE x \in s : TRUE
SumStep(f, it, s) == IF s = {} THEN 0 ELSE f[Chosen(s)] + it[s \ {Chosen(s)}]
IsIter(it, f, D) == it = [s \in SUBSET D |-> SumStep(f, it, s)]

LEMMA ChosenIn == ASSUME NEW s, s # {} PROVE Chosen(s) \in s
BY DEF Chosen

\* What SumFunctionOnSet is: the recursive function of Folds, applied to the whole set.
LEMMA SumIs == ASSUME NEW f, NEW D PROVE SumFunctionOnSet(f, D) = (CHOOSE it : IsIter(it, f, D))[D]
BY DEF SumFunctionOnSet, FoldFunctionOnSet, MapThenFoldSet, IsIter, SumStep, Chosen

\* it obeys the recursion on the subsets of D; on those of at most n elements.
Iterates(it, f, D) == \A s \in SUBSET D : it[s] = SumStep(f, it, s)

RightUpTo(it, f, D, n) == \A s \in SUBSET D : Cardinality(s) <= n => it[s] = SumStep(f, it, s)

\* There is such a function: extend one that is right up to n to the sets of n + 1.
LEMMA IterExists ==
  ASSUME NEW f, NEW D, IsFiniteSet(D)
  PROVE  \E it : IsIter(it, f, D)
<1> DEFINE N == {n \in Nat : \E it : /\ DOMAIN it = SUBSET D /\ it = [s \in SUBSET D |-> it[s]]
                                     /\ RightUpTo(it, f, D, n)}
<1>1. \A s \in SUBSET D : /\ IsFiniteSet(s) /\ Cardinality(s) \in Nat
                          /\ Cardinality(s) <= Cardinality(D)
                          /\ s # {} => Cardinality(s \ {Chosen(s)}) = Cardinality(s) - 1
                          /\ Cardinality(s) = 0 <=> s = {}
  BY FS_Subset, FS_CardinalityType, FS_RemoveElement, FS_EmptySet, ChosenIn
<1>2. 0 \in N
  <2> DEFINE it == [s \in SUBSET D |-> 0]
  <2>1. ASSUME NEW s \in SUBSET D, Cardinality(s) <= 0 PROVE s = {}
    <3>0. IsFiniteSet(s) BY FS_Subset
    <3>1. Cardinality(s) \in Nat BY <3>0, FS_CardinalityType
    <3>2. Cardinality(s) = 0 BY <2>1, <3>1
    <3> QED BY <3>0, <3>2, FS_EmptySet
  <2>2. it[{}] = 0 OBVIOUS
  <2>3. RightUpTo(it, f, D, 0) BY <2>1, <2>2 DEF RightUpTo, SumStep
  <2> HIDE DEF it
  <2>4. DOMAIN it = SUBSET D /\ it = [s \in SUBSET D |-> it[s]] BY DEF it
  <2> QED BY <2>3, <2>4
<1>3. ASSUME NEW n \in N PROVE n + 1 \in N
  <2> PICK it : DOMAIN it = SUBSET D /\ RightUpTo(it, f, D, n) OBVIOUS
  <2> DEFINE jt == [s \in SUBSET D |-> IF Cardinality(s) <= n THEN it[s] ELSE SumStep(f, it, s)]
  <2>1. ASSUME NEW s \in SUBSET D, Cardinality(s) <= n + 1 PROVE jt[s] = SumStep(f, jt, s)
    <3>1. jt[s] = SumStep(f, it, s) BY DEF RightUpTo
    <3>2. CASE s = {} BY <3>1, <3>2 DEF SumStep
    <3>3. CASE s # {}
      <4>1. s \ {Chosen(s)} \in SUBSET D /\ Cardinality(s \ {Chosen(s)}) <= n BY <1>1, <2>1, <3>3
      <4>2. jt[s \ {Chosen(s)}] = it[s \ {Chosen(s)}] BY <4>1
      <4> QED BY <3>1, <4>2 DEF SumStep
    <3> QED BY <3>2, <3>3
  <2>2. RightUpTo(jt, f, D, n + 1) BY <2>1 DEF RightUpTo
  <2>3. DOMAIN jt = SUBSET D /\ jt = [s \in SUBSET D |-> jt[s]] OBVIOUS
  <2> HIDE DEF jt
  <2> QED BY <2>2, <2>3
<1>4. Nat \subseteq N
  <2> HIDE DEF N
  <2> QED BY <1>2, <1>3, NatSetInduction
<1>5. Cardinality(D) \in N BY <1>1, <1>4
<1>6. PICK it : it = [s \in SUBSET D |-> it[s]] /\ RightUpTo(it, f, D, Cardinality(D)) BY <1>5
<1>7. \A s \in SUBSET D : it[s] = SumStep(f, it, s) BY <1>1, <1>6 DEF RightUpTo
<1>8. [s \in SUBSET D |-> it[s]] = [s \in SUBSET D |-> SumStep(f, it, s)] BY <1>7
<1>9. IsIter(it, f, D) BY <1>6, <1>8 DEF IsIter
<1> QED BY <1>9

\* A sum is the last value of a function that obeys the recursion.
LEMMA IterIs ==
  ASSUME NEW f, NEW D, IsFiniteSet(D)
  PROVE  \E it : /\ SumFunctionOnSet(f, D) = it[D]
                 /\ Iterates(it, f, D)
<1> DEFINE it == CHOOSE it : IsIter(it, f, D)
<1>1. IsIter(it, f, D) BY IterExists
<1>2. SumFunctionOnSet(f, D) = it[D] BY SumIs
<1> HIDE DEF it
<1>3. Iterates(it, f, D) BY <1>1 DEF IsIter, Iterates
<1> QED BY <1>2, <1>3

\* Two sums agree on the sets both know.
LEMMA IterUnique ==
  ASSUME NEW f, NEW U, IsFiniteSet(U), NEW it, NEW jt,
         Iterates(it, f, U), Iterates(jt, f, U)
  PROVE  it[U] = jt[U]
<1> DEFINE C == {s \in SUBSET U : it[s] = jt[s]}
<1>1. ASSUME NEW T \in SUBSET U, \A R \in SUBSET T : R # T => R \in C PROVE T \in C
  <2>1. CASE T = {} BY <2>1 DEF SumStep, Iterates
  <2>2. CASE T # {}
    <3>1. Chosen(T) \in T BY <2>2, ChosenIn
    <3>2. T \ {Chosen(T)} \in C BY <1>1, <3>1
    <3> QED BY <2>2, <3>2 DEF SumStep, Iterates
  <2> QED BY <2>1, <2>2
<1>2. U \in C
  <2> HIDE DEF C
  <2> QED BY <1>1, SubsetInduction
<1> QED BY <1>2

\* The recursion itself.
LEMMA SumUnfolds ==
  ASSUME NEW f, NEW D, IsFiniteSet(D)
  PROVE  /\ SumFunctionOnSet(f, {}) = 0
         /\ D # {} => SumFunctionOnSet(f, D)
                        = f[Chosen(D)] + SumFunctionOnSet(f, D \ {Chosen(D)})
<1>1. SumFunctionOnSet(f, {}) = 0
  <2>1. IsFiniteSet({}) BY FS_EmptySet
  <2>2. PICK it : SumFunctionOnSet(f, {}) = it[{}] /\ Iterates(it, f, {})
    BY <2>1, IterIs
  <2> QED BY <2>2 DEF SumStep, Iterates
<1>2. ASSUME D # {} PROVE SumFunctionOnSet(f, D) = f[Chosen(D)] + SumFunctionOnSet(f, D \ {Chosen(D)})
  <2> DEFINE E == D \ {Chosen(D)}
  <2>1. IsFiniteSet(E) /\ E \in SUBSET D BY FS_Subset
  <2> HIDE DEF E
  <2>2. PICK it : SumFunctionOnSet(f, D) = it[D] /\ Iterates(it, f, D)
    BY IterIs
  <2>3. PICK jt : SumFunctionOnSet(f, E) = jt[E] /\ Iterates(jt, f, E)
    BY <2>1, IterIs
  <2>4. Iterates(it, f, E) BY <2>1, <2>2 DEF Iterates
  <2>5. it[E] = jt[E] BY <2>1, <2>3, <2>4, IterUnique
  <2>6. it[D] = SumStep(f, it, D) BY <2>2 DEF Iterates
  <2>7. it[D] = f[Chosen(D)] + it[E] BY <1>2, <2>6 DEF SumStep, E
  <2> QED BY <2>2, <2>3, <2>5, <2>7 DEF E
<1> QED BY <1>1, <1>2

\* A sum of natural numbers is one.
LEMMA SumType ==
  ASSUME NEW f, NEW D, IsFiniteSet(D), \A x \in D : f[x] \in Nat
  PROVE  SumFunctionOnSet(f, D) \in Nat
<1> DEFINE C == {s \in SUBSET D : SumFunctionOnSet(f, s) \in Nat}
<1>1. ASSUME NEW T \in SUBSET D, \A R \in SUBSET T : R # T => R \in C PROVE T \in C
  <2>1. IsFiniteSet(T) BY FS_Subset
  <2>2. CASE T = {}
    <3>1. SumFunctionOnSet(f, {}) = 0 BY <2>1, SumUnfolds
    <3> QED BY <2>2, <3>1
  <2>3. CASE T # {}
    <3>1. Chosen(T) \in T BY <2>3, ChosenIn
    <3>2. T \ {Chosen(T)} \in C BY <1>1, <3>1
    <3>3. SumFunctionOnSet(f, T) = f[Chosen(T)] + SumFunctionOnSet(f, T \ {Chosen(T)})
      BY <2>1, <2>3, SumUnfolds
    <3> QED BY <3>1, <3>2, <3>3
  <2> QED BY <2>2, <2>3
<1>2. D \in C
  <2> HIDE DEF C
  <2> QED BY <1>1, SubsetInduction
<1> QED BY <1>2

\* The order of summation does not matter.
LEMMA SumRemove ==
  ASSUME NEW f, NEW D, IsFiniteSet(D), \A x \in D : f[x] \in Nat, NEW a \in D
  PROVE  SumFunctionOnSet(f, D) = f[a] + SumFunctionOnSet(f, D \ {a})
<1> DEFINE C == {s \in SUBSET D :
                   \A x \in s : SumFunctionOnSet(f, s) = f[x] + SumFunctionOnSet(f, s \ {x})}
<1>1. ASSUME NEW T \in SUBSET D, \A R \in SUBSET T : R # T => R \in C PROVE T \in C
  <2> SUFFICES ASSUME NEW x \in T
               PROVE  SumFunctionOnSet(f, T) = f[x] + SumFunctionOnSet(f, T \ {x})
    OBVIOUS
  <2> DEFINE y == Chosen(T)
  <2>1. IsFiniteSet(T) BY FS_Subset
  <2>2. y \in T BY ChosenIn
  <2>3. SumFunctionOnSet(f, T) = f[y] + SumFunctionOnSet(f, T \ {y}) BY <2>1, SumUnfolds
  <2> HIDE DEF y
  <2>4. CASE x = y BY <2>3, <2>4
  <2>5. CASE x # y
    <3>1. T \ {x} \in C /\ T \ {y} \in C BY <1>1, <2>2
    <3>2. SumFunctionOnSet(f, T \ {x}) = f[y] + SumFunctionOnSet(f, (T \ {x}) \ {y})
      BY <2>2, <2>5, <3>1
    <3>3. SumFunctionOnSet(f, T \ {y}) = f[x] + SumFunctionOnSet(f, (T \ {y}) \ {x})
      BY <2>2, <2>5, <3>1
    <3>4. (T \ {x}) \ {y} = (T \ {y}) \ {x} OBVIOUS
    <3>5. IsFiniteSet((T \ {x}) \ {y}) BY <2>1, FS_Subset
    <3>6. SumFunctionOnSet(f, (T \ {x}) \ {y}) \in Nat BY <3>5, SumType
    <3> QED BY <2>2, <2>3, <3>2, <3>3, <3>4, <3>6
  <2> QED BY <2>4, <2>5
<1>2. D \in C
  <2> HIDE DEF C
  <2> QED BY <1>1, SubsetInduction
<1> QED BY <1>2

\* The value of f at x, and nothing where f is not defined.
Val(f, x) == IF x \in DOMAIN f THEN f[x] ELSE 0

IsCount(f) == IsFiniteSet(DOMAIN f) /\ \A x \in DOMAIN f : f[x] \in Nat

\* The part of a sum that belongs to the elements of s.
Part(f, s) == SumFunctionOnSet(f, s \cap DOMAIN f)

\* One element less.
LEMMA PartStep ==
  ASSUME NEW f, IsCount(f), NEW s, NEW x \in s
  PROVE  /\ Part(f, s) = Val(f, x) + Part(f, s \ {x})
         /\ Part(f, s) \in Nat /\ Part(f, s \ {x}) \in Nat /\ Val(f, x) \in Nat
         /\ Part(f, {}) = 0
<1> DEFINE D == s \cap DOMAIN f
<1>1. /\ IsFiniteSet(D) /\ IsFiniteSet((s \ {x}) \cap DOMAIN f) BY FS_Subset DEF IsCount
<1>2. \A z \in D : f[z] \in Nat BY DEF IsCount
<1>3. SumFunctionOnSet(f, D) \in Nat BY <1>1, <1>2, SumType
<1>4. SumFunctionOnSet(f, (s \ {x}) \cap DOMAIN f) \in Nat
  <2>1. \A z \in (s \ {x}) \cap DOMAIN f : f[z] \in Nat BY DEF IsCount
  <2> QED BY <1>1, <2>1, SumType
<1>5. Part(f, {}) = 0
  <2>1. {} \cap DOMAIN f = {} OBVIOUS
  <2> QED BY <1>1, <2>1, SumUnfolds DEF Part
<1>6. CASE x \in DOMAIN f
  <2>1. x \in D BY <1>6
  <2>2. SumFunctionOnSet(f, D) = f[x] + SumFunctionOnSet(f, D \ {x})
    <3> HIDE DEF D
    <3> QED BY <1>1, <1>2, <2>1, SumRemove
  <2>3. D \ {x} = (s \ {x}) \cap DOMAIN f OBVIOUS
  <2> QED BY <1>2, <1>3, <1>4, <1>5, <1>6, <2>1, <2>2, <2>3 DEF Part, Val
<1>7. CASE x \notin DOMAIN f
  <2>1. D = (s \ {x}) \cap DOMAIN f BY <1>7
  <2> QED BY <1>3, <1>4, <1>5, <1>7, <2>1 DEF Part, Val
<1> QED BY <1>6, <1>7

\* Sums are bounded as their terms are, whatever the domains.
LEMMA SumSplit ==
  ASSUME NEW f, NEW g, NEW k, IsCount(f), IsCount(g), IsCount(k),
         \A x \in DOMAIN f : f[x] <= Val(g, x) + Val(k, x)
  PROVE  SumFunction(f) <= SumFunction(g) + SumFunction(k)
<1> DEFINE U == DOMAIN f \cup DOMAIN g \cup DOMAIN k
           C == {s \in SUBSET U : Part(f, s) <= Part(g, s) + Part(k, s)}
<1>1. IsFiniteSet(U)
  <2>1. IsFiniteSet(DOMAIN f \cup DOMAIN g) BY FS_Union DEF IsCount
  <2> QED BY <2>1, FS_Union DEF IsCount
<1>2. ASSUME NEW T \in SUBSET U, \A R \in SUBSET T : R # T => R \in C PROVE T \in C
  <2>1. CASE T = {}
    <3>1. \A h : IsCount(h) => Part(h, {}) = 0
      <4> TAKE h
      <4> HAVE IsCount(h)
      <4>1. {} \cap DOMAIN h = {} /\ IsFiniteSet({}) BY FS_EmptySet
      <4> QED BY <4>1, SumUnfolds DEF Part
    <3>2. Part(f, {}) = 0 /\ Part(g, {}) = 0 /\ Part(k, {}) = 0 BY <3>1
    <3> QED BY <2>1, <3>2
  <2>2. CASE T # {}
    <3>1. PICK x \in T : TRUE BY <2>2
    <3>2. T \ {x} \in C BY <1>2, <3>1
    <3>3. /\ Part(f, T) = Val(f, x) + Part(f, T \ {x})
          /\ Part(f, T \ {x}) \in Nat /\ Val(f, x) \in Nat
      BY <3>1, PartStep
    <3>4. /\ Part(g, T) = Val(g, x) + Part(g, T \ {x})
          /\ Part(g, T \ {x}) \in Nat /\ Val(g, x) \in Nat
      BY <3>1, PartStep
    <3>5. /\ Part(k, T) = Val(k, x) + Part(k, T \ {x})
          /\ Part(k, T \ {x}) \in Nat /\ Val(k, x) \in Nat
      BY <3>1, PartStep
    <3>6. Val(f, x) <= Val(g, x) + Val(k, x) BY <3>3, <3>4, <3>5 DEF Val
    <3>7. Part(f, T \ {x}) <= Part(g, T \ {x}) + Part(k, T \ {x}) BY <3>2
    <3>8. Part(f, T) <= Part(g, T) + Part(k, T) BY <3>3, <3>4, <3>5, <3>6, <3>7
    <3> QED BY <3>8
  <2> QED BY <2>1, <2>2
<1>3. U \in C
  <2> HIDE DEF C, U
  <2> QED BY <1>1, <1>2, SubsetInduction
<1>4. Part(f, U) = SumFunction(f) /\ Part(g, U) = SumFunction(g) /\ Part(k, U) = SumFunction(k)
  <2>1. U \cap DOMAIN f = DOMAIN f /\ U \cap DOMAIN g = DOMAIN g /\ U \cap DOMAIN k = DOMAIN k
    OBVIOUS
  <2> QED BY <2>1 DEF Part, SumFunction
<1> QED BY <1>3, <1>4

LEMMA SumNat == ASSUME NEW f, IsCount(f) PROVE SumFunction(f) \in Nat
BY SumType DEF IsCount, SumFunction

\* A sum of zeros and ones.
LEMMA SumOfOnes ==
  ASSUME NEW f, NEW D, IsFiniteSet(D), \A x \in D : f[x] \in 0..1
  PROVE  SumFunctionOnSet(f, D) <= Cardinality(D)
<1> DEFINE C == {s \in SUBSET D : SumFunctionOnSet(f, s) <= Cardinality(s)}
<1>1. ASSUME NEW T \in SUBSET D, \A R \in SUBSET T : R # T => R \in C PROVE T \in C
  <2>1. IsFiniteSet(T) BY FS_Subset
  <2>2. CASE T = {}
    <3>1. SumFunctionOnSet(f, {}) = 0 BY <2>1, SumUnfolds
    <3> QED BY <2>2, <3>1, FS_EmptySet
  <2>3. CASE T # {}
    <3> DEFINE y == Chosen(T)
    <3>1. y \in T BY <2>3, ChosenIn
    <3>2. SumFunctionOnSet(f, T) = f[y] + SumFunctionOnSet(f, T \ {y}) BY <2>1, <2>3, SumUnfolds
    <3> HIDE DEF y
    <3>3. T \ {y} \in C BY <1>1, <3>1
    <3>4. IsFiniteSet(T \ {y}) /\ Cardinality(T \ {y}) = Cardinality(T) - 1
          /\ Cardinality(T) \in Nat
      BY <2>1, <3>1, FS_RemoveElement, FS_CardinalityType
    <3>5. SumFunctionOnSet(f, T \ {y}) \in Nat BY <3>4, SumType
    <3>6. f[y] \in 0..1 /\ SumFunctionOnSet(f, T \ {y}) <= Cardinality(T \ {y}) BY <3>1, <3>3
    <3> QED BY <3>2, <3>4, <3>5, <3>6
  <2> QED BY <2>2, <2>3
<1>2. D \in C
  <2> HIDE DEF C
  <2> QED BY <1>1, SubsetInduction
<1> QED BY <1>2

----------------------------------------------------------------------------
(* Tables and views.                                                        *)

\* A table is a function from some torrents.
LEMMA TableIs ==
  ASSUME NEW S, NEW f
  PROVE  f \in Tables(S) <=> DOMAIN f \subseteq Torrents /\ f \in [DOMAIN f -> S]
BY DEF Tables

LEMMA EmptyTable == ASSUME NEW S PROVE <<>> \in Tables(S) /\ DOMAIN <<>> = {}
<1>1. DOMAIN <<>> = {} OBVIOUS
<1>2. <<>> \in [{} -> S] OBVIOUS
<1> QED BY <1>1, <1>2 DEF Tables

LEMMA RestrictTable ==
  ASSUME NEW S, NEW f \in Tables(S), NEW D \in SUBSET DOMAIN f
  PROVE  Restrict(f, D) \in Tables(S)
BY TableIs DEF Restrict

LEMMA UpsertTable ==
  ASSUME NEW S, NEW f \in Tables(S), NEW g \in Tables(S)
  PROVE  Upserted(f, g) \in Tables(S)
BY TableIs DEF Upserted

LEMMA IdleIsTick == IsTick(Idle)
BY EmptyTable DEF IsTick, Idle, Phases

LEMMA Counts ==
  ASSUME NEW h
  PROVE  Unpublished(h) \in 0..2 /\ Unfired(h) \in 0..2 /\ Unpublished(h) <= Unfired(h)
BY DEF Unpublished, Unfired, Ahead, One

\* What is paid for one torrent.
PaidFor(h) ==
  /\ published[h] + Unpublished(h) <= completed[h]
  /\ fired[h] + Unfired(h) <= completed[h] + crashes + faults

LEMMA PaidIs == Paid <=> \A h \in Torrents : PaidFor(h)
BY DEF Paid, PaidFor

LEMMA PaidNext == ASSUME \A h \in Torrents : PaidFor(h)' PROVE Paid'
BY DEF Paid, PaidFor

----------------------------------------------------------------------------
(* The engine.                                                              *)

LEMMA Initially == Init => SyncInv
<1> SUFFICES ASSUME Init PROVE SyncInv OBVIOUS
<1>1. engine \in Tables(Reading)
  <2>1. engine \in Tables([down : 0..1, done : BOOLEAN]) BY DEF Init
  <2>2. [down : 0..1, done : BOOLEAN] \subseteq Reading BY DEF Reading
  <2> HIDE DEF Reading
  <2> QED BY <2>1, <2>2 DEF Tables
<1>2. snap \in Tables(Reading) /\ \A h : ~Complete100(snap, h)
  <2>1. CASE snap = <<>> BY <2>1, EmptyTable DEF Complete100
  <2>2. CASE snap = [h \in DOMAIN engine |-> [down |-> 0, done |-> FALSE]]
    BY <1>1, <2>2, TableIs DEF Reading, Complete100
  <2> QED BY <2>1, <2>2 DEF Init
<1>3. tick = Idle /\ logged = {} /\ crashes = 0 /\ faults = 0 BY DEF Init
<1>4. IsTick(tick) BY <1>3, IdleIsTick
<1>5. tick.pc = "idle" /\ tick.ran = {} /\ tick.todo = {} BY <1>3 DEF Idle
<1>6. /\ published \in [Torrents -> Nat] /\ fired \in [Torrents -> Nat]
      /\ completed \in [Torrents -> Nat]
      /\ \A h \in Torrents : /\ published[h] = 0 /\ fired[h] = 0
                             /\ Complete100(engine, h) => completed[h] = 1
  BY DEF Init, Complete100
<1>7. SyncTyped BY <1>1, <1>2, <1>3, <1>4, <1>6 DEF SyncTyped
<1>8. ViewsAgree BY <1>5 DEF ViewsAgree
<1>9. ASSUME NEW h \in Torrents PROVE PaidFor(h)
  <2>1. Unpublished(h) = Ahead(engine, snap, h) BY <1>5 DEF Unpublished
  <2>2. Unpublished(h) = IF Complete100(engine, h) THEN 1 ELSE 0 BY <1>2, <2>1 DEF Ahead
  <2>3. Unfired(h) = Unpublished(h) BY <1>2, <2>2 DEF Unfired, One
  <2> QED BY <1>3, <1>6, <2>2, <2>3 DEF PaidFor
<1> QED BY <1>7, <1>8, <1>9, PaidIs DEF SyncInv

\* Everything but the engine stands still, and only a completion makes it complete.
LEMMA EngineMoves ==
  ASSUME SyncInv, UNCHANGED <<snap, logged, tick, published, fired, crashes, faults>>,
         engine' \in Tables(Reading), completed' \in [Torrents -> Nat],
         \A h \in Torrents :
           \/ completed'[h] = completed[h] /\ (Complete100(engine', h) => Complete100(engine, h))
           \/ completed'[h] = completed[h] + 1
  PROVE  SyncInv'
<1>1. SyncTyped' BY DEF SyncInv, SyncTyped
<1>2. ViewsAgree' BY DEF SyncInv, ViewsAgree, PriorSnapshots, Complete100
<1>3. ASSUME NEW h \in Torrents PROVE PaidFor(h)'
  <2> DEFINE d == completed'[h] - completed[h]
  <2>1. d \in 0..1 BY DEF SyncInv, SyncTyped
  <2>2. /\ Ahead(engine', snap, h) <= Ahead(engine, snap, h) + d
        /\ Ahead(engine', tick.readings, h) <= Ahead(engine, tick.readings, h) + d
    BY DEF Ahead, SyncInv, SyncTyped
  <2>3. Unpublished(h)' <= Unpublished(h) + d
    <3>1. One(h \in RisingEdges(tick.readings, tick.prior)) \in 0..1
          /\ One(h \in tick.todo) \in 0..1 /\ Ahead(tick.readings, snap, h) \in 0..1
          /\ Ahead(engine', snap, h) \in 0..1 /\ Ahead(engine, snap, h) \in 0..1
          /\ Ahead(engine', tick.readings, h) \in 0..1 /\ Ahead(engine, tick.readings, h) \in 0..1
      BY DEF One, Ahead
    <3> HIDE DEF d
    <3>2. CASE tick.pc = "persistSnapshots" BY <2>1, <2>2, <3>1, <3>2 DEF Unpublished
    <3>3. CASE tick.pc = "prune" BY <2>1, <2>2, <3>1, <3>3 DEF Unpublished
    <3>4. CASE tick.pc = "edges" BY <2>1, <2>2, <3>1, <3>4 DEF Unpublished
    <3>5. CASE tick.pc \notin {"persistSnapshots", "prune", "edges"}
      BY <2>1, <2>2, <3>1, <3>5 DEF Unpublished
    <3> QED BY <3>2, <3>3, <3>4, <3>5
  <2>4. Unfired(h)' <= Unfired(h) + d
    <3>1. Unpublished(h) \in Nat /\ Unpublished(h)' \in Nat BY Counts DEF Unpublished, Ahead, One
    <3>2. One(Complete100(snap, h)) \in 0..1 BY DEF One
    <3>3. Unfired(h) = IF h \in logged \cup tick.ran \/ Unpublished(h) > 0
                         THEN Unpublished(h) ELSE One(Complete100(snap, h))
      BY DEF Unfired
    <3>4. Unfired(h)' = IF h \in logged \cup tick.ran \/ Unpublished(h)' > 0
                         THEN Unpublished(h)' ELSE One(Complete100(snap, h))
      BY DEF Unfired
    <3> HIDE DEF d
    <3> QED BY <2>1, <2>3, <3>1, <3>2, <3>3, <3>4
  <2>5. PaidFor(h) BY PaidIs DEF SyncInv
  <2>6. Unpublished(h) \in Nat /\ Unfired(h) \in Nat BY Counts
  <2>7. Unpublished(h)' \in Nat /\ Unfired(h)' \in Nat BY DEF Unpublished, Unfired, Ahead, One
  <2> QED BY <2>1, <2>3, <2>4, <2>5, <2>6, <2>7 DEF PaidFor, SyncInv, SyncTyped
<1> QED BY <1>1, <1>2, <1>3, PaidNext DEF SyncInv

LEMMA MoveKeeps ==
  ASSUME SyncInv, NEW h \in Torrents, Move(h) \/ Complete(h) \/ Recheck(h)
  PROVE  SyncInv'
<1>1. UNCHANGED <<snap, logged, tick, published, fired, crashes, faults>> /\ h \in DOMAIN engine
  BY DEF Move, Complete, Recheck, db, hist
<1>2. engine \in Tables(Reading) /\ completed \in [Torrents -> Nat] BY DEF SyncInv, SyncTyped
<1>3. engine[h] \in Reading BY <1>1, <1>2, TableIs
<1>4. PICK v \in Reading : /\ engine' = [engine EXCEPT ![h] = v]
                           /\ \/ completed' = completed /\ (v.done => engine[h].done)
                              \/ completed' = [completed EXCEPT ![h] = @ + 1]
  <2>1. CASE Move(h)
    <3> DEFINE v == [engine[h] EXCEPT !.down = @ + 1]
    <3>1. v \in Reading /\ v.done = engine[h].done BY <1>3 DEF Reading
    <3>2. engine' = [engine EXCEPT ![h] = v] /\ completed' = completed BY <1>1, <2>1 DEF Move
    <3> HIDE DEF v
    <3> QED BY <3>1, <3>2
  <2>2. CASE Complete(h)
    <3> DEFINE v == [engine[h] EXCEPT !.done = TRUE]
    <3>1. v \in Reading BY <1>3 DEF Reading
    <3>2. engine' = [engine EXCEPT ![h] = v] /\ completed' = [completed EXCEPT ![h] = @ + 1]
      BY <1>1, <2>2 DEF Complete
    <3> HIDE DEF v
    <3> QED BY <3>1, <3>2
  <2>3. CASE Recheck(h)
    <3> DEFINE v == [down |-> 0, done |-> FALSE]
    <3>1. v \in Reading /\ ~v.done BY DEF Reading
    <3>2. engine' = [engine EXCEPT ![h] = v] /\ completed' = completed
      BY <1>1, <2>3 DEF Recheck
    <3> HIDE DEF v
    <3> QED BY <3>1, <3>2
  <2> QED BY <2>1, <2>2, <2>3
<1>5. /\ engine' \in Tables(Reading) /\ DOMAIN engine' = DOMAIN engine
      /\ engine'[h] = v /\ \A g \in DOMAIN engine : g # h => engine'[g] = engine[g]
  BY <1>1, <1>2, <1>4, TableIs
<1>6. completed' \in [Torrents -> Nat] BY <1>2, <1>4
<1>7. \A g \in Torrents :
        \/ completed'[g] = completed[g] /\ (Complete100(engine', g) => Complete100(engine, g))
        \/ completed'[g] = completed[g] + 1
  BY <1>2, <1>4, <1>5 DEF Complete100
<1> QED BY <1>1, <1>5, <1>6, <1>7, EngineMoves

LEMMA AddKeeps ==
  ASSUME SyncInv, NEW h \in Torrents, AddTorrent(h) \/ RemoveTorrent(h)
  PROVE  SyncInv'
<1>1. UNCHANGED <<snap, logged, tick, published, fired, completed, crashes, faults>>
  BY DEF AddTorrent, RemoveTorrent, db, hist
<1>2. engine \in Tables(Reading) /\ completed \in [Torrents -> Nat] BY DEF SyncInv, SyncTyped
<1>3. engine' \in Tables(Reading) /\ \A g : Complete100(engine', g) => Complete100(engine, g)
  <2>1. CASE AddTorrent(h)
    <3> DEFINE n == [x \in {h} |-> [down |-> 0, done |-> FALSE]]
    <3>1. n \in Tables(Reading) BY TableIs DEF Reading
    <3>2. \A g : ~Complete100(n, g) BY DEF Complete100
    <3>3. engine' = Upserted(engine, n) BY <2>1 DEF AddTorrent
    <3> HIDE DEF n
    <3>4. engine' \in Tables(Reading) BY <1>2, <3>1, <3>3, UpsertTable
    <3> QED BY <3>2, <3>3, <3>4 DEF Complete100, Upserted
  <2>2. CASE RemoveTorrent(h)
    <3>1. engine' = Restrict(engine, DOMAIN engine \ {h}) BY <2>2 DEF RemoveTorrent
    <3>2. engine' \in Tables(Reading) BY <1>2, <3>1, RestrictTable
    <3> QED BY <3>1, <3>2 DEF Complete100, Restrict
  <2> QED BY <2>1, <2>2
<1>4. \A g \in Torrents :
        completed'[g] = completed[g] /\ (Complete100(engine', g) => Complete100(engine, g))
  BY <1>1, <1>3
<1> QED BY <1>1, <1>2, <1>3, <1>4, EngineMoves

----------------------------------------------------------------------------
(* The tick.                                                                *)

\* Nothing the counts are about has moved.
Still == UNCHANGED <<engine, completed, published, fired>>

Mishap(n) == /\ crashes' \in Nat /\ faults' \in Nat
             /\ crashes' + faults' = crashes + faults + n

Calm == {"idle", "seedValues", "writeBaseline", "listTorrents"}

\* The tick ends early or moves on before the listing.  A run that was not logged
\* costs a mishap.
LEMMA CalmKeeps ==
  ASSUME SyncInv, Still, UNCHANGED <<snap, logged>>, IsTick(tick'),
         tick'.pc \in Calm, tick'.ran = {}, NEW n \in Nat, Mishap(n),
         tick.ran # {} => n > 0
  PROVE  SyncInv'
<1>1. SyncTyped' BY DEF SyncInv, SyncTyped, Still, Mishap
<1>2. ViewsAgree' BY DEF ViewsAgree, Calm
<1>3. ASSUME NEW h \in Torrents PROVE PaidFor(h)'
  <2>1. Unpublished(h)' = Ahead(engine, snap, h) BY DEF Unpublished, Calm, Still
  <2>2. Ahead(engine, snap, h) <= Unpublished(h)
    <3>1. CASE tick.pc = "persistSnapshots" BY <3>1 DEF Unpublished, Ahead
    <3>2. CASE tick.pc = "prune"
      <4>1. Complete100(tick.readings, h) => Complete100(snap, h)
        BY <3>2 DEF SyncInv, ViewsAgree, Complete100
      <4> QED BY <3>2, <4>1 DEF Unpublished, Ahead, One
    <3>3. CASE tick.pc = "edges" BY <3>3 DEF Unpublished, Ahead, One
    <3>4. CASE tick.pc \notin {"persistSnapshots", "prune", "edges"}
      BY <3>4 DEF Unpublished, Ahead
    <3> QED BY <3>1, <3>2, <3>3, <3>4
  <2>3. Unpublished(h) \in Nat /\ Unfired(h) \in Nat /\ Unpublished(h) <= Unfired(h) BY Counts
  <2>4. Unpublished(h)' \in 0..1 BY <2>1 DEF Ahead
  <2>5. Unfired(h)' = IF h \in logged \/ Unpublished(h)' > 0 THEN Unpublished(h)'
                      ELSE One(Complete100(snap, h))
    BY DEF Unfired
  <2>6. Unfired(h) = IF h \in logged \cup tick.ran \/ Unpublished(h) > 0
                       THEN Unpublished(h) ELSE One(Complete100(snap, h))
    BY DEF Unfired
  <2>7. One(Complete100(snap, h)) \in 0..1 BY DEF One
  <2>8. Unfired(h)' \in Nat /\ Unfired(h)' <= Unfired(h) + n
    <3>1. CASE tick.ran = {} BY <2>1, <2>2, <2>3, <2>4, <2>5, <2>6, <2>7, <3>1
    <3>2. CASE n >= 1 BY <2>1, <2>2, <2>3, <2>4, <2>5, <2>7, <3>2
    <3> QED BY <3>1, <3>2
  <2>9. PaidFor(h) BY PaidIs DEF SyncInv
  <2>10. /\ published[h] \in Nat /\ fired[h] \in Nat /\ completed[h] \in Nat
         /\ crashes \in Nat /\ faults \in Nat
    BY DEF SyncInv, SyncTyped
  <2>11. published'[h] = published[h] /\ fired'[h] = fired[h] /\ completed'[h] = completed[h]
    BY DEF Still
  <2>12. published'[h] + Unpublished(h)' <= completed'[h]
    BY <2>1, <2>2, <2>3, <2>4, <2>9, <2>10, <2>11 DEF PaidFor
  <2>13. fired'[h] + Unfired(h)' <= completed'[h] + crashes' + faults'
    BY <2>3, <2>8, <2>9, <2>10, <2>11 DEF PaidFor, Mishap
  <2> QED BY <2>12, <2>13 DEF PaidFor
<1> QED BY <1>1, <1>2, <1>3, PaidNext DEF SyncInv

LEMMA Sums ==
  ASSUME NEW a \in Nat, NEW u \in Nat, NEW u1 \in Nat, NEW c \in Nat, NEW x \in Nat, NEW y \in Nat,
         NEW x1 \in Nat, NEW y1 \in Nat, NEW f \in Nat, NEW n \in Nat,
         a + u <= c + x + y, u1 + f <= u + n, x1 + y1 = x + y + n
  PROVE  (a + f) + u1 <= c + x1 + y1
OBVIOUS

\* What a step takes from the counts, it may add to the histories: p events, f runs,
\* with n mishaps.
Spends(h, p, f, n) ==
  /\ published'[h] = published[h] + p /\ fired'[h] = fired[h] + f
  /\ completed'[h] = completed[h]
  /\ Unpublished(h)' + p <= Unpublished(h)
  /\ Unfired(h)' + f <= Unfired(h) + n

LEMMA Accounts ==
  ASSUME SyncInv, NEW h \in Torrents, NEW p \in Nat, NEW f \in Nat, NEW n \in Nat, Mishap(n),
         Spends(h, p, f, n)
  PROVE  PaidFor(h)'
<1>1. PICK u \in Nat, r \in Nat : u = Unpublished(h) /\ r = Unfired(h) BY Counts
<1>2. PICK u1 \in Nat, r1 \in Nat : u1 = Unpublished(h)' /\ r1 = Unfired(h)'
  BY DEF Unpublished, Unfired, Ahead, One
<1>3. PICK b \in Nat, a \in Nat, c \in Nat, x \in Nat, y \in Nat :
        published[h] = b /\ fired[h] = a /\ completed[h] = c /\ crashes = x /\ faults = y
  BY DEF SyncInv, SyncTyped
<1>4. PICK x1 \in Nat, y1 \in Nat : crashes' = x1 /\ faults' = y1 BY DEF Mishap
<1>5. b + u <= c /\ a + r <= c + x + y BY <1>1, <1>3, PaidIs DEF SyncInv, PaidFor
<1>6. x1 + y1 = x + y + n BY <1>3, <1>4 DEF Mishap
<1>7. u1 + p <= u /\ r1 + f <= r + n BY <1>1, <1>2 DEF Spends
<1>8. (b + p) + u1 <= c BY <1>5, <1>7
<1>9. (a + f) + r1 <= c + x1 + y1 BY <1>5, <1>6, <1>7, Sums
<1>10. published'[h] = b + p /\ fired'[h] = a + f /\ completed'[h] = c BY <1>3 DEF Spends
<1> QED BY <1>2, <1>4, <1>8, <1>9, <1>10 DEF PaidFor

\* A step that only reads or writes views: one torrent.
LEMMA ViewsMove ==
  ASSUME SyncInv, Still, UNCHANGED <<crashes, faults>>, NEW h \in Torrents,
         Unpublished(h)' <= Unpublished(h), Unfired(h)' <= Unfired(h)
  PROVE  PaidFor(h)'
<1>1. Mishap(0) BY DEF Mishap, SyncInv, SyncTyped
<1>2. Spends(h, 0, 0, 0)
  <2>1. published'[h] = published[h] + 0 /\ fired'[h] = fired[h] + 0
    BY DEF Still, SyncInv, SyncTyped
  <2>2. completed'[h] = completed[h] BY DEF Still
  <2>3. Unpublished(h) \in Nat /\ Unfired(h) \in Nat BY Counts
  <2>4. Unpublished(h)' \in Nat /\ Unfired(h)' \in Nat BY DEF Unpublished, Unfired, Ahead, One
  <2>5. Unpublished(h)' + 0 <= Unpublished(h) /\ Unfired(h)' + 0 <= Unfired(h) + 0
    BY <2>3, <2>4
  <2> QED BY <2>1, <2>2, <2>5 DEF Spends
<1> QED BY <1>1, <1>2, Accounts

LEMMA ListKeeps ==
  ASSUME SyncInv, ListTorrents
  PROVE  SyncInv'
<1>1. Still /\ UNCHANGED <<snap, logged, crashes, faults>> /\ tick.pc = "listTorrents"
  BY DEF ListTorrents, Still, env, db, hist, At
<1>2. IsTick(tick) /\ engine \in Tables(Reading) /\ snap \in Tables(Reading)
  BY DEF SyncInv, SyncTyped
<1>3. PriorSnapshots(engine) \in Tables(Reading)
  BY <1>2, RestrictTable DEF PriorSnapshots
<1>4. IsTick(tick')
  BY <1>2, <1>3 DEF ListTorrents, IsTick, Phases
<1>5. /\ tick'.pc = "persistSnapshots" /\ tick'.readings = engine
      /\ tick'.prior = PriorSnapshots(engine) /\ tick'.ran = tick.ran /\ tick'.todo = tick.todo
  BY <1>2 DEF ListTorrents, IsTick
<1>6. tick.ran = {} BY <1>1 DEF SyncInv, ViewsAgree
<1>7. SyncTyped' BY <1>1, <1>4 DEF SyncInv, SyncTyped, Still
<1>8. ViewsAgree' BY <1>1, <1>5, <1>6 DEF ViewsAgree, PriorSnapshots
<1>9. ASSUME NEW h \in Torrents PROVE PaidFor(h)'
  <2>1. Unpublished(h)' = Ahead(engine, snap, h) + Ahead(engine, engine, h)
    BY <1>1, <1>5 DEF Unpublished, Still
  <2>2. Unpublished(h) = Ahead(engine, snap, h) BY <1>1 DEF Unpublished
  <2>3. Unpublished(h)' = Unpublished(h) BY <2>1, <2>2 DEF Ahead
  <2>4. Unfired(h)' = Unfired(h) BY <1>1, <1>5, <2>3 DEF Unfired
  <2>5. Unpublished(h) \in Nat /\ Unfired(h) \in Nat BY Counts
  <2> QED BY <1>1, <2>3, <2>4, <2>5, ViewsMove
<1> QED BY <1>7, <1>8, <1>9, PaidNext DEF SyncInv

\* The transaction: the listing becomes the snapshots, and the edges of this tick
\* are what it was ahead by.
LEMMA PersistKeeps ==
  ASSUME SyncInv, PersistSnapshots
  PROVE  SyncInv'
<1>1. /\ Still /\ UNCHANGED <<logged, crashes, faults>> /\ tick.pc = "persistSnapshots"
      /\ snap' = Upserted(snap, tick.readings) /\ tick' = [tick EXCEPT !.pc = "prune"]
  BY DEF PersistSnapshots, Still, env, hist, At, Goto
<1>2. IsTick(tick) /\ snap \in Tables(Reading) BY DEF SyncInv, SyncTyped
<1>3. snap' \in Tables(Reading) BY <1>1, <1>2, UpsertTable DEF IsTick
<1>4. IsTick(tick') BY <1>1, <1>2 DEF IsTick, Phases
<1>5. /\ tick'.pc = "prune" /\ tick'.readings = tick.readings /\ tick'.prior = tick.prior
      /\ tick'.ran = tick.ran /\ tick'.todo = tick.todo
  BY <1>1, <1>2 DEF IsTick
<1>6. tick.ran = {} /\ tick.prior = PriorSnapshots(tick.readings) BY <1>1 DEF SyncInv, ViewsAgree
<1>7. SyncTyped' BY <1>1, <1>3, <1>4 DEF SyncInv, SyncTyped, Still
<1>8. ViewsAgree' BY <1>1, <1>5, <1>6 DEF ViewsAgree, Upserted
<1>9. ASSUME NEW h \in Torrents PROVE PaidFor(h)'
  <2>1. Unpublished(h)' = One(h \in RisingEdges(tick.readings, tick.prior))
                          + Ahead(engine, tick.readings, h)
    BY <1>1, <1>5 DEF Unpublished, Still
  <2>2. Unpublished(h) = Ahead(tick.readings, snap, h) + Ahead(engine, tick.readings, h)
    BY <1>1 DEF Unpublished
  <2>3. h \in RisingEdges(tick.readings, tick.prior)
          => Complete100(tick.readings, h) /\ ~Complete100(snap, h)
    BY <1>6 DEF RisingEdges, PriorSnapshots, Restrict, Complete100
  <2>4. Unpublished(h)' <= Unpublished(h) BY <2>1, <2>2, <2>3 DEF Ahead, One
  <2>5. Complete100(snap', h) => Complete100(tick.readings, h) \/ Complete100(snap, h)
    BY <1>1 DEF Upserted, Complete100
  <2>6. Complete100(snap', h) => Complete100(snap, h) \/ Unpublished(h) >= 1
    BY <2>2, <2>5 DEF Ahead
  <2>7. Unfired(h)' = IF h \in logged \/ Unpublished(h)' > 0 THEN Unpublished(h)'
                      ELSE One(Complete100(snap', h))
    BY <1>1, <1>5, <1>6 DEF Unfired
  <2>8. Unfired(h) = IF h \in logged \/ Unpublished(h) > 0 THEN Unpublished(h)
                     ELSE One(Complete100(snap, h))
    BY <1>6 DEF Unfired
  <2>9. Unpublished(h) \in Nat /\ Unpublished(h)' \in Nat
    BY <2>1, <2>2 DEF Ahead, One
  <2>10. Unfired(h)' <= Unfired(h) BY <2>4, <2>6, <2>7, <2>8, <2>9 DEF One
  <2> QED BY <1>1, <2>4, <2>10, ViewsMove
<1> QED BY <1>7, <1>8, <1>9, PaidNext DEF SyncInv

\* The snapshots of torrents that are gone go; the rising edges are now the list.
LEMMA PruneKeeps ==
  ASSUME SyncInv, Prune
  PROVE  SyncInv'
<1> DEFINE rising == RisingEdges(tick.readings, tick.prior)
<1>1. /\ Still /\ UNCHANGED <<logged, crashes, faults>> /\ tick.pc = "prune"
      /\ snap' = Restrict(snap, DOMAIN tick.readings)
      /\ tick' = [tick EXCEPT !.pc = "edges", !.prior = <<>>, !.rising = rising, !.todo = rising]
  BY DEF Prune, Still, env, hist, At
<1>2. IsTick(tick) /\ snap \in Tables(Reading) BY DEF SyncInv, SyncTyped
<1>3. /\ DOMAIN tick.readings \subseteq DOMAIN snap /\ tick.ran = {}
      /\ \A h \in DOMAIN tick.readings : snap[h] = tick.readings[h]
  BY <1>1 DEF SyncInv, ViewsAgree
<1>4. snap' \in Tables(Reading) BY <1>1, <1>2, <1>3, RestrictTable
<1>5. rising \subseteq Torrents
  <2>1. DOMAIN tick.readings \subseteq Torrents BY <1>2, TableIs DEF IsTick
  <2> QED BY <2>1 DEF RisingEdges
<1>6. \A h \in rising : Complete100(tick.readings, h) BY DEF RisingEdges, Complete100
<1> HIDE DEF rising
<1>7. <<>> \in Tables(Reading) BY EmptyTable
<1>8. IsTick(tick') BY <1>1, <1>2, <1>5, <1>7 DEF IsTick, Phases
<1>9. /\ tick'.pc = "edges" /\ tick'.readings = tick.readings
      /\ tick'.ran = tick.ran /\ tick'.todo = rising
  BY <1>1, <1>2 DEF IsTick
<1>10. \A h : Complete100(snap', h) <=> Complete100(tick.readings, h)
  BY <1>1, <1>3 DEF Complete100, Restrict
<1>11. SyncTyped' BY <1>1, <1>4, <1>8 DEF SyncInv, SyncTyped, Still
<1>12. ViewsAgree' BY <1>1, <1>3, <1>6, <1>9, <1>10 DEF ViewsAgree, Restrict
<1>13. ASSUME NEW h \in Torrents PROVE PaidFor(h)'
  <2>1. Unpublished(h)' = One(h \in rising) + Ahead(engine, snap', h)
    BY <1>1, <1>9 DEF Unpublished, Still
  <2>2. Unpublished(h) = One(h \in rising) + Ahead(engine, tick.readings, h)
    BY <1>1 DEF Unpublished, rising
  <2>3. Unpublished(h)' = Unpublished(h) BY <1>10, <2>1, <2>2 DEF Ahead
  <2>4. Complete100(snap', h) => Complete100(snap, h) BY <1>3, <1>10 DEF Complete100
  <2>5. Unpublished(h) \in Nat BY Counts
  <2>6. Unfired(h)' <= Unfired(h) BY <1>1, <1>9, <2>3, <2>4, <2>5 DEF Unfired, One
  <2> QED BY <1>1, <2>3, <2>5, <2>6, ViewsMove
<1> QED BY <1>11, <1>12, <1>13, PaidNext DEF SyncInv

\* Bystanders of a run: the torrents it is not about.
LEMMA Bystander ==
  ASSUME SyncInv, NEW g \in Torrents, NEW n \in Nat, Mishap(n),
         UNCHANGED <<engine, snap, logged>>, tick'.pc = tick.pc,
         tick.pc \in {"edges", "reconcile"},
         g \in tick'.todo <=> g \in tick.todo, g \in tick'.ran <=> g \in tick.ran,
         published'[g] = published[g], fired'[g] = fired[g], completed'[g] = completed[g]
  PROVE  PaidFor(g)'
<1>1. Unpublished(g)' = Unpublished(g) BY DEF Unpublished, One
<1>2. Unfired(g)' = Unfired(g) BY <1>1 DEF Unfired
<1>3. Unpublished(g) \in Nat /\ Unfired(g) \in Nat BY Counts
<1>4. Unpublished(g)' + 0 <= Unpublished(g) /\ Unfired(g)' + 0 <= Unfired(g) + n
  BY <1>1, <1>2, <1>3
<1>5. published'[g] = published[g] + 0 /\ fired'[g] = fired[g] + 0 BY DEF SyncInv, SyncTyped
<1>6. Spends(g, 0, 0, n) BY <1>4, <1>5 DEF Spends
<1> QED BY <1>6, Accounts

\* The torrent a run is about: its snapshot is complete, and either the run is
\* counted and about to be logged, or it is not counted.
LEMMA RunPays ==
  ASSUME SyncInv, NEW h \in Torrents, NEW p \in {0, 1}, NEW f \in {0, 1}, NEW n \in Nat, Mishap(n),
         UNCHANGED <<engine, snap, logged>>, tick'.pc = tick.pc,
         h \in tick.todo, h \notin tick'.todo, tick.ran = {},
         f = 1 => h \in tick'.ran,
         \/ p = 1 /\ tick.pc = "edges"
         \/ p = 0 /\ tick.pc = "reconcile",
         published'[h] = published[h] + p, fired'[h] = fired[h] + f, completed'[h] = completed[h]
  PROVE  PaidFor(h)'
<1>1. Complete100(snap, h) BY DEF SyncInv, ViewsAgree
<1>2. Ahead(engine, snap, h) = 0 BY <1>1 DEF Ahead
<1>3. Unpublished(h)' = 0
  <2>1. Ahead(engine', snap', h) = 0 BY <1>2
  <2>2. Unpublished(h)' = IF tick.pc = "edges" THEN One(FALSE) + Ahead(engine', snap', h)
                          ELSE Ahead(engine', snap', h)
    BY DEF Unpublished, One
  <2> QED BY <2>1, <2>2 DEF One
<1>4. Unpublished(h) = p /\ Unfired(h) = 1
  <2>1. CASE tick.pc = "edges" BY <1>2, <2>1 DEF Unpublished, Unfired, One
  <2>2. CASE tick.pc = "reconcile"
    <3>1. h \notin logged BY <2>2 DEF SyncInv, ViewsAgree
    <3>2. Unpublished(h) = 0 BY <1>2, <2>2 DEF Unpublished
    <3> QED BY <1>1, <2>2, <3>1, <3>2 DEF Unfired, One
  <2> QED BY <2>1, <2>2
<1>5. Unfired(h)' + f <= 1
  <2>1. CASE f = 1 BY <1>3, <2>1 DEF Unfired
  <2>2. CASE f = 0 BY <1>3, <2>2 DEF Unfired, One
  <2> QED BY <2>1, <2>2
<1>6. Unfired(h)' \in Nat BY DEF Unfired, Unpublished, Ahead, One
<1>7. Unpublished(h)' + p <= Unpublished(h) /\ Unfired(h)' + f <= Unfired(h) + n
  BY <1>3, <1>4, <1>5, <1>6
<1>8. Spends(h, p, f, n) BY <1>7 DEF Spends
<1> QED BY <1>8, Accounts

\* What FireEdge and ReconcileCompleted do to the tick and to the runs of h.
LEMMA RunEffect ==
  ASSUME SyncInv, NEW h \in Torrents, FireEdge(h) \/ ReconcileCompleted(h)
  PROVE  \E R \in {{}, {h}}, f \in {0, 1}, n \in {0, 1} :
           /\ tick' = [tick EXCEPT !.todo = @ \ {h}, !.ran = R]
           /\ fired' = [fired EXCEPT ![h] = @ + f]
           /\ faults' = faults + n
           /\ f = 1 => R = {h}
<1>1. IsTick(tick) /\ fired \in [Torrents -> Nat] /\ faults \in Nat BY DEF SyncInv, SyncTyped
<1>2. tick.ran = {} BY DEF FireEdge, ReconcileCompleted
<1>3. [tick EXCEPT !.todo = @ \ {h}] = [tick EXCEPT !.todo = @ \ {h}, !.ran = {}]
  BY <1>1, <1>2 DEF IsTick
<1>4. fired = [fired EXCEPT ![h] = @ + 0] /\ faults = faults + 0 BY <1>1
<1>5. CASE /\ fired' = [fired EXCEPT ![h] = @ + 1]
           /\ tick' = [tick EXCEPT !.todo = @ \ {h}, !.ran = {h}]
           /\ UNCHANGED faults
  BY <1>4, <1>5
<1>6. CASE /\ Fault
           /\ tick' = [tick EXCEPT !.todo = @ \ {h}]
           /\ UNCHANGED fired
  BY <1>3, <1>4, <1>6 DEF Fault
<1>7. CASE /\ tick' = [tick EXCEPT !.todo = @ \ {h}]
           /\ UNCHANGED <<fired, faults>>
  BY <1>3, <1>4, <1>7
<1> QED BY <1>5, <1>6, <1>7 DEF FireEdge, ReconcileCompleted, RunRule

\* FireEdge and ReconcileCompleted: the event and the run were paid for.
LEMMA RunKeeps ==
  ASSUME SyncInv, NEW h \in Torrents, FireEdge(h) \/ ReconcileCompleted(h)
  PROVE  SyncInv'
<1>1. /\ UNCHANGED <<engine, snap, logged, completed, crashes>>
      /\ h \in tick.todo /\ tick.ran = {} /\ tick.pc \in {"edges", "reconcile"}
  BY DEF FireEdge, ReconcileCompleted, env, db, At
<1>2. PICK R \in {{}, {h}}, f \in {0, 1}, n \in {0, 1} :
        /\ tick' = [tick EXCEPT !.todo = @ \ {h}, !.ran = R]
        /\ fired' = [fired EXCEPT ![h] = @ + f]
        /\ faults' = faults + n
        /\ f = 1 => R = {h}
  BY RunEffect
<1>3. IsTick(tick) /\ fired \in [Torrents -> Nat] /\ faults \in Nat /\ crashes \in Nat
      /\ published \in [Torrents -> Nat]
  BY DEF SyncInv, SyncTyped
<1>4. PICK p \in {0, 1} : /\ published' = [published EXCEPT ![h] = @ + p]
                          /\ \/ p = 1 /\ tick.pc = "edges"
                             \/ p = 0 /\ tick.pc = "reconcile"
  <2>1. published = [published EXCEPT ![h] = @ + 0] BY <1>3
  <2> QED BY <2>1 DEF FireEdge, ReconcileCompleted, At
<1>5. Mishap(n) BY <1>1, <1>2, <1>3 DEF Mishap
<1>6. R \in SUBSET Torrents OBVIOUS
<1>7. IsTick(tick') BY <1>2, <1>3, <1>6 DEF IsTick
<1>8. /\ tick'.pc = tick.pc /\ tick'.readings = tick.readings /\ tick'.prior = tick.prior
      /\ tick'.ran = R /\ tick'.todo = tick.todo \ {h}
  BY <1>2, <1>3 DEF IsTick
<1>9. published' \in [Torrents -> Nat] /\ fired' \in [Torrents -> Nat]
  BY <1>2, <1>3, <1>4
<1>10. SyncTyped' BY <1>1, <1>5, <1>7, <1>9 DEF SyncInv, SyncTyped, Mishap
<1>11. ViewsAgree' BY <1>1, <1>8 DEF SyncInv, ViewsAgree, Complete100
<1>12. ASSUME NEW g \in Torrents PROVE PaidFor(g)'
  <2>1. CASE g # h
    <3>1. published'[g] = published[g] /\ fired'[g] = fired[g] /\ completed'[g] = completed[g]
      BY <1>1, <1>2, <1>3, <1>4, <2>1
    <3>2. (g \in tick'.todo <=> g \in tick.todo) /\ (g \in tick'.ran <=> g \in tick.ran)
      BY <1>1, <1>8, <2>1
    <3> QED BY <1>1, <1>5, <1>8, <3>1, <3>2, Bystander
  <2>2. CASE g = h
    <3>1. /\ published'[h] = published[h] + p /\ fired'[h] = fired[h] + f
          /\ completed'[h] = completed[h]
      BY <1>1, <1>2, <1>3, <1>4
    <3>2. h \notin tick'.todo /\ (f = 1 => h \in tick'.ran) BY <1>2, <1>8
    <3>3. PaidFor(h)' BY <1>1, <1>4, <1>5, <1>8, <3>1, <3>2, RunPays
    <3> QED BY <2>2, <3>3
  <2> QED BY <2>1, <2>2
<1> QED BY <1>10, <1>11, <1>12, PaidNext DEF SyncInv

\* The log row of a run is written, or the insert fails, which is a mishap.
LEMMA LogRunKeeps ==
  ASSUME SyncInv, LogRun
  PROVE  SyncInv'
<1>1. /\ Still /\ UNCHANGED <<snap, crashes>> /\ tick.ran # {}
      /\ tick' = [tick EXCEPT !.ran = {}]
  BY DEF LogRun, Still, env, hist
<1>2. IsTick(tick) /\ faults \in Nat /\ crashes \in Nat BY DEF SyncInv, SyncTyped
<1>3. tick.pc \in {"edges", "reconcile"} /\ tick.ran \cap tick.todo = {}
  BY <1>1 DEF SyncInv, ViewsAgree
<1>4. PICK n \in {0, 1} : /\ Mishap(n)
                          /\ \/ logged' = logged \cup tick.ran
                             \/ logged' = logged /\ n = 1
  BY <1>1, <1>2 DEF LogRun, Mishap, Fault
<1>5. IsTick(tick') BY <1>1, <1>2 DEF IsTick
<1>6. /\ tick'.pc = tick.pc /\ tick'.readings = tick.readings /\ tick'.prior = tick.prior
      /\ tick'.ran = {} /\ tick'.todo = tick.todo
  BY <1>1, <1>2 DEF IsTick
<1>7. SyncTyped' BY <1>1, <1>4, <1>5 DEF SyncInv, SyncTyped, Still, Mishap
<1>8. ViewsAgree' BY <1>1, <1>3, <1>4, <1>6 DEF SyncInv, ViewsAgree, Complete100
<1>9. ASSUME NEW h \in Torrents PROVE PaidFor(h)'
  <2>1. Unpublished(h)' = Unpublished(h) BY <1>1, <1>3, <1>6 DEF Unpublished, Still
  <2>2. PICK u \in 0..2 : Unpublished(h) = u BY Counts
  <2>3. Unfired(h) = IF h \in logged \cup tick.ran \/ u > 0 THEN u
                     ELSE One(Complete100(snap, h))
    BY <2>2 DEF Unfired
  <2>4. Unfired(h)' = IF h \in logged' \/ u > 0 THEN u ELSE One(Complete100(snap, h))
    BY <1>1, <1>6, <2>1, <2>2 DEF Unfired
  <2>5. One(Complete100(snap, h)) \in 0..1 BY DEF One
  <2>6. Unfired(h)' + 0 <= Unfired(h) + n BY <1>4, <2>3, <2>4, <2>5
  <2>7. Unpublished(h)' + 0 <= Unpublished(h) BY <2>1, <2>2
  <2>8. published'[h] = published[h] + 0 /\ fired'[h] = fired[h] + 0
    BY <1>1 DEF Still, SyncInv, SyncTyped
  <2>9. Spends(h, 0, 0, n) BY <1>1, <2>6, <2>7, <2>8 DEF Spends, Still
  <2> QED BY <1>4, <2>9, Accounts
<1> QED BY <1>7, <1>8, <1>9, PaidNext DEF SyncInv

\* The backfill takes complete torrents whose run is not on record.
LEMMA StartReconcileKeeps ==
  ASSUME SyncInv, StartReconcile
  PROVE  SyncInv'
<1> DEFINE complete == {h \in DOMAIN tick.readings : tick.readings[h].done} \ tick.rising
           T == IF rule THEN LoadCompletedLedger(complete) ELSE {}
<1>1. /\ Still /\ UNCHANGED <<snap, logged, crashes, faults>>
      /\ tick.pc = "edges" /\ tick.ran = {} /\ tick.todo = {}
      /\ tick' = [Idle EXCEPT !.pc = "reconcile", !.todo = T]
  BY DEF StartReconcile, Still, env, db, hist, At
<1>2. IsTick(tick) BY DEF SyncInv, SyncTyped
<1>3. /\ DOMAIN snap = DOMAIN tick.readings
      /\ \A h \in DOMAIN tick.readings : snap[h] = tick.readings[h]
  BY <1>1 DEF SyncInv, ViewsAgree
<1>4. T \subseteq Torrents
  <2>1. DOMAIN tick.readings \subseteq Torrents BY <1>2, TableIs DEF IsTick
  <2> QED BY <2>1 DEF LoadCompletedLedger
<1>5. \A h \in T : Complete100(snap, h) /\ h \notin logged
  BY <1>3 DEF LoadCompletedLedger, Complete100
<1> HIDE DEF T
<1>6. IsTick(tick') BY <1>1, <1>4, IdleIsTick DEF IsTick, Phases
<1>7. tick'.pc = "reconcile" /\ tick'.ran = {} /\ tick'.todo = T BY <1>1 DEF Idle
<1>8. SyncTyped' BY <1>1, <1>6 DEF SyncInv, SyncTyped, Still
<1>9. ViewsAgree' BY <1>1, <1>5, <1>7 DEF ViewsAgree, Complete100
<1>10. ASSUME NEW h \in Torrents PROVE PaidFor(h)'
  <2>1. Unpublished(h)' = Ahead(engine, snap, h) BY <1>1, <1>7 DEF Unpublished, Still
  <2>2. Unpublished(h) = One(FALSE) + Ahead(engine, snap, h) BY <1>1 DEF Unpublished, One
  <2>3. Unpublished(h)' = Unpublished(h) BY <2>1, <2>2 DEF One, Ahead
  <2>4. Unfired(h)' = Unfired(h) BY <1>1, <1>7, <2>3 DEF Unfired
  <2>5. Unpublished(h) \in Nat /\ Unfired(h) \in Nat BY Counts
  <2> QED BY <1>1, <2>3, <2>4, <2>5, ViewsMove
<1> QED BY <1>8, <1>9, <1>10, PaidNext DEF SyncInv

----------------------------------------------------------------------------
(* The steps around them.                                                   *)

LEMMA GotoCalm ==
  ASSUME SyncInv, NEW p \in Calm, Goto(p), tick.ran = {}
  PROVE  IsTick(tick') /\ tick'.pc \in Calm /\ tick'.ran = {}
<1>1. CASE p = "idle"
  <2>1. tick' = Idle BY <1>1 DEF Goto
  <2> QED BY <2>1, IdleIsTick DEF Idle, Calm
<1>2. CASE p # "idle"
  <2>1. IsTick(tick) BY DEF SyncInv, SyncTyped
  <2>2. tick' = [tick EXCEPT !.pc = p] BY <1>2 DEF Goto
  <2> QED BY <2>1, <2>2 DEF IsTick, Calm, Phases
<1> QED BY <1>1, <1>2

LEMMA NoMishap ==
  ASSUME SyncInv, UNCHANGED <<crashes, faults>> PROVE Mishap(0)
BY DEF Mishap, SyncInv, SyncTyped

LEMMA OneMishap ==
  ASSUME SyncInv, \/ UNCHANGED crashes /\ Fault
                  \/ UNCHANGED faults /\ crashes' = crashes + 1
  PROVE  Mishap(1)
BY DEF Mishap, SyncInv, SyncTyped, Fault

LEMMA StartTickKeeps == ASSUME SyncInv, StartTick PROVE SyncInv'
<1>1. Still /\ UNCHANGED <<snap, logged, crashes, faults>> /\ tick.pc = "idle"
  BY DEF StartTick, Still, env, db, hist, At
<1>2. tick.ran = {} BY <1>1 DEF SyncInv, ViewsAgree
<1>3. PICK p \in Calm : Goto(p) BY DEF StartTick, Calm
<1>4. IsTick(tick') /\ tick'.pc \in Calm /\ tick'.ran = {} BY <1>2, <1>3, GotoCalm
<1> QED BY <1>1, <1>2, <1>4, NoMishap, CalmKeeps

LEMMA SeedValuesKeeps == ASSUME SyncInv, SeedValues PROVE SyncInv'
<1>1. Still /\ UNCHANGED <<snap, logged, crashes>> /\ tick.pc = "seedValues"
  BY DEF SeedValues, Still, env, db, hist, At
<1>2. tick.ran = {} BY <1>1 DEF SyncInv, ViewsAgree
<1>3. IsTick(tick) BY DEF SyncInv, SyncTyped
<1>4. ASSUME NEW v, SeedFrom(v) PROVE IsTick(tick') /\ tick'.pc \in Calm /\ tick'.ran = {}
  <2>1. PICK w : tick' = [tick EXCEPT !.pc = "writeBaseline", !.seed = v, !.repeats = w]
    BY <1>4 DEF SeedFrom
  <2> QED BY <1>2, <1>3, <2>1 DEF IsTick, Calm, Phases
<1>5. ASSUME Goto("listTorrents") PROVE IsTick(tick') /\ tick'.pc \in Calm /\ tick'.ran = {}
  BY <1>2, <1>5, GotoCalm DEF Calm
<1>6. IsTick(tick') /\ tick'.pc \in Calm /\ tick'.ran = {} BY <1>4, <1>5 DEF SeedValues
<1>7. PICK n \in {0, 1} : Mishap(n) BY <1>1, NoMishap, OneMishap DEF SeedValues
<1> QED BY <1>1, <1>2, <1>6, <1>7, CalmKeeps

LEMMA WriteBaselineKeeps == ASSUME SyncInv, WriteBaseline PROVE SyncInv'
<1>1. /\ Still /\ UNCHANGED <<snap, logged, crashes, faults>> /\ tick.pc = "writeBaseline"
      /\ tick' = [Idle EXCEPT !.pc = "listTorrents"]
  BY DEF WriteBaseline, Still, env, At
<1>2. tick.ran = {} BY <1>1 DEF SyncInv, ViewsAgree
<1>3. IsTick(tick') BY <1>1, IdleIsTick DEF IsTick, Phases
<1>4. tick'.pc \in Calm /\ tick'.ran = {} BY <1>1 DEF Idle, Calm
<1> QED BY <1>1, <1>2, <1>3, <1>4, NoMishap, CalmKeeps

\* The tick ends, by itself, by an error or because the process dies.
LEMMA EndKeeps ==
  ASSUME SyncInv, \/ EndTick \/ Crash
                  \/ \E p \in {"writeBaseline", "listTorrents", "persistSnapshots", "prune"} : Abort(p)
  PROVE  SyncInv'
<1>1. Still /\ UNCHANGED <<snap, logged>> /\ tick' = Idle
  BY DEF EndTick, Crash, Abort, Still, env, db, hist, Goto
<1>2. IsTick(tick') /\ tick'.pc \in Calm /\ tick'.ran = {}
  BY <1>1, IdleIsTick DEF Idle, Calm
<1>3. CASE EndTick
  <2>1. tick.ran = {} /\ UNCHANGED <<crashes, faults>> BY <1>3 DEF EndTick
  <2> QED BY <1>1, <1>2, <2>1, NoMishap, CalmKeeps
<1>4. CASE ~EndTick
  <2>1. Mishap(1) BY <1>4, OneMishap DEF Crash, Abort
  <2> QED BY <1>1, <1>2, <2>1, CalmKeeps
<1> QED BY <1>3, <1>4

LEMMA UntouchedKeeps ==
  ASSUME SyncInv,
         UNCHANGED <<engine, snap, logged, tick, published, fired, completed, crashes, faults>>
  PROVE  SyncInv'
<1>1. completed' \in [Torrents -> Nat] /\ engine' \in Tables(Reading) BY DEF SyncInv, SyncTyped
<1>2. \A h \in Torrents :
        completed'[h] = completed[h] /\ (Complete100(engine', h) => Complete100(engine, h))
  OBVIOUS
<1> QED BY <1>1, <1>2, EngineMoves

LEMMA Step == SyncInv /\ [Next]_vars => SyncInv'
<1> SUFFICES ASSUME SyncInv, [Next]_vars PROVE SyncInv' OBVIOUS
<1>1. CASE SyncStep
  BY <1>1, StartTickKeeps, SeedValuesKeeps, WriteBaselineKeeps, ListKeeps, PersistKeeps,
     PruneKeeps, RunKeeps, LogRunKeeps, StartReconcileKeeps, EndKeeps DEF SyncStep
<1>2. CASE Environment
  <2>1. CASE CreateRule BY <2>1, UntouchedKeeps DEF CreateRule, env, hist
  <2>2. CASE Crash BY <2>2, EndKeeps
  <2>3. CASE \E h \in Torrents : Move(h) \/ Complete(h) \/ Recheck(h) \/ AddTorrent(h) \/ RemoveTorrent(h)
    BY <2>3, MoveKeeps, AddKeeps
  <2> QED BY <1>2, <2>1, <2>2, <2>3 DEF Environment
<1>3. CASE UNCHANGED vars BY <1>3, UntouchedKeeps DEF vars
<1> QED BY <1>1, <1>2, <1>3 DEF Next

----------------------------------------------------------------------------
(* The theorems.                                                            *)

\* The views and the counts agree in every reachable state, whatever fails.
THEOREM SyncInvariant == Spec => []SyncInv
BY Initially, Step, PTL DEF Spec

\* torrent-sync.service.ts `Persisting first makes an edge fire at most once,
\* whatever the side-effects do' and automation.module.ts `each rule runs at most
\* once per torrent': no more events than completions, and no more runs than
\* completions, restarts and failing calls.
THEOREM EdgeAtMostOnceCorrect == Spec => []EdgeAtMostOnce
<1>1. SyncInv => EdgeAtMostOnce
  <2> SUFFICES ASSUME SyncInv, NEW h \in Torrents
               PROVE  /\ published[h] <= completed[h]
                      /\ fired[h] <= completed[h] + crashes + faults
    BY DEF EdgeAtMostOnce
  <2>1. Unpublished(h) \in Nat /\ Unfired(h) \in Nat BY Counts
  <2> QED BY <2>1 DEF SyncInv, Paid, SyncTyped
<1> QED BY <1>1, SyncInvariant, PTL

----------------------------------------------------------------------------
(* The ledger: what may still be banked, and the books it is entered in.     *)

\* Bytes that may still be banked without the engine moving any: those of the
\* listing that is about to be banked and those moved since, or those moved since
\* the snapshots.
ToBank(pc, e, s, r, p) ==
  IF pc = "persistSnapshots" THEN Accrue(Down(r), Down(p)) + Accrue(Down(e), Down(Upserted(s, r)))
  ELSE Accrue(Down(e), Down(s))
Unbanked == ToBank(tick.pc, engine, snap, tick.readings, tick.prior)

LedgerRow == [baseline : Nat, seeded : BOOLEAN, accrued : Nat]

\* Bytes on the books, with those still to come, never exceed what moved, but for
\* what the baseline repeats.
Balance ==
  /\ SumOf(Down(engine)) <= moved
  /\ ledger.accrued + Unbanked <= moved
  /\ ledger.baseline <= moved
  /\ ledger.seeded => ledger.baseline + ledger.accrued + Unbanked <= moved + slack
  /\ ~ledger.seeded => ledger.baseline = 0 /\ slack = 0
  /\ tick.pc \in {"seedValues", "writeBaseline"} => ~ledger.seeded
  /\ tick.pc = "writeBaseline" =>
       /\ tick.seed <= moved
       /\ tick.seed + ledger.accrued + Pending <= moved + tick.repeats

LedgerTyped ==
  /\ ledger \in LedgerRow /\ moved \in Nat /\ slack \in Nat
  /\ tick.seed \in Nat /\ tick.repeats \in Nat

----------------------------------------------------------------------------
(* What an accrual adds up to.                                              *)

\* One counter, looked at once or twice: looking twice never counts less.
LEMMA ContributionFacts ==
  ASSUME NEW p \in Nat, NEW r \in Nat, NEW e \in Nat
  PROVE  /\ Contribution(p, e) \in Nat /\ Contribution(p, e) <= e
         /\ Contribution(p, e) <= Contribution(p, r) + Contribution(r, e)
         /\ Contribution(p, e + 1) <= Contribution(p, e) + 1
         /\ Contribution(p, 0) = 0 /\ Contribution(p, p) = 0
BY DEF Contribution

\* A table of torrents as counters.
LEMMA DownCounts ==
  ASSUME NEW t \in Tables(Reading)
  PROVE  /\ IsCount(Down(t)) /\ DOMAIN Down(t) = DOMAIN t
         /\ \A h \in DOMAIN t : Down(t)[h] = t[h].down /\ t[h].down \in Nat
<1>1. DOMAIN t \in SUBSET Torrents /\ t \in [DOMAIN t -> Reading] BY TableIs
<1>2. IsFiniteSet(DOMAIN t) BY <1>1, FS_Subset, StartAssumption
<1>3. \A h \in DOMAIN t : t[h].down \in Nat BY <1>1 DEF Reading
<1> QED BY <1>2, <1>3 DEF IsCount, Down

LEMMA ContributionsCount ==
  ASSUME NEW r, NEW p, IsCount(r), IsCount(p)
  PROVE  /\ IsCount(Contributions(r, p))
         /\ DOMAIN Contributions(r, p) = DOMAIN r \cap DOMAIN p
         /\ \A h \in DOMAIN r \cap DOMAIN p :
              Contributions(r, p)[h] = Contribution(p[h], r[h])
         /\ Accrue(r, p) \in Nat
<1>1. IsFiniteSet(DOMAIN r \cap DOMAIN p) BY FS_Subset DEF IsCount
<1>2. \A h \in DOMAIN r \cap DOMAIN p : Contribution(p[h], r[h]) \in Nat
  BY ContributionFacts DEF IsCount
<1>3. IsCount(Contributions(r, p)) BY <1>1, <1>2 DEF IsCount, Contributions
<1> QED BY <1>3, SumNat DEF Accrue, Contributions

LEMMA ContributionsVal ==
  ASSUME NEW r, NEW p, NEW x
  PROVE  /\ x \in DOMAIN r \cap DOMAIN p =>
              /\ Contributions(r, p)[x] = Contribution(p[x], r[x])
              /\ Val(Contributions(r, p), x) = Contribution(p[x], r[x])
         /\ x \notin DOMAIN r => Val(Contributions(r, p), x) = 0
<1>1. Contributions(r, p) = [h \in DOMAIN r \cap DOMAIN p |-> Contribution(p[h], r[h])]
  BY DEF Contributions
<1>2. DOMAIN Contributions(r, p) = DOMAIN r \cap DOMAIN p BY <1>1
<1> QED BY <1>1, <1>2 DEF Val

\* The sum over nothing, and over one element.
LEMMA NoSum ==
  LET z == [x \in {} |-> 0] IN IsCount(z) /\ SumFunction(z) = 0 /\ \A x : Val(z, x) = 0
<1> DEFINE z == [x \in {} |-> 0]
<1>1. DOMAIN z = {} OBVIOUS
<1>2. IsFiniteSet({}) BY FS_EmptySet
<1>3. SumFunctionOnSet(z, {}) = 0 BY <1>2, SumUnfolds
<1> HIDE DEF z
<1>4. IsCount(z) /\ SumFunction(z) = 0 /\ \A x : Val(z, x) = 0
  BY <1>1, <1>2, <1>3 DEF IsCount, SumFunction, Val
<1> QED BY <1>4 DEF z

LEMMA OneSum ==
  ASSUME NEW a
  PROVE  LET z == [x \in {a} |-> 1] IN IsCount(z) /\ SumFunction(z) = 1 /\ Val(z, a) = 1
<1> DEFINE z == [x \in {a} |-> 1]
<1>1. DOMAIN z = {a} /\ z[a] = 1 OBVIOUS
<1> HIDE DEF z
<1>2. IsFiniteSet({a}) BY FS_Singleton
<1>3. SumFunctionOnSet(z, {a}) = z[a] + SumFunctionOnSet(z, {a} \ {a})
  BY <1>1, <1>2, SumRemove
<1>4. {a} \ {a} = {} OBVIOUS
<1>5. SumFunctionOnSet(z, {}) = 0 BY <1>2, SumUnfolds
<1>6. IsCount(z) /\ SumFunction(z) = 1 /\ Val(z, a) = 1
  BY <1>1, <1>2, <1>3, <1>4, <1>5 DEF IsCount, SumFunction, Val
<1> QED BY <1>6 DEF z

\* Terms that are no larger.
LEMMA SumLess ==
  ASSUME NEW f, NEW g, IsCount(f), IsCount(g), \A x \in DOMAIN f : f[x] <= Val(g, x)
  PROVE  SumFunction(f) <= SumFunction(g)
<1> DEFINE z == [x \in {} |-> 0]
<1>1. IsCount(z) /\ SumFunction(z) = 0 /\ \A x : Val(z, x) = 0 BY NoSum
<1> HIDE DEF z
<1>2. \A x \in DOMAIN f : f[x] <= Val(g, x) + Val(z, x)
  <2>1. \A x : Val(g, x) \in Nat BY DEF Val, IsCount
  <2>2. \A x \in DOMAIN f : f[x] \in Nat BY DEF IsCount
  <2> QED BY <1>1, <2>1, <2>2
<1>3. SumFunction(f) <= SumFunction(g) + SumFunction(z) BY <1>1, <1>2, SumSplit
<1>4. SumFunction(g) \in Nat /\ SumFunction(f) \in Nat BY SumNat
<1> QED BY <1>1, <1>3, <1>4

\* A reading in which counters stand still, restart or are gone accrues no more.
LEMMA AccrueLess ==
  ASSUME NEW r, NEW q, NEW p, IsCount(r), IsCount(q), IsCount(p),
         \A x \in DOMAIN q : q[x] = 0 \/ (x \in DOMAIN r /\ q[x] = r[x])
  PROVE  Accrue(q, p) <= Accrue(r, p) /\ SumFunction(q) <= SumFunction(r)
<1>1. ASSUME NEW x \in DOMAIN q \cap DOMAIN p
      PROVE  Contributions(q, p)[x] <= Val(Contributions(r, p), x)
  <2>1. q[x] \in Nat /\ p[x] \in Nat BY DEF IsCount
  <2>2. Val(Contributions(r, p), x) \in Nat BY ContributionsCount DEF Val, IsCount
  <2>3. Contributions(q, p)[x] = Contribution(p[x], q[x]) BY ContributionsCount
  <2>4. CASE q[x] = 0
    <3>1. Contribution(p[x], 0) = 0 BY <2>1, ContributionFacts
    <3> QED BY <2>2, <2>3, <2>4, <3>1
  <2>5. CASE x \in DOMAIN r /\ q[x] = r[x]
    <3>1. Val(Contributions(r, p), x) = Contribution(p[x], r[x])
      BY <2>5, ContributionsCount DEF Val
    <3>2. Contribution(p[x], q[x]) \in Nat BY <2>1, ContributionFacts
    <3> QED BY <2>3, <2>5, <3>1, <3>2
  <2> QED BY <2>4, <2>5
<1>2. Accrue(q, p) <= Accrue(r, p) BY <1>1, ContributionsCount, SumLess DEF Accrue
<1>3. \A x \in DOMAIN q : q[x] <= Val(r, x)
  <2>1. \A x \in DOMAIN q : q[x] \in Nat BY DEF IsCount
  <2>2. \A x : Val(r, x) \in Nat BY DEF IsCount, Val
  <2> QED BY <2>1, <2>2 DEF Val
<1> QED BY <1>2, <1>3, SumLess

\* One byte more accrues at most one byte more.
LEMMA AccrueMoved ==
  ASSUME NEW r, NEW q, NEW p, NEW a \in DOMAIN r, IsCount(r), IsCount(q), IsCount(p),
         DOMAIN q = DOMAIN r, \A x \in DOMAIN r : q[x] = IF x = a THEN r[x] + 1 ELSE r[x]
  PROVE  Accrue(q, p) <= Accrue(r, p) + 1 /\ SumFunction(q) <= SumFunction(r) + 1
<1> DEFINE z == [x \in {a} |-> 1]
<1>1. IsCount(z) /\ SumFunction(z) = 1 /\ Val(z, a) = 1 BY OneSum
<1> HIDE DEF z
<1>2. ASSUME NEW x \in DOMAIN q \cap DOMAIN p
      PROVE  Contributions(q, p)[x] <= Val(Contributions(r, p), x) + Val(z, x)
  <2>1. r[x] \in Nat /\ p[x] \in Nat BY DEF IsCount
  <2>2. Val(z, x) \in Nat BY <1>1 DEF Val, IsCount
  <2>3. Contributions(q, p)[x] = Contribution(p[x], q[x]) BY ContributionsCount
  <2>4. Val(Contributions(r, p), x) = Contribution(p[x], r[x]) BY ContributionsCount DEF Val
  <2>5. /\ Contribution(p[x], r[x]) \in Nat
        /\ Contribution(p[x], r[x] + 1) <= Contribution(p[x], r[x]) + 1
    BY <2>1, ContributionFacts
  <2>6. CASE x = a BY <1>1, <2>3, <2>4, <2>5, <2>6
  <2>7. CASE x # a BY <2>2, <2>3, <2>4, <2>5, <2>7
  <2> QED BY <2>6, <2>7
<1>3. Accrue(q, p) <= Accrue(r, p) + SumFunction(z)
  BY <1>1, <1>2, ContributionsCount, SumSplit DEF Accrue
<1>4. ASSUME NEW x \in DOMAIN q PROVE q[x] <= Val(r, x) + Val(z, x)
  <2>1. r[x] \in Nat /\ Val(z, x) \in Nat BY <1>1 DEF IsCount, Val
  <2> QED BY <1>1, <2>1 DEF Val
<1>5. SumFunction(q) <= SumFunction(r) + SumFunction(z) BY <1>1, <1>4, SumSplit
<1> QED BY <1>1, <1>3, <1>5

\* What is counted in two readings is never less than in one.
LEMMA AccrueTwice ==
  ASSUME NEW e, NEW r, NEW p, NEW s, NEW u, IsCount(e), IsCount(r), IsCount(p),
         IsCount(s), IsCount(u),
         DOMAIN u = DOMAIN s \cup DOMAIN r,
         \A x \in DOMAIN u : u[x] = IF x \in DOMAIN r THEN r[x] ELSE s[x],
         DOMAIN p = DOMAIN s \cap DOMAIN r, \A x \in DOMAIN p : p[x] = s[x]
  PROVE  Accrue(e, s) <= Accrue(r, p) + Accrue(e, u)
<1>1. ASSUME NEW x \in DOMAIN e \cap DOMAIN s
      PROVE  Contributions(e, s)[x] <= Val(Contributions(r, p), x) + Val(Contributions(e, u), x)
  <2>1. e[x] \in Nat /\ s[x] \in Nat BY DEF IsCount
  <2>2. Contributions(e, s)[x] = Contribution(s[x], e[x]) BY ContributionsVal
  <2>0. x \in DOMAIN e \cap DOMAIN u OBVIOUS
  <2>3. Val(Contributions(e, u), x) = Contribution(u[x], e[x])
    BY <2>0, ContributionsVal
  <2>4. CASE x \in DOMAIN r
    <3>0. x \in DOMAIN r \cap DOMAIN p BY <2>4
    <3>1. r[x] \in Nat /\ p[x] = s[x] /\ u[x] = r[x] BY <2>0, <3>0 DEF IsCount
    <3>2. Val(Contributions(r, p), x) = Contribution(p[x], r[x]) BY <3>0, ContributionsVal
    <3>3. Contribution(s[x], e[x]) <= Contribution(s[x], r[x]) + Contribution(r[x], e[x])
      BY <2>1, <3>1, ContributionFacts
    <3> QED BY <2>2, <2>3, <3>1, <3>2, <3>3
  <2>5. CASE x \notin DOMAIN r
    <3>1. u[x] = s[x] BY <2>5
    <3>2. Val(Contributions(r, p), x) = 0 BY <2>5, ContributionsVal
    <3>3. Contribution(s[x], e[x]) \in Nat BY <2>1, ContributionFacts
    <3> QED BY <2>2, <2>3, <3>1, <3>2, <3>3
  <2> QED BY <2>4, <2>5
<1> QED BY <1>1, ContributionsCount, SumSplit DEF Accrue

\* Fewer priors, or the same reading again, accrue no more.
LEMMA AccrueNarrow ==
  ASSUME NEW e, NEW s, NEW p, IsCount(e), IsCount(s), IsCount(p),
         \A x \in DOMAIN p : (x \in DOMAIN s /\ p[x] = s[x]) \/ (x \in DOMAIN e => p[x] = e[x])
  PROVE  Accrue(e, p) <= Accrue(e, s)
<1>1. ASSUME NEW x \in DOMAIN e \cap DOMAIN p
      PROVE  Contributions(e, p)[x] <= Val(Contributions(e, s), x)
  <2>1. e[x] \in Nat /\ p[x] \in Nat BY DEF IsCount
  <2>2. Contributions(e, p)[x] = Contribution(p[x], e[x]) BY ContributionsCount
  <2>3. Val(Contributions(e, s), x) \in Nat BY ContributionsCount DEF Val, IsCount
  <2>4. CASE p[x] = e[x]
    <3>1. Contribution(e[x], e[x]) = 0 BY <2>1, ContributionFacts
    <3> QED BY <2>2, <2>3, <2>4, <3>1
  <2>5. CASE x \in DOMAIN s /\ p[x] = s[x]
    <3>1. Val(Contributions(e, s), x) = Contribution(s[x], e[x])
      BY <2>5, ContributionsCount DEF Val
    <3>2. Contribution(s[x], e[x]) \in Nat BY <2>1, <2>5, ContributionFacts DEF IsCount
    <3> QED BY <2>2, <2>5, <3>1, <3>2
  <2> QED BY <2>4, <2>5
<1> QED BY <1>1, ContributionsCount, SumLess DEF Accrue

----------------------------------------------------------------------------
(* What may still be banked, as torrents move and views are written.        *)

LEMMA AccrueZero ==
  ASSUME NEW e, NEW u, IsCount(e), IsCount(u), \A x \in DOMAIN e \cap DOMAIN u : u[x] = e[x]
  PROVE  Accrue(e, u) = 0
<1> DEFINE z == [x \in {} |-> 0]
<1>1. IsCount(z) /\ SumFunction(z) = 0 /\ \A x : Val(z, x) = 0 BY NoSum
<1> HIDE DEF z
<1>2. ASSUME NEW x \in DOMAIN Contributions(e, u) PROVE Contributions(e, u)[x] <= Val(z, x)
  <2>1. x \in DOMAIN e \cap DOMAIN u BY ContributionsCount
  <2>2. Contributions(e, u)[x] = Contribution(u[x], e[x]) BY <2>1, ContributionsVal
  <2>3. u[x] = e[x] /\ e[x] \in Nat BY <2>1 DEF IsCount
  <2>4. Contribution(e[x], e[x]) = 0 BY <2>3, ContributionFacts
  <2> QED BY <1>1, <2>2, <2>3, <2>4
<1>3. SumFunction(Contributions(e, u)) <= SumFunction(z)
  <2>1. IsCount(Contributions(e, u)) BY ContributionsCount
  <2> QED BY <1>1, <1>2, <2>1, SumLess
<1>4. Accrue(e, u) \in Nat BY ContributionsCount
<1> QED BY <1>1, <1>3, <1>4 DEF Accrue

LEMMA AccrueNat ==
  ASSUME NEW e \in Tables(Reading), NEW s \in Tables(Reading)
  PROVE  Accrue(Down(e), Down(s)) \in Nat
BY DownCounts, ContributionsCount

LEMMA ToBankNat ==
  ASSUME NEW e \in Tables(Reading), NEW s \in Tables(Reading),
         NEW r \in Tables(Reading), NEW p \in Tables(Reading), NEW pc
  PROVE  ToBank(pc, e, s, r, p) \in Nat
<1>1. Upserted(s, r) \in Tables(Reading) BY UpsertTable
<1> QED BY <1>1, AccrueNat DEF ToBank

\* Counters stand still, restart or are gone.
LEMMA ToBankLess ==
  ASSUME NEW e \in Tables(Reading), NEW f \in Tables(Reading), NEW s \in Tables(Reading),
         NEW r \in Tables(Reading), NEW p \in Tables(Reading), NEW pc,
         \A h \in DOMAIN f : f[h].down = 0 \/ (h \in DOMAIN e /\ f[h].down = e[h].down)
  PROVE  /\ ToBank(pc, f, s, r, p) <= ToBank(pc, e, s, r, p)
         /\ SumOf(Down(f)) <= SumOf(Down(e))
<1>1. Upserted(s, r) \in Tables(Reading) BY UpsertTable
<1>2. ASSUME NEW t \in Tables(Reading)
      PROVE  Accrue(Down(f), Down(t)) <= Accrue(Down(e), Down(t)) /\ SumOf(Down(f)) <= SumOf(Down(e))
  <2>1. IsCount(Down(f)) /\ IsCount(Down(e)) /\ IsCount(Down(t)) BY DownCounts
  <2>2. \A x \in DOMAIN Down(f) :
          Down(f)[x] = 0 \/ (x \in DOMAIN Down(e) /\ Down(f)[x] = Down(e)[x])
    BY DownCounts
  <2> QED BY <2>1, <2>2, AccrueLess DEF SumOf
<1>3. /\ Accrue(Down(r), Down(p)) \in Nat
      /\ Accrue(Down(e), Down(Upserted(s, r))) \in Nat /\ Accrue(Down(e), Down(s)) \in Nat
      /\ Accrue(Down(f), Down(Upserted(s, r))) \in Nat /\ Accrue(Down(f), Down(s)) \in Nat
  BY <1>1, AccrueNat
<1>4. /\ Accrue(Down(f), Down(s)) <= Accrue(Down(e), Down(s))
      /\ Accrue(Down(f), Down(Upserted(s, r))) <= Accrue(Down(e), Down(Upserted(s, r)))
      /\ SumOf(Down(f)) <= SumOf(Down(e))
  BY <1>1, <1>2
<1> QED BY <1>3, <1>4 DEF ToBank

\* One torrent moves a byte.
LEMMA ToBankMoved ==
  ASSUME NEW e \in Tables(Reading), NEW f \in Tables(Reading), NEW s \in Tables(Reading),
         NEW r \in Tables(Reading), NEW p \in Tables(Reading), NEW pc,
         NEW a \in DOMAIN e, DOMAIN f = DOMAIN e,
         \A h \in DOMAIN e : f[h].down = IF h = a THEN e[h].down + 1 ELSE e[h].down
  PROVE  /\ ToBank(pc, f, s, r, p) <= ToBank(pc, e, s, r, p) + 1
         /\ SumOf(Down(f)) <= SumOf(Down(e)) + 1
<1>1. Upserted(s, r) \in Tables(Reading) BY UpsertTable
<1>2. ASSUME NEW t \in Tables(Reading)
      PROVE  /\ Accrue(Down(f), Down(t)) <= Accrue(Down(e), Down(t)) + 1
             /\ SumOf(Down(f)) <= SumOf(Down(e)) + 1
  <2>1. IsCount(Down(f)) /\ IsCount(Down(e)) /\ IsCount(Down(t)) BY DownCounts
  <2>2. /\ DOMAIN Down(f) = DOMAIN Down(e) /\ a \in DOMAIN Down(e)
        /\ \A x \in DOMAIN Down(e) :
             Down(f)[x] = IF x = a THEN Down(e)[x] + 1 ELSE Down(e)[x]
    BY DownCounts
  <2> QED BY <2>1, <2>2, AccrueMoved DEF SumOf
<1>3. /\ Accrue(Down(r), Down(p)) \in Nat
      /\ Accrue(Down(e), Down(Upserted(s, r))) \in Nat /\ Accrue(Down(e), Down(s)) \in Nat
      /\ Accrue(Down(f), Down(Upserted(s, r))) \in Nat /\ Accrue(Down(f), Down(s)) \in Nat
  BY <1>1, AccrueNat
<1>4. /\ Accrue(Down(f), Down(s)) <= Accrue(Down(e), Down(s)) + 1
      /\ Accrue(Down(f), Down(Upserted(s, r))) <= Accrue(Down(e), Down(Upserted(s, r))) + 1
      /\ SumOf(Down(f)) <= SumOf(Down(e)) + 1
  BY <1>1, <1>2
<1> QED BY <1>3, <1>4 DEF ToBank

\* The listing is taken: what it is ahead of the snapshots by was pending before.
LEMMA ToBankListed ==
  ASSUME NEW e \in Tables(Reading), NEW s \in Tables(Reading)
  PROVE  ToBank("persistSnapshots", e, s, e, Restrict(s, DOMAIN s \cap DOMAIN e))
           <= Accrue(Down(e), Down(s))
<1> DEFINE p == Restrict(s, DOMAIN s \cap DOMAIN e)
           u == Upserted(s, e)
<1>1. p \in Tables(Reading) /\ u \in Tables(Reading) BY RestrictTable, UpsertTable
<1>2. \A h \in DOMAIN p : h \in DOMAIN s /\ p[h] = s[h] BY DEF Restrict
<1>3. \A h \in DOMAIN e : h \in DOMAIN u /\ u[h] = e[h] BY DEF Upserted
<1> HIDE DEF p, u
<1>4. IsCount(Down(e)) /\ IsCount(Down(s)) /\ IsCount(Down(p)) /\ IsCount(Down(u))
  BY <1>1, DownCounts
<1>5. Accrue(Down(e), Down(u)) = 0
  <2>1. \A x \in DOMAIN Down(e) \cap DOMAIN Down(u) : Down(u)[x] = Down(e)[x]
    BY <1>1, <1>3, DownCounts
  <2> QED BY <1>4, <2>1, AccrueZero
<1>6. Accrue(Down(e), Down(p)) <= Accrue(Down(e), Down(s))
  <2>1. \A x \in DOMAIN Down(p) : x \in DOMAIN Down(s) /\ Down(p)[x] = Down(s)[x]
    BY <1>1, <1>2, DownCounts
  <2> QED BY <1>4, <2>1, AccrueNarrow
<1>7. Accrue(Down(e), Down(p)) \in Nat BY <1>1, AccrueNat
<1>8. ToBank("persistSnapshots", e, s, e, p) = Accrue(Down(e), Down(p)) + Accrue(Down(e), Down(u))
  BY DEF ToBank, u
<1>9. ToBank("persistSnapshots", e, s, e, p) <= Accrue(Down(e), Down(s)) BY <1>5, <1>6, <1>7, <1>8
<1> QED BY <1>9 DEF p

\* The listing is dropped: the next one accrues no more than both would have.
LEMMA ToBankDropped ==
  ASSUME NEW e \in Tables(Reading), NEW s \in Tables(Reading), NEW r \in Tables(Reading)
  PROVE  Accrue(Down(e), Down(s))
           <= ToBank("persistSnapshots", e, s, r, Restrict(s, DOMAIN s \cap DOMAIN r))
<1> DEFINE p == Restrict(s, DOMAIN s \cap DOMAIN r)
           u == Upserted(s, r)
<1>1. p \in Tables(Reading) /\ u \in Tables(Reading) BY RestrictTable, UpsertTable
<1>2. DOMAIN p = DOMAIN s \cap DOMAIN r /\ \A h \in DOMAIN p : p[h] = s[h] BY DEF Restrict
<1>3. /\ DOMAIN u = DOMAIN s \cup DOMAIN r
      /\ \A h \in DOMAIN u : u[h] = IF h \in DOMAIN r THEN r[h] ELSE s[h]
  BY DEF Upserted
<1> HIDE DEF p, u
<1>4. /\ IsCount(Down(e)) /\ IsCount(Down(s)) /\ IsCount(Down(p)) /\ IsCount(Down(u))
      /\ IsCount(Down(r))
  BY <1>1, DownCounts
<1>5. /\ DOMAIN Down(u) = DOMAIN Down(s) \cup DOMAIN Down(r)
      /\ DOMAIN Down(p) = DOMAIN Down(s) \cap DOMAIN Down(r)
  BY <1>1, <1>2, <1>3, DownCounts
<1>6. \A x \in DOMAIN Down(u) :
        Down(u)[x] = IF x \in DOMAIN Down(r) THEN Down(r)[x] ELSE Down(s)[x]
  BY <1>1, <1>3, DownCounts
<1>7. \A x \in DOMAIN Down(p) : Down(p)[x] = Down(s)[x] BY <1>1, <1>2, DownCounts
<1>8. Accrue(Down(e), Down(s)) <= Accrue(Down(r), Down(p)) + Accrue(Down(e), Down(u))
  BY <1>4, <1>5, <1>6, <1>7, AccrueTwice
<1> QED BY <1>8 DEF ToBank, p, u

\* Snapshots go.
LEMMA AccrueRestricted ==
  ASSUME NEW e \in Tables(Reading), NEW s \in Tables(Reading), NEW D \in SUBSET DOMAIN s
  PROVE  Accrue(Down(e), Down(Restrict(s, D))) <= Accrue(Down(e), Down(s))
<1> DEFINE p == Restrict(s, D)
<1>1. p \in Tables(Reading) BY RestrictTable
<1>2. \A h \in DOMAIN p : h \in DOMAIN s /\ p[h] = s[h] BY DEF Restrict
<1> HIDE DEF p
<1>3. IsCount(Down(e)) /\ IsCount(Down(s)) /\ IsCount(Down(p)) BY <1>1, DownCounts
<1>4. \A x \in DOMAIN Down(p) : x \in DOMAIN Down(s) /\ Down(p)[x] = Down(s)[x]
  BY <1>1, <1>2, DownCounts
<1>5. Accrue(Down(e), Down(p)) <= Accrue(Down(e), Down(s)) BY <1>3, <1>4, AccrueNarrow
<1> QED BY <1>5 DEF p

----------------------------------------------------------------------------
(* The books balance.                                                       *)

Books == SyncInv /\ LedgerTyped /\ Balance

LEMMA SyncTables ==
  ASSUME SyncInv
  PROVE  /\ engine \in Tables(Reading) /\ snap \in Tables(Reading)
         /\ tick.readings \in Tables(Reading) /\ tick.prior \in Tables(Reading)
         /\ IsTick(tick)
BY DEF SyncInv, SyncTyped, IsTick

\* A row, the bytes moved and the slack, as numbers.
Balanced(row, u, p, m, k, t, e) ==
  /\ e <= m
  /\ row.accrued + u <= m
  /\ row.baseline <= m
  /\ row.seeded => row.baseline + row.accrued + u <= m + k
  /\ ~row.seeded => row.baseline = 0 /\ k = 0
  /\ t.pc \in {"seedValues", "writeBaseline"} => ~row.seeded
  /\ t.pc = "writeBaseline" => t.seed <= m /\ t.seed + row.accrued + p <= m + t.repeats

LEMMA BalanceIs ==
  Balance <=> Balanced(ledger, Unbanked, Pending, moved, slack, tick, SumOf(Down(engine)))
BY DEF Balance, Balanced

\* The engine moves d bytes.
LEMMA BalancedMoves ==
  ASSUME NEW row \in LedgerRow, NEW u \in Nat, NEW p \in Nat, NEW m \in Nat, NEW k \in Nat, NEW t,
         NEW e \in Nat, t.seed \in Nat, t.repeats \in Nat,
         Balanced(row, u, p, m, k, t, e),
         NEW d \in Nat, NEW u1 \in Nat, NEW p1 \in Nat, NEW e1 \in Nat,
         u1 <= u + d, p1 <= p + d, e1 <= e + d
  PROVE  Balanced(row, u1, p1, m + d, k, t, e1)
BY DEF Balanced, LedgerRow

\* The tick goes on, and no more may be banked than before.
LEMMA BalancedTicks ==
  ASSUME NEW row \in LedgerRow, NEW u \in Nat, NEW p, NEW m \in Nat, NEW k \in Nat, NEW t,
         NEW e, Balanced(row, u, p, m, k, t, e),
         NEW u1 \in Nat, NEW p1, NEW t1, u1 <= u,
         t1.pc # "writeBaseline", t1.pc = "seedValues" => ~row.seeded
  PROVE  Balanced(row, u1, p1, m, k, t1, e)
BY DEF Balanced, LedgerRow

LEMMA EngineTurns ==
  ASSUME Books, SyncInv', UNCHANGED <<ledger, slack, tick>>, UNCHANGED snap,
         NEW d \in Nat, moved' = moved + d,
         \A pc : ToBank(pc, engine', snap, tick.readings, tick.prior)
                   <= ToBank(pc, engine, snap, tick.readings, tick.prior) + d,
         SumOf(Down(engine')) <= SumOf(Down(engine)) + d
  PROVE  Books'
<1>1. /\ engine \in Tables(Reading) /\ snap \in Tables(Reading)
      /\ tick.readings \in Tables(Reading) /\ tick.prior \in Tables(Reading)
  BY SyncTables DEF Books
<1>2. engine' \in Tables(Reading) BY DEF SyncInv, SyncTyped
<1>3. /\ ledger \in LedgerRow /\ moved \in Nat /\ slack \in Nat
      /\ tick.seed \in Nat /\ tick.repeats \in Nat
  BY DEF Books, LedgerTyped
<1>4. SumOf(Down(engine)) \in Nat /\ SumOf(Down(engine')) \in Nat
  BY <1>1, <1>2, DownCounts, SumNat DEF SumOf
<1>5. Unbanked \in Nat /\ Unbanked' \in Nat /\ Unbanked' <= Unbanked + d
  <2>1. Unbanked' = ToBank(tick.pc, engine', snap, tick.readings, tick.prior) BY DEF Unbanked
  <2> QED BY <1>1, <1>2, <2>1, ToBankNat DEF Unbanked
<1>6. Pending \in Nat /\ Pending' \in Nat /\ Pending' <= Pending + d
  <2>1. Pending = ToBank("idle", engine, snap, tick.readings, tick.prior) BY DEF Pending, ToBank
  <2>2. Pending' = ToBank("idle", engine', snap, tick.readings, tick.prior) BY DEF Pending, ToBank
  <2> QED BY <1>1, <1>2, <2>1, <2>2, ToBankNat
<1>7. Balanced(ledger, Unbanked, Pending, moved, slack, tick, SumOf(Down(engine)))
  BY BalanceIs DEF Books
<1>8. Balanced(ledger, Unbanked', Pending', moved + d, slack, tick, SumOf(Down(engine')))
  BY <1>3, <1>4, <1>5, <1>6, <1>7, BalancedMoves
<1>9. Balance' BY <1>8 DEF Balance, Balanced
<1>10. LedgerTyped' BY <1>3 DEF LedgerTyped
<1> QED BY <1>9, <1>10 DEF Books

LEMMA TickGoesOn ==
  ASSUME Books, SyncInv', UNCHANGED <<engine, moved, ledger, slack>>,
         ToBank(tick'.pc, engine, snap', tick'.readings, tick'.prior) <= Unbanked,
         tick'.seed \in Nat, tick'.repeats \in Nat,
         tick'.pc # "writeBaseline", tick'.pc = "seedValues" => ~ledger.seeded
  PROVE  Books'
<1>1. engine \in Tables(Reading) /\ snap \in Tables(Reading)
      /\ tick.readings \in Tables(Reading) /\ tick.prior \in Tables(Reading)
  BY SyncTables DEF Books
<1>2. /\ snap' \in Tables(Reading)
      /\ tick'.readings \in Tables(Reading) /\ tick'.prior \in Tables(Reading)
  BY DEF SyncInv, SyncTyped, IsTick
<1>3. ledger \in LedgerRow /\ moved \in Nat /\ slack \in Nat BY DEF Books, LedgerTyped
<1>4. Unbanked \in Nat /\ Unbanked' \in Nat /\ Unbanked' <= Unbanked
  BY <1>1, <1>2, ToBankNat DEF Unbanked
<1>5. Balanced(ledger, Unbanked, Pending, moved, slack, tick, SumOf(Down(engine)))
  BY BalanceIs DEF Books
<1>6. Balanced(ledger, Unbanked', Pending', moved, slack, tick', SumOf(Down(engine)))
  BY <1>3, <1>4, <1>5, BalancedTicks
<1>7. Balance' BY <1>6 DEF Balance, Balanced
<1>8. LedgerTyped' BY <1>3 DEF LedgerTyped
<1> QED BY <1>7, <1>8 DEF Books

\* The tick goes on without touching the snapshots, or ends.
LEMMA TickPasses ==
  ASSUME Books, SyncInv', UNCHANGED <<engine, moved, ledger, slack, snap>>,
         tick'.pc \notin {"persistSnapshots", "writeBaseline"},
         tick'.seed \in Nat, tick'.repeats \in Nat,
         tick'.pc = "seedValues" => ~ledger.seeded
  PROVE  Books'
<1>1. /\ engine \in Tables(Reading) /\ snap \in Tables(Reading)
      /\ tick.readings \in Tables(Reading) /\ tick.prior \in Tables(Reading)
  BY SyncTables DEF Books
<1>2. ToBank(tick'.pc, engine, snap', tick'.readings, tick'.prior) = Accrue(Down(engine), Down(snap))
  BY DEF ToBank
<1>3. Accrue(Down(engine), Down(snap)) <= Unbanked
  <2>1. CASE tick.pc = "persistSnapshots"
    <3>1. tick.prior = Restrict(snap, DOMAIN snap \cap DOMAIN tick.readings)
      BY <2>1 DEF Books, SyncInv, ViewsAgree, PriorSnapshots
    <3>2. Accrue(Down(engine), Down(snap))
            <= ToBank("persistSnapshots", engine, snap, tick.readings, tick.prior)
      BY <1>1, <3>1, ToBankDropped
    <3> QED BY <2>1, <3>2 DEF Unbanked
  <2>2. CASE tick.pc # "persistSnapshots"
    <3>1. Unbanked = Accrue(Down(engine), Down(snap)) BY <2>2 DEF Unbanked, ToBank
    <3> QED BY <1>1, <3>1, AccrueNat
  <2> QED BY <2>1, <2>2
<1> QED BY <1>2, <1>3, TickGoesOn

LEMMA IdleBooks ==
  ASSUME Books, SyncInv', UNCHANGED <<engine, moved, ledger, slack, snap>>, tick' = Idle
  PROVE  Books'
<1>1. tick'.pc = "idle" /\ tick'.seed = 0 /\ tick'.repeats = 0 BY DEF Idle
<1> QED BY <1>1, TickPasses

LEMMA MoveBooks ==
  ASSUME Books, SyncInv', NEW h \in Torrents, Move(h) PROVE Books'
<1>1. /\ UNCHANGED <<ledger, slack, tick, snap>> /\ moved' = moved + 1 /\ h \in DOMAIN engine
      /\ engine' = [engine EXCEPT ![h].down = @ + 1]
  BY DEF Move, db, hist
<1>2. /\ engine \in Tables(Reading) /\ snap \in Tables(Reading)
      /\ tick.readings \in Tables(Reading) /\ tick.prior \in Tables(Reading)
  BY SyncTables DEF Books
<1>3. engine' \in Tables(Reading) BY DEF SyncInv, SyncTyped
<1>4. DOMAIN engine' = DOMAIN engine BY <1>1
<1>5. \A g \in DOMAIN engine : engine'[g].down = IF g = h THEN engine[g].down + 1 ELSE engine[g].down
  <2>1. engine[h] \in Reading BY <1>1, <1>2, TableIs
  <2> QED BY <1>1, <2>1 DEF Reading
<1>6. ASSUME NEW pc PROVE /\ ToBank(pc, engine', snap, tick.readings, tick.prior)
                               <= ToBank(pc, engine, snap, tick.readings, tick.prior) + 1
                          /\ SumOf(Down(engine')) <= SumOf(Down(engine)) + 1
  BY <1>1, <1>2, <1>3, <1>4, <1>5, ToBankMoved
<1> QED BY <1>1, <1>6, EngineTurns

\* Counters stand still, restart or are gone.
LEMMA StandBooks ==
  ASSUME Books, SyncInv', UNCHANGED <<ledger, slack, tick, snap, moved>>,
         \A h \in DOMAIN engine' :
           engine'[h].down = 0 \/ (h \in DOMAIN engine /\ engine'[h].down = engine[h].down)
  PROVE  Books'
<1>1. /\ engine \in Tables(Reading) /\ snap \in Tables(Reading)
      /\ tick.readings \in Tables(Reading) /\ tick.prior \in Tables(Reading)
  BY SyncTables DEF Books
<1>2. engine' \in Tables(Reading) BY DEF SyncInv, SyncTyped
<1>3. moved \in Nat BY DEF Books, LedgerTyped
<1>4. moved' = moved + 0 BY <1>3
<1>5. ASSUME NEW pc PROVE /\ ToBank(pc, engine', snap, tick.readings, tick.prior)
                               <= ToBank(pc, engine, snap, tick.readings, tick.prior) + 0
                          /\ SumOf(Down(engine')) <= SumOf(Down(engine)) + 0
  <2>1. /\ ToBank(pc, engine', snap, tick.readings, tick.prior)
             <= ToBank(pc, engine, snap, tick.readings, tick.prior)
        /\ SumOf(Down(engine')) <= SumOf(Down(engine))
    BY <1>1, <1>2, ToBankLess
  <2>2. ToBank(pc, engine, snap, tick.readings, tick.prior) \in Nat BY <1>1, ToBankNat
  <2>3. SumOf(Down(engine)) \in Nat BY <1>1, DownCounts, SumNat DEF SumOf
  <2> QED BY <2>1, <2>2, <2>3
<1> QED BY <1>4, <1>5, EngineTurns

LEMMA EngineBooks ==
  ASSUME Books, SyncInv', NEW h \in Torrents,
         Complete(h) \/ Recheck(h) \/ AddTorrent(h) \/ RemoveTorrent(h)
  PROVE  Books'
<1>1. UNCHANGED <<ledger, slack, tick, snap, moved>>
  BY DEF Complete, Recheck, AddTorrent, RemoveTorrent, db, hist
<1>2. engine \in Tables(Reading) BY SyncTables DEF Books
<1>3. \A g \in DOMAIN engine' :
        engine'[g].down = 0 \/ (g \in DOMAIN engine /\ engine'[g].down = engine[g].down)
  <2>1. CASE Complete(h)
    <3>1. engine' = [engine EXCEPT ![h].done = TRUE] /\ h \in DOMAIN engine BY <2>1 DEF Complete
    <3>2. engine[h] \in Reading BY <1>2, <3>1, TableIs
    <3> QED BY <3>1, <3>2 DEF Reading
  <2>2. CASE Recheck(h) BY <2>2 DEF Recheck
  <2>3. CASE AddTorrent(h) BY <2>3 DEF AddTorrent, Upserted
  <2>4. CASE RemoveTorrent(h) BY <2>4 DEF RemoveTorrent, Restrict
  <2> QED BY <2>1, <2>2, <2>3, <2>4
<1> QED BY <1>1, <1>3, StandBooks

LEMMA StartTickBooks == ASSUME Books, SyncInv', StartTick PROVE Books'
<1>1. UNCHANGED <<engine, moved, ledger, slack, snap>> BY DEF StartTick, env, db, hist
<1>2. IsTick(tick) /\ tick.seed \in Nat /\ tick.repeats \in Nat BY SyncTables DEF Books, LedgerTyped
<1>3. /\ tick' = [tick EXCEPT !.pc = IF baselined' THEN "listTorrents" ELSE "seedValues"]
      /\ baselined' = (baselined \/ ledger.seeded)
  BY DEF StartTick, Goto
<1>4. tick'.pc = (IF baselined' THEN "listTorrents" ELSE "seedValues")
      /\ tick'.seed = tick.seed /\ tick'.repeats = tick.repeats
  BY <1>2, <1>3 DEF IsTick
<1>5. tick'.pc = "seedValues" => ~ledger.seeded
  <2> SUFFICES ASSUME ledger.seeded PROVE tick'.pc = "listTorrents" BY <1>4
  <2>1. baselined' BY <1>3, Zenon
  <2> QED BY <1>4, <2>1, Zenon
<1> QED BY <1>1, <1>2, <1>4, <1>5, TickPasses

\* The seed is at most what moved, and repeats what was already watched.
LEMMA SeedBooks == ASSUME Books, SyncInv', SeedValues PROVE Books'
<1>1. UNCHANGED <<engine, moved, ledger, slack, snap>> /\ tick.pc = "seedValues"
  BY DEF SeedValues, env, db, hist, At
<1>2. IsTick(tick) /\ tick.seed \in Nat /\ tick.repeats \in Nat BY SyncTables DEF Books, LedgerTyped
<1>3. ASSUME Goto("listTorrents") PROVE Books'
  <2>1. tick' = [tick EXCEPT !.pc = "listTorrents"] BY <1>3 DEF Goto
  <2>2. tick'.pc = "listTorrents" /\ tick'.seed = tick.seed /\ tick'.repeats = tick.repeats
    BY <1>2, <2>1 DEF IsTick
  <2> QED BY <1>1, <1>2, <2>2, TickPasses
<1>4. ASSUME NEW v \in Nat, v <= moved, SeedFrom(v) PROVE Books'
  <2>1. tick' = [tick EXCEPT !.pc = "writeBaseline", !.seed = v, !.repeats = ledger.accrued + Pending]
    BY <1>4 DEF SeedFrom
  <2>2. /\ tick'.pc = "writeBaseline" /\ tick'.seed = v
        /\ tick'.repeats = ledger.accrued + Pending
    BY <1>2, <2>1 DEF IsTick
  <2>3. engine \in Tables(Reading) /\ snap \in Tables(Reading) BY SyncTables DEF Books
  <2>4. Pending \in Nat /\ Pending' = Pending BY <1>1, <2>3, AccrueNat DEF Pending
  <2>5. Unbanked' = Unbanked BY <1>1, <2>2 DEF Unbanked, ToBank
  <2>6. ledger.accrued \in Nat /\ moved \in Nat BY DEF Books, LedgerTyped, LedgerRow
  <2>7. LedgerTyped' BY <1>1, <2>2, <2>4, <2>6 DEF Books, LedgerTyped
  <2>8. ~ledger.seeded BY <1>1 DEF Books, Balance
  <2>9. v + ledger.accrued + Pending <= moved + (ledger.accrued + Pending)
    BY <1>4, <2>4, <2>6
  <2>10. Balance' BY <1>1, <1>4, <2>2, <2>4, <2>5, <2>8, <2>9 DEF Books, Balance
  <2> QED BY <2>7, <2>10 DEF Books
<1>5. moved \in Nat /\ SumOf(Down(engine)) \in Nat /\ SumOf(Down(engine)) <= moved
  <2>1. engine \in Tables(Reading) BY SyncTables DEF Books
  <2> QED BY <2>1, DownCounts, SumNat DEF SumOf, Books, LedgerTyped, Balance
<1>6. SeedFrom(moved) \/ SeedFrom(SumOf(Down(engine))) \/ Goto("listTorrents") BY DEF SeedValues
<1>7. SeedFrom(moved) => Books' BY <1>4, <1>5
<1>8. SeedFrom(SumOf(Down(engine))) => Books' BY <1>4, <1>5
<1> QED BY <1>3, <1>6, <1>7, <1>8

LEMMA WriteBooks == ASSUME Books, SyncInv', WriteBaseline PROVE Books'
<1>1. /\ UNCHANGED <<engine, moved, snap>> /\ tick.pc = "writeBaseline"
      /\ ledger' = [ledger EXCEPT !.baseline = tick.seed, !.seeded = TRUE]
      /\ slack' = tick.repeats /\ tick' = [Idle EXCEPT !.pc = "listTorrents"]
  BY DEF WriteBaseline, env, At, Seed
<1>2. tick'.pc = "listTorrents" /\ tick'.seed = 0 /\ tick'.repeats = 0 BY <1>1 DEF Idle
<1>3. /\ ledger \in LedgerRow /\ moved \in Nat /\ tick.seed \in Nat /\ tick.repeats \in Nat
  BY DEF Books, LedgerTyped
<1>4. /\ ledger' \in LedgerRow /\ ledger'.baseline = tick.seed /\ ledger'.seeded
      /\ ledger'.accrued = ledger.accrued
  BY <1>1, <1>3 DEF LedgerRow
<1>5. Unbanked = Pending BY <1>1 DEF Unbanked, ToBank, Pending
<1>6. Unbanked' = Unbanked BY <1>1, <1>2 DEF Unbanked, ToBank
<1>7. LedgerTyped' BY <1>1, <1>2, <1>3, <1>4 DEF LedgerTyped
<1>8. /\ tick.seed <= moved /\ tick.seed + ledger.accrued + Unbanked <= moved + tick.repeats
      /\ SumOf(Down(engine)) <= moved /\ ledger.accrued + Unbanked <= moved
  BY <1>1, <1>5 DEF Books, Balance
<1>9. Balance' BY <1>1, <1>2, <1>4, <1>6, <1>8 DEF Balance
<1> QED BY <1>7, <1>9 DEF Books

LEMMA ListBooks == ASSUME Books, SyncInv', ListTorrents PROVE Books'
<1>1. UNCHANGED <<engine, moved, ledger, slack, snap>> /\ tick.pc = "listTorrents"
  BY DEF ListTorrents, env, db, hist, At
<1>2. /\ IsTick(tick) /\ tick.seed \in Nat /\ tick.repeats \in Nat
      /\ engine \in Tables(Reading) /\ snap \in Tables(Reading)
  BY SyncTables DEF Books, LedgerTyped
<1>3. /\ tick'.pc = "persistSnapshots" /\ tick'.seed = tick.seed /\ tick'.repeats = tick.repeats
      /\ tick'.readings = engine
      /\ tick'.prior = Restrict(snap, DOMAIN snap \cap DOMAIN engine)
  BY <1>2 DEF ListTorrents, IsTick, PriorSnapshots
<1>4. Unbanked = Accrue(Down(engine), Down(snap)) BY <1>1 DEF Unbanked, ToBank
<1>5. ToBank(tick'.pc, engine, snap', tick'.readings, tick'.prior) <= Unbanked
  BY <1>1, <1>2, <1>3, <1>4, ToBankListed
<1> QED BY <1>1, <1>2, <1>3, <1>5, TickGoesOn

\* The accrual is banked in the transaction that writes the snapshots.
LEMMA PersistBooks == ASSUME Books, SyncInv', PersistSnapshots PROVE Books'
<1> DEFINE a == Accrue(Down(tick.readings), Down(tick.prior))
<1>1. /\ UNCHANGED <<engine, moved, slack>> /\ tick.pc = "persistSnapshots"
      /\ ledger' = [ledger EXCEPT !.accrued = @ + a]
      /\ snap' = Upserted(snap, tick.readings) /\ tick' = [tick EXCEPT !.pc = "prune"]
  BY DEF PersistSnapshots, env, hist, At, Goto, AccrualOperation
<1>2. /\ engine \in Tables(Reading) /\ snap' \in Tables(Reading)
      /\ tick.readings \in Tables(Reading) /\ tick.prior \in Tables(Reading)
      /\ IsTick(tick)
  BY SyncTables DEF Books, SyncInv, SyncTyped
<1>3. a \in Nat /\ Accrue(Down(engine), Down(snap')) \in Nat BY <1>2, AccrueNat
<1>4. Unbanked = a + Accrue(Down(engine), Down(snap')) BY <1>1 DEF Unbanked, ToBank
<1> HIDE DEF a
<1>5. tick'.pc = "prune" /\ tick'.seed = tick.seed /\ tick'.repeats = tick.repeats
  BY <1>1, <1>2 DEF IsTick
<1>6. Unbanked' = Accrue(Down(engine), Down(snap')) BY <1>1, <1>5 DEF Unbanked, ToBank
<1>7. /\ ledger \in LedgerRow /\ moved \in Nat /\ slack \in Nat
      /\ tick.seed \in Nat /\ tick.repeats \in Nat
  BY DEF Books, LedgerTyped
<1>8. /\ ledger' \in LedgerRow /\ ledger'.baseline = ledger.baseline
      /\ ledger'.seeded = ledger.seeded /\ ledger'.accrued = ledger.accrued + a
  BY <1>1, <1>3, <1>7 DEF LedgerRow
<1>9. LedgerTyped' BY <1>1, <1>5, <1>7, <1>8 DEF LedgerTyped
<1>10. ledger.accrued \in Nat /\ ledger.baseline \in Nat BY <1>7 DEF LedgerRow
<1>11. ledger'.accrued + Unbanked' = ledger.accrued + Unbanked
  BY <1>3, <1>4, <1>6, <1>8, <1>10
<1>12. ledger'.baseline + ledger'.accrued + Unbanked' = ledger.baseline + ledger.accrued + Unbanked
  BY <1>3, <1>4, <1>6, <1>8, <1>10
<1>13. Balance' BY <1>1, <1>5, <1>8, <1>11, <1>12 DEF Books, Balance
<1> QED BY <1>9, <1>13 DEF Books

LEMMA PruneBooks == ASSUME Books, SyncInv', Prune PROVE Books'
<1>1. /\ UNCHANGED <<engine, moved, ledger, slack>> /\ tick.pc = "prune"
      /\ snap' = Restrict(snap, DOMAIN tick.readings)
  BY DEF Prune, env, hist, At
<1>2. /\ IsTick(tick) /\ tick.seed \in Nat /\ tick.repeats \in Nat
      /\ engine \in Tables(Reading) /\ snap \in Tables(Reading)
  BY SyncTables DEF Books, LedgerTyped
<1>3. tick'.pc = "edges" /\ tick'.seed = tick.seed /\ tick'.repeats = tick.repeats
  BY <1>2 DEF Prune, IsTick
<1>4. DOMAIN tick.readings \subseteq DOMAIN snap BY <1>1 DEF Books, SyncInv, ViewsAgree
<1>5. Accrue(Down(engine), Down(snap')) <= Accrue(Down(engine), Down(snap))
  BY <1>1, <1>2, <1>4, AccrueRestricted
<1>6. Unbanked = Accrue(Down(engine), Down(snap)) BY <1>1 DEF Unbanked, ToBank
<1>7. ToBank(tick'.pc, engine, snap', tick'.readings, tick'.prior) <= Unbanked
  BY <1>3, <1>5, <1>6 DEF ToBank
<1> QED BY <1>1, <1>2, <1>3, <1>7, TickGoesOn

\* The rule runs, their log rows and the backfill leave the ledger alone.
LEMMA RuleBooks ==
  ASSUME Books, SyncInv',
         \/ LogRun \/ StartReconcile \/ \E h \in Torrents : FireEdge(h) \/ ReconcileCompleted(h)
  PROVE  Books'
<1>1. UNCHANGED <<engine, moved, ledger, slack, snap>>
  BY DEF LogRun, StartReconcile, FireEdge, ReconcileCompleted, env, db, hist
<1>2. IsTick(tick) /\ tick.seed \in Nat /\ tick.repeats \in Nat BY SyncTables DEF Books, LedgerTyped
<1>3. tick'.pc \in {"edges", "reconcile"} /\ tick'.seed \in Nat /\ tick'.repeats \in Nat
  <2>1. CASE LogRun
    <3>1. tick.pc \in {"edges", "reconcile"} BY <2>1 DEF LogRun, Books, SyncInv, ViewsAgree
    <3> QED BY <1>2, <2>1, <3>1 DEF LogRun, IsTick
  <2>2. CASE StartReconcile BY <2>2 DEF StartReconcile, Idle
  <2>3. ASSUME NEW h \in Torrents, FireEdge(h) \/ ReconcileCompleted(h)
        PROVE  tick'.pc \in {"edges", "reconcile"} /\ tick'.seed \in Nat /\ tick'.repeats \in Nat
    <3>1. tick.pc \in {"edges", "reconcile"} BY <2>3 DEF FireEdge, ReconcileCompleted, At
    <3>2. PICK R : tick' = [tick EXCEPT !.todo = @ \ {h}, !.ran = R] BY <2>3, RunEffect DEF Books
    <3> QED BY <1>2, <3>1, <3>2 DEF IsTick
  <2> QED BY <2>1, <2>2, <2>3
<1> QED BY <1>1, <1>3, TickPasses

LEMMA BooksStep == ASSUME Books, [Next]_vars PROVE Books'
<1>1. SyncInv' BY Step DEF Books
<1>2. CASE SyncStep
  <2>1. ASSUME \/ EndTick
               \/ \E p \in {"writeBaseline", "listTorrents", "persistSnapshots", "prune"} : Abort(p)
        PROVE  Books'
    <3>1. UNCHANGED <<engine, moved, ledger, slack, snap>> /\ tick' = Idle
      BY <2>1 DEF EndTick, Abort, env, db, hist, Goto
    <3> QED BY <1>1, <3>1, IdleBooks
  <2> QED BY <1>1, <1>2, <2>1, StartTickBooks, SeedBooks, WriteBooks, ListBooks, PersistBooks,
             PruneBooks, RuleBooks DEF SyncStep
<1>3. CASE Environment
  <2>1. CASE Crash
    <3>1. UNCHANGED <<engine, moved, ledger, slack, snap>> /\ tick' = Idle
      BY <2>1 DEF Crash, env, db, hist
    <3> QED BY <1>1, <3>1, IdleBooks
  <2>2. CASE CreateRule
    <3>1. UNCHANGED <<engine, moved, ledger, slack, snap, tick>> BY <2>2 DEF CreateRule, env, hist
    <3> QED BY <1>1, <3>1, StandBooks
  <2> QED BY <1>1, <1>3, <2>1, <2>2, MoveBooks, EngineBooks DEF Environment
<1>4. CASE UNCHANGED vars
  <2>1. UNCHANGED <<engine, moved, ledger, slack, snap, tick>> BY <1>4 DEF vars
  <2> QED BY <1>1, <2>1, StandBooks
<1> QED BY <1>2, <1>3, <1>4 DEF Next

\* The counters when the system starts: at most one byte each.
LEMMA BooksInit == Init => Books
<1> SUFFICES ASSUME Init PROVE Books OBVIOUS
<1>1. SyncInv BY Initially
<1>2. /\ engine \in Tables(Reading) /\ snap \in Tables(Reading) BY <1>1, SyncTables
<1>3. SumOf(Down(engine)) \in Nat BY <1>2, DownCounts, SumNat DEF SumOf
<1>4. /\ ledger = NoRow /\ moved = SumOf(Down(engine)) /\ slack = 0 /\ tick = Idle BY DEF Init
<1>5. LedgerTyped BY <1>3, <1>4 DEF LedgerTyped, LedgerRow, NoRow, Idle
<1>6. tick.pc = "idle" BY <1>4 DEF Idle
<1>7. Unbanked = Accrue(Down(engine), Down(snap)) BY <1>6 DEF Unbanked, ToBank
<1>8. Accrue(Down(engine), Down(snap)) <= SumOf(Down(engine))
  <2>1. IsCount(Down(engine)) /\ IsCount(Down(snap)) BY <1>2, DownCounts
  <2>2. ASSUME NEW x \in DOMAIN Contributions(Down(engine), Down(snap))
        PROVE  Contributions(Down(engine), Down(snap))[x] <= Val(Down(engine), x)
    <3>1. x \in DOMAIN Down(engine) \cap DOMAIN Down(snap) BY <2>1, ContributionsCount
    <3>2. Contributions(Down(engine), Down(snap))[x] = Contribution(Down(snap)[x], Down(engine)[x])
      BY <3>1, ContributionsVal
    <3>3. Down(snap)[x] \in Nat /\ Down(engine)[x] \in Nat BY <2>1, <3>1 DEF IsCount
    <3>4. Contribution(Down(snap)[x], Down(engine)[x]) <= Down(engine)[x]
      BY <3>3, ContributionFacts
    <3> QED BY <3>1, <3>2, <3>4 DEF Val
  <2>3. IsCount(Contributions(Down(engine), Down(snap))) BY <2>1, ContributionsCount
  <2> QED BY <2>1, <2>2, <2>3, SumLess DEF Accrue, SumOf
<1>9. Accrue(Down(engine), Down(snap)) \in Nat BY <1>2, AccrueNat
<1>10. ledger.accrued = 0 /\ ledger.baseline = 0 /\ ~ledger.seeded BY <1>4 DEF NoRow
<1>11. Balance BY <1>3, <1>4, <1>6, <1>7, <1>8, <1>9, <1>10 DEF Balance
<1> QED BY <1>1, <1>5, <1>11 DEF Books

\* The books balance in every reachable state.
THEOREM BooksBalance == Spec => []Books
<1>1. Books /\ [Next]_vars => Books' BY BooksStep
<1> QED BY <1>1, BooksInit, PTL DEF Spec

\* Totals and bytes only grow.
LEMMA TotalsGrow ==
  ASSUME Books, Books', [Next]_vars
  PROVE  moved + slack <= moved' + slack' /\ Totals(ledger) <= Totals(ledger')
<1>1. /\ ledger \in LedgerRow /\ moved \in Nat /\ slack \in Nat
      /\ tick.seed \in Nat /\ tick.repeats \in Nat
  BY DEF Books, LedgerTyped
<1>2. ledger.baseline \in Nat /\ ledger.accrued \in Nat BY <1>1 DEF LedgerRow
<1>3. CASE WriteBaseline
  <2>1. /\ UNCHANGED moved /\ slack' = tick.repeats /\ tick.pc = "writeBaseline"
        /\ ledger' = [ledger EXCEPT !.baseline = tick.seed, !.seeded = TRUE]
    BY <1>3 DEF WriteBaseline, env, At, Seed
  <2>2. ~ledger.seeded /\ ledger.baseline = 0 /\ slack = 0 BY <2>1 DEF Books, Balance
  <2>3. ledger'.baseline = tick.seed /\ ledger'.accrued = ledger.accrued BY <1>1, <2>1 DEF LedgerRow
  <2> QED BY <1>1, <1>2, <2>1, <2>2, <2>3 DEF Totals
<1>4. CASE PersistSnapshots
  <2> DEFINE a == Accrue(Down(tick.readings), Down(tick.prior))
  <2>1. UNCHANGED <<moved, slack>> /\ ledger' = [ledger EXCEPT !.accrued = @ + a]
    BY <1>4 DEF PersistSnapshots, env, hist, AccrualOperation
  <2>2. a \in Nat BY SyncTables, AccrueNat DEF Books
  <2> HIDE DEF a
  <2>3. ledger'.baseline = ledger.baseline /\ ledger'.accrued = ledger.accrued + a
    BY <1>1, <2>1 DEF LedgerRow
  <2> QED BY <1>1, <1>2, <2>1, <2>2, <2>3 DEF Totals
<1>5. CASE \E h \in Torrents : Move(h)
  <2>1. UNCHANGED <<ledger, slack>> /\ moved' = moved + 1 BY <1>5 DEF Move, db, hist
  <2> QED BY <1>1, <1>2, <2>1 DEF Totals
<1>6. CASE UNCHANGED <<moved, slack, ledger>> BY <1>1, <1>2, <1>6 DEF Totals
<1>7. UNCHANGED <<moved, slack, ledger>> \/ WriteBaseline \/ PersistSnapshots
      \/ \E h \in Torrents : Move(h)
  BY DEF Next, SyncStep, Environment, StartTick, SeedValues, ListTorrents, Prune, FireEdge,
         ReconcileCompleted, LogRun, StartReconcile, EndTick, Abort, Complete, Recheck, AddTorrent,
         RemoveTorrent, CreateRule, Crash, env, db, hist, vars
<1> QED BY <1>3, <1>4, <1>5, <1>6, <1>7

\* accrual.ts, transfer-ledger.service.ts: the lifetime total only moves forward and
\* never exceeds what was transferred.
THEOREM ImplementsTotalsCorrect == Spec => ImplementsTotals
<1>1. Init => Ledger!Init
  <2> SUFFICES ASSUME Init PROVE Ledger!Init OBVIOUS
  <2>1. Books BY BooksInit
  <2>2. moved \in Nat /\ slack = 0 /\ ledger = NoRow BY <2>1 DEF Books, LedgerTyped, Init
  <2> QED BY <2>2 DEF Ledger!Init, Totals, NoRow
<1>2. Books /\ Books' /\ [Next]_vars => [Ledger!Next]_<<moved + slack, Totals(ledger)>>
  <2> SUFFICES ASSUME Books, Books', [Next]_vars PROVE Ledger!Next BY DEF Ledger!Next
  <2>1. moved + slack <= moved' + slack' /\ Totals(ledger) <= Totals(ledger') BY TotalsGrow
  <2>2. /\ ledger' \in LedgerRow /\ moved' \in Nat /\ slack' \in Nat
        /\ ledger \in LedgerRow /\ moved \in Nat /\ slack \in Nat
    BY DEF Books, LedgerTyped
  <2>3. Unbanked' \in Nat BY ToBankNat DEF Books, SyncInv, SyncTyped, IsTick, Unbanked
  <2>4. /\ ledger'.baseline \in Nat /\ ledger'.accrued \in Nat
        /\ ledger.baseline \in Nat /\ ledger.accrued \in Nat
    BY <2>2 DEF LedgerRow
  <2>5. ledger'.baseline + ledger'.accrued <= moved' + slack'
    <3>1. CASE ledger'.seeded
      <4>1. ledger'.baseline + ledger'.accrued + Unbanked' <= moved' + slack'
        BY <3>1 DEF Books, Balance
      <4> QED BY <2>2, <2>3, <2>4, <4>1
    <3>2. CASE ~ledger'.seeded
      <4>1. ledger'.baseline = 0 /\ ledger'.accrued + Unbanked' <= moved'
        BY <3>2 DEF Books, Balance
      <4> QED BY <2>2, <2>3, <2>4, <4>1
    <3> QED BY <3>1, <3>2
  <2>6. Totals(ledger) \in Nat /\ Totals(ledger') \in Nat BY <2>4 DEF Totals
  <2>7. Totals(ledger') <= moved' + slack' BY <2>5 DEF Totals
  <2>8. Totals(ledger)' = Totals(ledger') BY DEF Totals
  <2>9. moved + slack \in Nat /\ moved' + slack' \in Nat
    <3>1. PICK m \in Nat, k \in Nat : moved = m /\ slack = k BY <2>2
    <3>2. PICK n \in Nat, l \in Nat : moved' = n /\ slack' = l BY <2>2
    <3> QED BY <3>1, <3>2
  <2>10. Totals(ledger') \in Totals(ledger)..(moved' + slack') BY <2>1, <2>6, <2>7, <2>9
  <2> QED BY <2>1, <2>8, <2>9, <2>10 DEF Ledger!Next
<1> QED BY <1>1, <1>2, BooksBalance, PTL DEF Spec, ImplementsTotals, Ledger!Spec

----------------------------------------------------------------------------
(* The type invariant: every counter stays within what the engine moved.    *)

Within(t, m) == \A h \in DOMAIN t : t[h].down <= m

Bounded ==
  /\ moved <= MaxMoved
  /\ Within(snap, moved) /\ Within(tick.readings, moved) /\ Within(tick.prior, moved)
  /\ tick.seed <= moved
  /\ completed \in [Torrents -> 0..MaxCompletions]
  /\ adds \in 0..MaxAdds
  /\ faults + crashes <= MaxMishaps
  /\ logged \subseteq Torrents
  /\ rule \in BOOLEAN /\ baselined \in BOOLEAN

LEMMA WithinGrows ==
  ASSUME NEW t \in Tables(Reading), NEW m \in Nat, NEW n \in Nat, m <= n, Within(t, m)
  PROVE  Within(t, n)
BY DownCounts DEF Within

LEMMA WithinNothing == ASSUME NEW m PROVE Within(<<>>, m)
BY EmptyTable DEF Within

\* One counter is at most the sum.
LEMMA WithinSum ==
  ASSUME NEW t \in Tables(Reading), NEW m \in Nat, SumOf(Down(t)) <= m
  PROVE  Within(t, m)
<1> SUFFICES ASSUME NEW h \in DOMAIN t PROVE t[h].down <= m BY DEF Within
<1>1. IsCount(Down(t)) /\ h \in DOMAIN Down(t) /\ Down(t)[h] = t[h].down /\ t[h].down \in Nat
  BY DownCounts
<1>2. SumFunctionOnSet(Down(t), DOMAIN Down(t))
        = Down(t)[h] + SumFunctionOnSet(Down(t), DOMAIN Down(t) \ {h})
  BY <1>1, SumRemove DEF IsCount
<1>3. SumFunctionOnSet(Down(t), DOMAIN Down(t) \ {h}) \in Nat
  <2>1. IsFiniteSet(DOMAIN Down(t) \ {h}) BY <1>1, FS_Subset DEF IsCount
  <2> QED BY <1>1, <2>1, SumType DEF IsCount
<1>4. SumOf(Down(t)) = SumFunctionOnSet(Down(t), DOMAIN Down(t)) BY DEF SumOf, SumFunction
<1> QED BY <1>1, <1>2, <1>3, <1>4

LEMMA BoundedInit == Init => Bounded
<1> SUFFICES ASSUME Init PROVE Bounded OBVIOUS
<1>1. Books BY BooksInit
<1>2. engine \in Tables(Reading) /\ moved \in Nat BY <1>1, SyncTables DEF Books, LedgerTyped
<1>3. moved <= MaxMoved
  <2>1. engine \in Tables([down : 0..1, done : BOOLEAN]) BY DEF Init
  <2>2. DOMAIN engine \subseteq Torrents /\ engine \in [DOMAIN engine -> [down : 0..1, done : BOOLEAN]]
    BY <2>1, TableIs
  <2>3. \A h \in DOMAIN engine : engine[h].down \in 0..1 BY <2>2
  <2>4. DOMAIN Down(engine) = DOMAIN engine /\ \A h \in DOMAIN engine : Down(engine)[h] \in 0..1
    BY <2>3 DEF Down
  <2>5. IsFiniteSet(DOMAIN engine) /\ Cardinality(DOMAIN engine) <= Cardinality(Torrents)
    BY <2>2, StartAssumption, FS_Subset
  <2>6. SumOf(Down(engine)) <= Cardinality(DOMAIN engine)
    BY <2>4, <2>5, SumOfOnes DEF SumOf, SumFunction
  <2>7. /\ Cardinality(DOMAIN engine) \in Nat /\ Cardinality(Torrents) \in Nat /\ MaxMoved \in Nat
        /\ Cardinality(Torrents) <= MaxMoved
    BY <2>5, FS_CardinalityType, StartAssumption, BoundAssumption
  <2>8. moved = SumOf(Down(engine)) BY DEF Init
  <2> QED BY <1>2, <2>5, <2>6, <2>7, <2>8
<1>4. Within(snap, moved)
  <2>1. CASE snap = <<>> BY <2>1, WithinNothing
  <2>2. CASE snap = [h \in DOMAIN engine |-> [down |-> 0, done |-> FALSE]]
    BY <1>2, <2>2 DEF Within
  <2> QED BY <2>1, <2>2 DEF Init
<1>5. Within(tick.readings, moved) /\ Within(tick.prior, moved)
  <2>1. tick.readings = <<>> /\ tick.prior = <<>> BY DEF Init, Idle
  <2> QED BY <2>1, WithinNothing
<1>8. tick.seed <= moved BY <1>2 DEF Init, Idle
<1>6. completed \in [Torrents -> 0..MaxCompletions]
  <2>1. 1 <= MaxCompletions /\ MaxCompletions \in Nat BY StartAssumption, BoundAssumption
  <2> QED BY <2>1 DEF Init
<1>7. adds \in 0..MaxAdds /\ faults + crashes <= MaxMishaps BY BoundAssumption DEF Init
<1> QED BY <1>3, <1>4, <1>5, <1>6, <1>7, <1>8 DEF Init, Bounded

\* A step moves at most one byte and makes at most one mishap, within the bounds.
LEMMA CountersBounded ==
  ASSUME Books, Bounded, [Next]_vars
  PROVE  /\ moved <= moved' /\ moved' <= MaxMoved
         /\ completed' \in [Torrents -> 0..MaxCompletions]
         /\ adds' \in 0..MaxAdds
         /\ faults' + crashes' <= MaxMishaps
         /\ rule' \in BOOLEAN
<1>1. moved \in Nat /\ MaxMoved \in Nat /\ MaxCompletions \in Nat /\ MaxAdds \in Nat /\ MaxMishaps \in Nat
      /\ faults \in Nat /\ crashes \in Nat
  BY BoundAssumption DEF Books, LedgerTyped, SyncInv, SyncTyped
<1>2. moved <= moved' /\ moved' <= MaxMoved
  <2>1. moved' = moved \/ (moved' = moved + 1 /\ moved < MaxMoved)
    BY DEF Next, SyncStep, Environment, StartTick, SeedValues, WriteBaseline, ListTorrents,
           PersistSnapshots, Prune, FireEdge, ReconcileCompleted, LogRun, StartReconcile, EndTick,
           Abort, Move, Complete, Recheck, AddTorrent, RemoveTorrent, CreateRule, Crash, env, vars
  <2> QED BY <1>1, <2>1 DEF Bounded
<1>3. completed' \in [Torrents -> 0..MaxCompletions]
  <2>1. \/ completed' = completed
        \/ \E h \in Torrents : /\ completed[h] < MaxCompletions
                               /\ completed' = [completed EXCEPT ![h] = @ + 1]
    BY DEF Next, SyncStep, Environment, StartTick, SeedValues, WriteBaseline, ListTorrents,
           PersistSnapshots, Prune, FireEdge, ReconcileCompleted, LogRun, StartReconcile, EndTick,
           Abort, Move, Complete, Recheck, AddTorrent, RemoveTorrent, CreateRule, Crash, env, vars
  <2> QED BY <1>1, <2>1 DEF Bounded
<1>4. adds' \in 0..MaxAdds
  <2>1. adds' = adds \/ (adds' = adds + 1 /\ adds < MaxAdds)
    BY DEF Next, SyncStep, Environment, StartTick, SeedValues, WriteBaseline, ListTorrents,
           PersistSnapshots, Prune, FireEdge, ReconcileCompleted, LogRun, StartReconcile, EndTick,
           Abort, Move, Complete, Recheck, AddTorrent, RemoveTorrent, CreateRule, Crash, env, vars
  <2> QED BY <1>1, <2>1 DEF Bounded
<1>5. faults' + crashes' <= MaxMishaps
  <2>1. \/ faults' = faults /\ crashes' = crashes
        \/ /\ faults + crashes < MaxMishaps
           /\ \/ faults' = faults + 1 /\ crashes' = crashes
              \/ faults' = faults /\ crashes' = crashes + 1
    BY DEF Next, SyncStep, Environment, StartTick, SeedValues, WriteBaseline, ListTorrents,
           PersistSnapshots, Prune, FireEdge, ReconcileCompleted, LogRun, StartReconcile, EndTick,
           Abort, Move, Complete, Recheck, AddTorrent, RemoveTorrent, CreateRule, Crash, RunRule,
           Fault, vars
  <2> QED BY <1>1, <2>1 DEF Bounded
<1>6. rule' \in BOOLEAN
  <2>1. rule' = rule \/ rule' = TRUE
    BY DEF Next, SyncStep, Environment, StartTick, SeedValues, WriteBaseline, ListTorrents,
           PersistSnapshots, Prune, FireEdge, ReconcileCompleted, LogRun, StartReconcile, EndTick,
           Abort, Move, Complete, Recheck, AddTorrent, RemoveTorrent, CreateRule, Crash, db, vars
  <2> QED BY <2>1 DEF Bounded
<1> QED BY <1>2, <1>3, <1>4, <1>5, <1>6

\* The snapshots, the listing and what was read for it come from one another.
LEMMA ViewsBounded ==
  ASSUME Books, Books', Bounded, [Next]_vars
  PROVE  /\ Within(snap', moved') /\ Within(tick'.readings, moved') /\ Within(tick'.prior, moved')
         /\ tick'.seed <= moved'
<1>1. moved \in Nat /\ moved' \in Nat /\ moved <= moved'
  BY CountersBounded DEF Books, LedgerTyped
<1>2. /\ engine \in Tables(Reading) /\ snap \in Tables(Reading)
      /\ tick.readings \in Tables(Reading) /\ tick.prior \in Tables(Reading) /\ IsTick(tick)
  BY SyncTables DEF Books
<1>3. /\ snap' \in Tables(Reading)
      /\ tick'.readings \in Tables(Reading) /\ tick'.prior \in Tables(Reading)
  BY DEF Books, SyncInv, SyncTyped, IsTick
<1>4. Within(engine, moved) BY <1>1, <1>2, WithinSum DEF Books, Balance
<1>5. Within(snap', moved)
  <2>1. \/ snap' = snap \/ snap' = Upserted(snap, tick.readings)
        \/ Prune
    BY DEF Next, SyncStep, Environment, StartTick, SeedValues, WriteBaseline, ListTorrents,
           PersistSnapshots, FireEdge, ReconcileCompleted, LogRun, StartReconcile, EndTick,
           Abort, Move, Complete, Recheck, AddTorrent, RemoveTorrent, CreateRule, Crash, db, vars
  <2>2. CASE snap' = Upserted(snap, tick.readings) BY <2>2 DEF Bounded, Within, Upserted
  <2>3. CASE Prune
    <3>1. /\ snap' = Restrict(snap, DOMAIN tick.readings) /\ tick.pc = "prune"
      BY <2>3 DEF Prune, At
    <3>2. DOMAIN tick.readings \subseteq DOMAIN snap BY <3>1 DEF Books, SyncInv, ViewsAgree
    <3> QED BY <3>1, <3>2 DEF Bounded, Within, Restrict
  <2> QED BY <2>1, <2>2, <2>3 DEF Bounded
<1>6. Within(tick'.readings, moved) /\ Within(tick'.prior, moved)
  <2>1. CASE ListTorrents
    <3>1. tick'.readings = engine /\ tick'.prior = Restrict(snap, DOMAIN snap \cap DOMAIN engine)
      BY <1>2, <2>1 DEF ListTorrents, IsTick, PriorSnapshots
    <3> QED BY <1>4, <3>1 DEF Bounded, Within, Restrict
  <2>2. CASE Prune
    <3>1. tick'.readings = tick.readings /\ tick'.prior = <<>> BY <1>2, <2>2 DEF Prune, IsTick
    <3> QED BY <3>1, WithinNothing DEF Bounded
  <2>3. CASE tick'.readings = <<>> /\ tick'.prior = <<>> BY <2>3, WithinNothing
  <2>4. CASE tick'.readings = tick.readings /\ tick'.prior = tick.prior BY <2>4 DEF Bounded
  <2>5. \/ ListTorrents \/ Prune
        \/ tick'.readings = <<>> /\ tick'.prior = <<>>
        \/ tick'.readings = tick.readings /\ tick'.prior = tick.prior
    <3>1. CASE tick' = Idle BY <3>1 DEF Idle
    <3>2. CASE tick' = tick BY <3>2
    <3>3. ASSUME NEW p, Goto(p) PROVE \/ tick'.readings = <<>> /\ tick'.prior = <<>>
                                      \/ tick'.readings = tick.readings /\ tick'.prior = tick.prior
      BY <1>2, <3>3 DEF Goto, Idle, IsTick
    <3>4. ASSUME NEW v, SeedFrom(v) PROVE tick'.readings = tick.readings /\ tick'.prior = tick.prior
      <4>1. PICK w : tick' = [tick EXCEPT !.pc = "writeBaseline", !.seed = v, !.repeats = w]
        BY <3>4 DEF SeedFrom
      <4> QED BY <1>2, <4>1 DEF IsTick
    <3>5. ASSUME NEW h \in Torrents, FireEdge(h) \/ ReconcileCompleted(h)
          PROVE  tick'.readings = tick.readings /\ tick'.prior = tick.prior
      <4>1. PICK R : tick' = [tick EXCEPT !.todo = @ \ {h}, !.ran = R] BY <3>5, RunEffect DEF Books
      <4> QED BY <1>2, <4>1 DEF IsTick
    <3>6. CASE LogRun BY <1>2, <3>6 DEF LogRun, IsTick
    <3>7. CASE StartReconcile BY <3>7 DEF StartReconcile, Idle
    <3>8. CASE WriteBaseline BY <3>8 DEF WriteBaseline, Idle
    <3>9. CASE StartTick BY <3>3, <3>9 DEF StartTick
    <3>10. CASE SeedValues BY <3>3, <3>4, <3>10 DEF SeedValues
    <3>11. CASE PersistSnapshots BY <3>3, <3>11 DEF PersistSnapshots
    <3>12. CASE EndTick \/ \E p \in {"writeBaseline", "listTorrents", "persistSnapshots", "prune"} : Abort(p)
      BY <3>3, <3>12 DEF EndTick, Abort
    <3>13. CASE Environment
      BY <3>1, <3>2, <3>13 DEF Environment, Move, Complete, Recheck, AddTorrent, RemoveTorrent, CreateRule, Crash
    <3>14. CASE UNCHANGED vars BY <3>2, <3>14 DEF vars
    <3> QED BY <3>5, <3>6, <3>7, <3>8, <3>9, <3>10, <3>11, <3>12, <3>13, <3>14 DEF Next, SyncStep
  <2> QED BY <2>1, <2>2, <2>3, <2>4, <2>5
<1>7. tick'.seed <= moved'
  <2>1. tick'.pc = "writeBaseline" => tick'.seed <= moved' BY DEF Books, Balance
  <2>2. ASSUME tick'.pc # "writeBaseline" PROVE tick'.seed = 0 \/ tick'.seed = tick.seed
    <3>1. ASSUME NEW v, SeedFrom(v) PROVE FALSE
      <4>1. PICK w : tick' = [tick EXCEPT !.pc = "writeBaseline", !.seed = v, !.repeats = w]
        BY <3>1 DEF SeedFrom
      <4> QED BY <1>2, <2>2, <4>1 DEF IsTick
    <3>2. ASSUME NEW p, Goto(p) PROVE tick'.seed = 0 \/ tick'.seed = tick.seed
      BY <1>2, <3>2 DEF Goto, Idle, IsTick
    <3>3. ASSUME NEW h \in Torrents, FireEdge(h) \/ ReconcileCompleted(h)
          PROVE  tick'.seed = tick.seed
      <4>1. PICK R : tick' = [tick EXCEPT !.todo = @ \ {h}, !.ran = R] BY <3>3, RunEffect DEF Books
      <4> QED BY <1>2, <4>1 DEF IsTick
    <3>4. CASE LogRun \/ ListTorrents \/ Prune BY <1>2, <3>4 DEF LogRun, ListTorrents, Prune, IsTick
    <3>5. CASE StartReconcile \/ WriteBaseline BY <3>5 DEF StartReconcile, WriteBaseline, Idle
    <3>6. CASE \/ StartTick \/ SeedValues \/ PersistSnapshots \/ EndTick
               \/ \E p \in {"writeBaseline", "listTorrents", "persistSnapshots", "prune"} : Abort(p)
      BY <3>1, <3>2, <3>6 DEF StartTick, SeedValues, PersistSnapshots, EndTick, Abort
    <3>7. CASE Environment \/ UNCHANGED vars
      <4>1. tick' = tick \/ tick' = Idle
        BY <3>7 DEF Environment, Move, Complete, Recheck, AddTorrent, RemoveTorrent, CreateRule,
                    Crash, vars
      <4> QED BY <4>1 DEF Idle
    <3> QED BY <3>3, <3>4, <3>5, <3>6, <3>7 DEF Next, SyncStep
  <2>3. tick.seed <= moved /\ tick.seed \in Nat BY DEF Bounded, Books, LedgerTyped
  <2>4. ASSUME tick'.seed = 0 \/ tick'.seed = tick.seed PROVE tick'.seed <= moved'
    BY <1>1, <2>3, <2>4
  <2> QED BY <2>1, <2>2, <2>4
<1> QED BY <1>1, <1>3, <1>5, <1>6, <1>7, WithinGrows

LEMMA BoundedStep == ASSUME Books, Books', Bounded, [Next]_vars PROVE Bounded'
<1>1. logged' \subseteq Torrents
  <2>1. logged' = logged \/ logged' = logged \cup tick.ran
    BY DEF Next, SyncStep, Environment, StartTick, SeedValues, WriteBaseline, ListTorrents,
           PersistSnapshots, Prune, FireEdge, ReconcileCompleted, LogRun, StartReconcile, EndTick,
           Abort, Move, Complete, Recheck, AddTorrent, RemoveTorrent, CreateRule, Crash, db, vars
  <2>2. tick.ran \subseteq Torrents BY SyncTables DEF Books, IsTick
  <2> QED BY <2>1, <2>2 DEF Bounded
<1>2. baselined' \in BOOLEAN
  <2>1. \/ baselined' = baselined \/ baselined' \in BOOLEAN
    BY DEF Next, SyncStep, Environment, StartTick, SeedValues, WriteBaseline, ListTorrents,
           PersistSnapshots, Prune, FireEdge, ReconcileCompleted, LogRun, StartReconcile, EndTick,
           Abort, Move, Complete, Recheck, AddTorrent, RemoveTorrent, CreateRule, Crash, vars
  <2> QED BY <2>1 DEF Bounded
<1> QED BY <1>1, <1>2, CountersBounded, ViewsBounded DEF Bounded

\* Torrents are counted within the bytes moved, mishaps and completions within their
\* bounds, in every reachable state.
THEOREM TypeCorrect == Spec => []TypeOK
<1>1. Books /\ Bounded => TypeOK
  <2> SUFFICES ASSUME Books, Bounded PROVE TypeOK OBVIOUS
  <2>1. /\ engine \in Tables(Reading) /\ snap \in Tables(Reading)
        /\ tick.readings \in Tables(Reading) /\ tick.prior \in Tables(Reading) /\ IsTick(tick)
    BY SyncTables DEF Books
  <2>2. moved \in Nat /\ moved <= MaxMoved /\ MaxMoved \in Nat
    BY BoundAssumption DEF Books, LedgerTyped, Bounded
  <2>3. Within(engine, moved) BY <2>1, <2>2, WithinSum DEF Books, Balance
  <2>4. ASSUME NEW t \in Tables(Reading), Within(t, moved) PROVE t \in Tables(Torrent)
    <3>1. DOMAIN t \subseteq Torrents /\ t \in [DOMAIN t -> Reading] BY TableIs
    <3>2. ASSUME NEW h \in DOMAIN t PROVE t[h] \in Torrent
      <4>1. t[h] \in Reading /\ t[h].down <= moved BY <2>4, <3>1 DEF Within
      <4>2. t[h].down \in 0..MaxMoved BY <2>2, <4>1 DEF Reading
      <4> QED BY <4>1, <4>2 DEF Reading, Torrent
    <3> QED BY <3>1, <3>2, TableIs
  <2>5. /\ engine \in Tables(Torrent) /\ snap \in Tables(Torrent)
        /\ tick.readings \in Tables(Torrent) /\ tick.prior \in Tables(Torrent)
    BY <2>1, <2>3, <2>4 DEF Bounded
  <2>6. /\ ledger.baseline \in 0..MaxMoved /\ ledger.accrued \in 0..MaxMoved
        /\ ledger.seeded \in BOOLEAN
    <3>1. ledger \in LedgerRow BY DEF Books, LedgerTyped
    <3>2. Unbanked \in Nat BY <2>1, ToBankNat DEF Unbanked
    <3>3. /\ ledger.baseline \in Nat /\ ledger.accrued \in Nat /\ ledger.seeded \in BOOLEAN
      BY <3>1 DEF LedgerRow
    <3>4. ledger.baseline <= moved /\ ledger.accrued + Unbanked <= moved BY DEF Books, Balance
    <3> QED BY <2>2, <3>2, <3>3, <3>4
  <2>7. tick.pc \in Phases /\ tick.rising \cup tick.todo \cup tick.ran \subseteq Torrents
    BY <2>1 DEF IsTick
  <2>8. tick.seed \in 0..MaxMoved
    BY <2>2 DEF Books, LedgerTyped, Bounded
  <2>9. faults \in Nat /\ crashes \in Nat BY DEF Books, SyncInv, SyncTyped
  <2> QED BY <2>2, <2>5, <2>6, <2>7, <2>8, <2>9 DEF TypeOK, Bounded
<1>2. Books /\ Books' /\ Bounded /\ [Next]_vars => Bounded' BY BoundedStep
<1> QED BY <1>1, <1>2, BoundedInit, BooksBalance, PTL DEF Spec
=============================================================================
