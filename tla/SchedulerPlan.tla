----------------------------- MODULE SchedulerPlan -----------------------------
(***************************************************************************)
(* The pure half of the torrent scheduler (torrent-scheduler/domain):      *)
(* classify a torrent, order the contenders, and walk the order handing    *)
(* out slots (planEngine).                                                 *)
(*                                                                         *)
(* A torrent of the plan is a record of its hash and                       *)
(*   occ      its occupancy class         done     its download is complete *)
(*   score    its priority                rank     place by addedAt, hash   *)
(*   keep     protected from pause        hold     protected from removal   *)
(*   force    force-started               recent   touched < 2 minutes ago  *)
(*   fresh    new downloads may start     target   verdict on its seeding   *)
(*   late     past its seeding deadline   library  0, or 1 once imported,   *)
(*                                        or 2 once the copy is verified    *)
(*                                                                         *)
(* `target' is evaluateSeedTarget's verdict and `late' that of             *)
(* evaluateSeedAgeDeadline.  The policy is read anew for every plan.       *)
(* Scopes that give the first torrent limits of its own, bandwidth and the *)
(* states error and unknown are left out.                                  *)
(***************************************************************************)
EXTENDS Integers, Sequences, FiniteSets, SequencesExt

CONSTANTS
  Unlimited,      \* the limit null
  Policies,       \* the policies an operator may set
  Budget          \* maxActionsPerSweep

Limits == Nat \cup {Unlimited}
Afters == {"none", "leave_active", "pause", "remove"}

\* The limits; afterTarget of the seeding policy, "none" without one; and what it
\* requires of `library': 1 for requireImportCompleted, 2 for requireLibraryCopyVerified.
ASSUME PolicyAssumption ==
  Policies \subseteq [downloads : Limits, seeds : Limits, total : Limits, after : Afters,
                      require : 0..2]
ASSUME BudgetAssumption == Budget \in Nat \ {0}

VARIABLE policy  \* database: the effective policy of the engine

MaxDownloads == policy.downloads
MaxSeeds     == policy.seeds
MaxTotal     == policy.total
AfterTarget  == policy.after

Untouchables == {"provider_paused", "parked", "excluded", "checking"}
OccupancyClass ==
  Untouchables \cup {"download_active", "seed_active", "download_queued", "seed_queued",
                     "scheduler_paused"}

classify(state, done, parked, ours) ==
  IF parked THEN "parked"
  ELSE CASE state = "checking" -> "checking"
         [] state = "paused"   -> IF ours THEN "scheduler_paused" ELSE "provider_paused"
         [] state = "queued"   -> IF done THEN "seed_queued" ELSE "download_queued"
         [] state = "running"  -> IF done THEN "seed_active" ELSE "download_active"

holdsTotalActiveSlot(occ) == occ \in {"download_active", "seed_active", "checking"}

IsActive(t) == holdsTotalActiveSlot(t.occ)

\* Mutant: whoever waits goes before whoever runs.
BeforeInTurns(a, b) ==
  \/ a.score > b.score
  \/ a.score = b.score /\ ~IsActive(a) /\ IsActive(b)
  \/ a.score = b.score /\ IsActive(a) = IsActive(b) /\ a.rank < b.rank

\* orderByPriority: higher score, then whoever runs already, then the older.
Before(a, b) ==
  \/ a.score > b.score
  \/ a.score = b.score /\ IsActive(a) /\ ~IsActive(b)
  \/ a.score = b.score /\ IsActive(a) = IsActive(b) /\ a.rank < b.rank

withinLimit(count, limit) == limit = Unlimited \/ count < limit

\* seedTargetDecision: "null" when the policy has nothing to say yet, "active" when
\* the torrent is left running and is not looked at again.
InLibrary(t) == t.library >= policy.require
seedTargetDecision(t) ==
  IF t.target # "met" /\ t.late /\ ~t.hold THEN "remove"
  ELSE IF t.target = "not_met" THEN "null"
  ELSE IF t.target = "unknown" \/ ~InLibrary(t) \/ t.hold THEN "active"
  ELSE IF AfterTarget = "remove" THEN "remove"
  ELSE IF AfterTarget = "leave_active" THEN "active"
  ELSE "pause"

\* The walk so far: slots given, actions spent and the action for each torrent.
NoPlan == [downloads |-> 0, seeds |-> 0, total |-> 0, actions |-> 0, steps |-> <<>>]

\* Mutant: a seed takes a slot of the total only.
OccupyTotal(acc, t) ==
  [acc EXCEPT !.downloads = @ + (IF t.done THEN 0 ELSE 1), !.total = @ + 1]

Occupy(acc, t) ==
  [acc EXCEPT !.downloads = @ + (IF t.done THEN 0 ELSE 1),
              !.seeds = @ + (IF t.done THEN 1 ELSE 0), !.total = @ + 1]

Act(acc, t, action) ==
  [acc EXCEPT !.actions = @ + 1, !.steps = Append(@, <<action, t.hash>>)]

SlotFree(acc, t) ==
  /\ IF t.done THEN withinLimit(acc.seeds, MaxSeeds) ELSE withinLimit(acc.downloads, MaxDownloads)
  /\ withinLimit(acc.total, MaxTotal)

\* What becomes of one torrent of the walk: an action, "active" when it keeps the
\* slot it has, "wait" when there is none for it.
Actions == {"remove", "pause", "resume"}
Decision(acc, t) ==
  LET budgetLeft == acc.actions < Budget
      seed == IF t.done /\ IsActive(t) /\ AfterTarget # "none" /\ ~t.keep
                THEN seedTargetDecision(t) ELSE "null"
  IN IF seed # "null" THEN seed
     ELSE IF t.force THEN IF ~IsActive(t) /\ budgetLeft THEN "resume" ELSE "active"
     ELSE IF IsActive(t)
       THEN IF SlotFree(acc, t) \/ t.keep \/ t.recent \/ ~budgetLeft THEN "active" ELSE "pause"
     ELSE IF (t.done \/ t.fresh) /\ SlotFree(acc, t) /\ budgetLeft THEN "resume" ELSE "wait"

Consider(acc, t) ==
  LET d == Decision(acc, t)
      acted == IF d \in Actions THEN Act(acc, t, d) ELSE acc
  IN  IF d \in {"active", "resume"} THEN Occupy(acted, t) ELSE acted

\* The torrents of S that contend, and the slots the others hold for good.
Contenders(S) == {t \in S : t.occ \notin Untouchables}
Taken(S) == [NoPlan EXCEPT !.total = Cardinality({t \in S \ Contenders(S) : IsActive(t)})]

\* orderByPriority on the contenders.
Ranked(C) ==
  CHOOSE s \in [1..Cardinality(C) -> C] : \A i, j \in DOMAIN s : i < j => Before(s[i], s[j])

\* planEngine: the actions, as <<action, hash>> in the order of the walk.
planEngine(S) ==
  LET ranked == Ranked(Contenders(S))
      walk[k \in 0..Len(ranked)] ==
        IF k = 0 THEN Taken(S) ELSE Consider(walk[k - 1], ranked[k])
  IN  walk[Len(ranked)].steps

\* apply: slots are relinquished before they are claimed.
OfKind(plan, action) ==
  LET pick[k \in 0..Len(plan)] ==
        IF k = 0 THEN <<>>
        ELSE IF plan[k][1] = action THEN Append(pick[k - 1], plan[k]) ELSE pick[k - 1]
  IN  pick[Len(plan)]
ApplyOrder(plan) == OfKind(plan, "remove") \o OfKind(plan, "pause") \o OfKind(plan, "resume")

----------------------------------------------------------------------------
(* What a plan promises of the torrents S it was made for.                  *)

Does(plan, t, action) == <<action, t.hash>> \in plan
Idle(plan, t) == \A a \in Actions : ~Does(plan, t, a)
Runs(plan, t) == (IsActive(t) /\ Idle(plan, t)) \/ Does(plan, t, "resume")

\* What runs that t has to give way to, and the part of it that is of its kind.
Ahead(S, plan, t) == {u \in S : Runs(plan, u) /\ (u \in Contenders(S) => Before(u, t))}
Alike(S, plan, t) == {u \in Ahead(S, plan, t) : u.done = t.done /\ u.occ # "checking"}
NoRoom(S, plan, t) ==
  \/ ~withinLimit(Cardinality(Ahead(S, plan, t)), MaxTotal)
  \/ ~withinLimit(Cardinality(Alike(S, plan, t)), IF t.done THEN MaxSeeds ELSE MaxDownloads)

\* What the seeding policy has to say of t: it goes for good when it is past the deadline
\* with the target unmet, or has met the target and the policy says so; it stops when
\* it has met the target; it keeps running, in or out of its place.  Nothing that has met
\* its target goes or stops before the library has what the policy requires.
SeedOf(t) == t.done /\ IsActive(t) /\ AfterTarget # "none"
Released(t) == t.target = "met" /\ InLibrary(t) /\ ~t.hold
PolicyRemoves(t) ==
  /\ SeedOf(t) /\ ~t.hold
  /\ (t.target # "met" /\ t.late) \/ (Released(t) /\ AfterTarget = "remove")
PolicyStops(t) == SeedOf(t) /\ Released(t) /\ AfterTarget = "pause"
PolicyKeeps(t) ==
  /\ SeedOf(t)
  /\ t.target = "unknown" \/ (t.target = "met" /\ (~Released(t) \/ AfterTarget = "leave_active"))

\* The budget bounds what is done for the sake of a slot; the seeding policy's own
\* decisions count against it and are taken nevertheless.
Acted(S, plan, t) == {u \in S : ~Idle(plan, u) /\ Before(u, t)}
ForSlot(plan, t) == Does(plan, t, "resume") \/ (Does(plan, t, "pause") /\ ~PolicyStops(t))
Spent(plan) == Cardinality(plan) >= Budget
Vetoed(plan, t) == t.keep \/ t.force \/ t.recent \/ PolicyKeeps(t) \/ Spent(plan)

Sound(S, plan) ==
  \A t \in S :
    /\ ~Idle(plan, t) => t \in Contenders(S)
    /\ Does(plan, t, "pause") \/ Does(plan, t, "remove") => ~t.keep
    /\ Does(plan, t, "remove") => PolicyRemoves(t)
    /\ Does(plan, t, "pause") => NoRoom(S, plan, t) \/ PolicyStops(t)
    /\ ForSlot(plan, t) => Cardinality(Acted(S, plan, t)) < Budget
    /\ t \in Contenders(S) /\ Runs(plan, t) /\ NoRoom(S, plan, t) => Vetoed(plan, t)
    /\ t \in Contenders(S) /\ ~Runs(plan, t) /\ Idle(plan, t) =>
         NoRoom(S, plan, t) \/ Spent(plan) \/ (~t.done /\ ~t.fresh)
=============================================================================
