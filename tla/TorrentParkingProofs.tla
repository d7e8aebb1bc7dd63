------------------------- MODULE TorrentParkingProofs -------------------------
(***************************************************************************)
(* Type correctness of the parking sweep, and that what it paused it       *)
(* remembers, for any set of torrents, any limits and any number of        *)
(* events.                                                                 *)
(*                                                                         *)
(* PausedIsRemembered is not inductive.  What keeps it: while nothing has  *)
(* disturbed the bookkeeping only the scheduled pass is under way; the     *)
(* torrents it judges and probes are rows, which nobody else deletes       *)
(* (PassKnowsItsRows); what its listing calls gone is gone for good, since *)
(* the engine only loses torrents (GoneIsGone); and a torrent is resumed   *)
(* before its row is deleted, and not paused by parking in between         *)
(* (RevivedBeforeForgotten).                                               *)
(***************************************************************************)
EXTENDS TorrentParking, TLAPS

\* The scheduled pass, while it is alone.
Pass == call["tick"]

OnlyTheTick == \A c \in {"runNow", "unpark"} : call[c].pc = "idle" /\ call[c].cur = {}

PassKnowsItsRows ==
  /\ Pass.pc \in {"idle", "listed", "judge", "park", "probe"} => Pass.cur = {}
  /\ Pass.pc \in {"judge", "judgeForget", "judgeUpdate", "probe", "probeUpdate"}
       => Pass.todo \subseteq DOMAIN parked
  /\ Pass.pc # "parkCreate" => Pass.cur \subseteq DOMAIN parked
  /\ \A g, h \in Pass.cur : g = h

GoneIsGone ==
  Pass.pc # "idle" => \A h \in DOMAIN engine : Pass.list[h] # "gone"

RevivedBeforeForgotten ==
  Pass.pc = "judgeForget" =>
    \A h \in Pass.cur : Held(h) => engine[h].by # "parking"

Remembered ==
  \A h \in DOMAIN engine :
    engine[h].by = "parking"
      => h \in DOMAIN parked \/ (Pass.pc = "parkCreate" /\ h \in Pass.cur)

Bookkeeping ==
  ~disturbed => /\ OnlyTheTick /\ PassKnowsItsRows /\ GoneIsGone
                /\ RevivedBeforeForgotten /\ Remembered

ParkingInv == TypeOK /\ Bookkeeping

----------------------------------------------------------------------------
(* Tables, and the operators of the model.                                  *)

\* A table is a function from some torrents.
LEMMA TableIs ==
  ASSUME NEW S, NEW f
  PROVE  f \in Tables(S) <=> DOMAIN f \subseteq Torrents /\ f \in [DOMAIN f -> S]
BY DEF Tables

\* Changing a row that exists.
LEMMA ExceptTable ==
  ASSUME NEW S, NEW f \in Tables(S), NEW h \in DOMAIN f, NEW v \in S,
         NEW g, g = [f EXCEPT ![h] = v]
  PROVE  /\ g \in Tables(S)
         /\ DOMAIN g = DOMAIN f
         /\ g[h] = v
         /\ \A x \in DOMAIN f \ {h} : g[x] = f[x]
BY TableIs

\* The smaller of two.
LEMMA MinOfTwo ==
  ASSUME NEW a \in Int, NEW b \in Int
  PROVE  Min({a, b}) = IF a <= b THEN a ELSE b
<1> DEFINE m == IF a <= b THEN a ELSE b
<1>1. m \in {a, b} /\ \A y \in {a, b} : m <= y OBVIOUS
<1>2. \A x \in {a, b} : (\A y \in {a, b} : x <= y) => x = m OBVIOUS
<1> HIDE DEF m
<1>3. (CHOOSE x \in {a, b} : \A y \in {a, b} : x <= y) = m BY <1>1, <1>2
<1> QED BY <1>3 DEF Min, m

\* A row that is judged dead again stays a row: the count saturates, the back-off
\* is between now and the longest interval.
LEMMA BackoffRow ==
  ASSUME NEW r \in Row
  PROVE  LET n == Min({r.count + 1, MaxCount})
         IN [probing |-> FALSE, count |-> n, due |-> Backoff(n)] \in Row
<1> DEFINE n == Min({r.count + 1, MaxCount})
<1>1. MaxCount \in Nat /\ MaxCount > 0 /\ Interval \in Nat /\ MaxInterval \in Nat
      /\ MaxOverdue \in Nat
  BY SlotAssumption, BoundAssumption
<1>2. r.count \in 0..MaxCount BY DEF Row
<1>3. n \in 1..MaxCount BY <1>1, <1>2, MinOfTwo
<1> HIDE DEF n
<1>4. n - 1 \in 0..MaxCount BY <1>1, <1>3
<1>5. 2 ^ (n - 1) \in Nat BY <1>4, PowerAssumption
<1> DEFINE p == 2 ^ (n - 1)
<1>6. Interval * p \in Nat
  <2> HIDE DEF p
  <2>1. p \in Nat BY <1>5 DEF p
  <2> QED BY <2>1, <1>1
<1>7. Backoff(n) = IF Interval * p <= MaxInterval THEN Interval * p ELSE MaxInterval
  <2> DEFINE x == Interval * p
  <2>1. Backoff(n) = Min({x, MaxInterval}) BY DEF Backoff
  <2>2. x \in Int BY <1>6
  <2> HIDE DEF x
  <2>3. Min({x, MaxInterval}) = IF x <= MaxInterval THEN x ELSE MaxInterval
    BY <2>2, <1>1, MinOfTwo
  <2> QED BY <2>1, <2>3 DEF x
<1>8. Backoff(n) \in 0..MaxInterval
  <2> DEFINE x == Interval * p
  <2>1. x \in Nat BY <1>6
  <2>2. Backoff(n) = IF x <= MaxInterval THEN x ELSE MaxInterval BY <1>7
  <2> HIDE DEF x
  <2> QED BY <2>1, <2>2, <1>1
<1>9. Backoff(n) \in (-MaxOverdue)..MaxInterval BY <1>1, <1>8
<1>10. n \in 0..MaxCount BY <1>1, <1>3
<1> QED BY <1>9, <1>10 DEF Row, n

\* What a command makes of the engine: the same torrents, h alone changed, and
\* paused exactly while somebody paused it.
EngineOK == /\ engine \in Tables(Torrent)
            /\ \A h \in DOMAIN engine : engine[h].st = "paused" <=> engine[h].by # "nobody"

Commanded(e, h, B) ==
  /\ e \in Tables(Torrent)
  /\ \A g \in DOMAIN e : e[g].st = "paused" <=> e[g].by # "nobody"
  /\ DOMAIN e = DOMAIN engine
  /\ \A g \in DOMAIN engine : g # h => e[g] = engine[g]
  /\ h \in DOMAIN engine => e[h].by \in B

LEMMA PauseDoes ==
  ASSUME EngineOK, NEW h, NEW who \in {"operator", "parking"}
  PROVE  Commanded(Pause(h, who), h, {engine[h].by, who})
<1>1. CASE ~Held(h) BY <1>1 DEF Pause, Commanded, EngineOK, Held
<1>2. CASE Held(h)
  <2> DEFINE v == [engine[h] EXCEPT !.st = "paused", !.forced = FALSE,
                                    !.by = IF @ = "nobody" THEN who ELSE @]
  <2>1. engine[h] \in Torrent BY <1>2, TableIs DEF EngineOK, Held
  <2>2. v \in Torrent /\ v.st = "paused" /\ v.by # "nobody" /\ v.by \in {engine[h].by, who}
    BY <2>1 DEF Torrent
  <2>3. Pause(h, who) = [engine EXCEPT ![h] = v] BY <1>2, <2>1, TableIs DEF Pause, EngineOK, Held
  <2> HIDE DEF v
  <2>4. v \in Torrent BY <2>2
  <2> DEFINE e == [engine EXCEPT ![h] = v]
  <2>5. /\ e \in Tables(Torrent) /\ DOMAIN e = DOMAIN engine /\ e[h] = v
        /\ \A x \in DOMAIN engine \ {h} : e[x] = engine[x]
    BY <1>2, <2>4, ExceptTable DEF EngineOK, Held
  <2> HIDE DEF e
  <2> QED BY <1>2, <2>2, <2>3, <2>5 DEF Commanded, EngineOK, Held, e
<1> QED BY <1>1, <1>2

LEMMA ResumeDoes ==
  ASSUME EngineOK, NEW h
  PROVE  Commanded(Resume(h), h, {"nobody"})
<1>1. CASE ~Held(h) BY <1>1 DEF Resume, Commanded, EngineOK, Held
<1>2. CASE Held(h)
  <2> DEFINE free == Cardinality(Active \ {h}) < Slots
  <2> HIDE DEF free
  <2> DEFINE v == [engine[h] EXCEPT !.st = IF @ = "active" /\ free THEN "active" ELSE "queued",
                                    !.forced = FALSE, !.by = "nobody"]
  <2>1. engine[h] \in Torrent BY <1>2, TableIs DEF EngineOK, Held
  <2>2. v \in Torrent /\ v.st # "paused" /\ v.by = "nobody"
    BY <2>1 DEF Torrent
  <2>3. Resume(h) = [engine EXCEPT ![h] = v]
    BY <1>2, <2>1, TableIs DEF Resume, EngineOK, Held, free
  <2> HIDE DEF v
  <2>4. v \in Torrent BY <2>2
  <2> DEFINE e == [engine EXCEPT ![h] = v]
  <2>5. /\ e \in Tables(Torrent) /\ DOMAIN e = DOMAIN engine /\ e[h] = v
        /\ \A x \in DOMAIN engine \ {h} : e[x] = engine[x]
    BY <1>2, <2>4, ExceptTable DEF EngineOK, Held
  <2> HIDE DEF e
  <2> QED BY <1>2, <2>2, <2>3, <2>5 DEF Commanded, EngineOK, Held, e
<1> QED BY <1>1, <1>2

LEMMA ForceStartDoes ==
  ASSUME EngineOK, NEW h
  PROVE  Commanded(ForceStart(h), h, {"nobody"})
<1>1. CASE ~Held(h) BY <1>1 DEF ForceStart, Commanded, EngineOK, Held
<1>2. CASE Held(h)
  <2> DEFINE v == [engine[h] EXCEPT !.st = "active", !.forced = TRUE, !.by = "nobody"]
  <2>1. engine[h] \in Torrent BY <1>2, TableIs DEF EngineOK, Held
  <2>2. v \in Torrent /\ v.st # "paused" /\ v.by = "nobody"
    BY <2>1 DEF Torrent
  <2>3. ForceStart(h) = [engine EXCEPT ![h] = v]
    BY <1>2, <2>1, TableIs DEF ForceStart, EngineOK, Held
  <2> HIDE DEF v
  <2>4. v \in Torrent BY <2>2
  <2> DEFINE e == [engine EXCEPT ![h] = v]
  <2>5. /\ e \in Tables(Torrent) /\ DOMAIN e = DOMAIN engine /\ e[h] = v
        /\ \A x \in DOMAIN engine \ {h} : e[x] = engine[x]
    BY <1>2, <2>4, ExceptTable DEF EngineOK, Held
  <2> HIDE DEF e
  <2> QED BY <1>2, <2>2, <2>3, <2>5 DEF Commanded, EngineOK, Held, e
<1> QED BY <1>1, <1>2

----------------------------------------------------------------------------
(* The activations.                                                         *)

Activation == [pc : Phases, list : [Torrents -> Verdicts],
               todo : SUBSET Torrents, cur : SUBSET Torrents]
CallOK == call \in [Calls -> Activation]

\* c alone moves on: to phase p, with a listing, what is to do and what is at hand.
Becomes(c, p, list, todo, cur) ==
  /\ call'[c].pc = p /\ call'[c].list = list /\ call'[c].todo = todo /\ call'[c].cur = cur
  /\ \A d \in Calls : d # c => call'[d] = call[d]
  /\ CallOK'

LEMMA IdleTyped == Idle \in Activation
BY DEF Idle, Activation, Phases, Verdicts

LEMMA Becoming ==
  ASSUME CallOK, NEW c \in Calls, NEW a \in Activation, call' = [call EXCEPT ![c] = a]
  PROVE  Becomes(c, a.pc, a.list, a.todo, a.cur)
BY DEF CallOK, Becomes

LEMMA DoneDoes ==
  ASSUME CallOK, NEW c \in Calls, NEW p \in Phases, NEW h, Done(c, p, h)
  PROVE  Becomes(c, p, call[c].list, call[c].todo \ {h}, {})
<1> DEFINE a == [call[c] EXCEPT !.pc = p, !.todo = @ \ {h}, !.cur = {}]
<1>1. call[c] \in Activation BY DEF CallOK
<1>2. a \in Activation BY <1>1 DEF Activation
<1>3. /\ a.pc = p /\ a.list = call[c].list /\ a.cur = {}
      /\ a.todo = call[c].todo \ {h}
  BY <1>1 DEF Activation
<1>4. call' = [call EXCEPT ![c] = a] BY <1>1 DEF Done, CallOK
<1> HIDE DEF a
<1> QED BY <1>2, <1>3, <1>4, Becoming

LEMMA ToldDoes ==
  ASSUME CallOK, NEW c \in Calls, NEW p \in Phases, NEW h \in Torrents, Told(c, p, h)
  PROVE  Becomes(c, p, call[c].list, call[c].todo, {h})
<1> DEFINE a == [call[c] EXCEPT !.pc = p, !.cur = {h}]
<1>1. call[c] \in Activation BY DEF CallOK
<1>2. a \in Activation BY <1>1 DEF Activation
<1>3. a.pc = p /\ a.list = call[c].list /\ a.cur = {h} /\ a.todo = call[c].todo
  BY <1>1 DEF Activation
<1>4. call' = [call EXCEPT ![c] = a] BY <1>1 DEF Told, CallOK
<1> HIDE DEF a
<1> QED BY <1>2, <1>3, <1>4, Becoming

\* The pass reads: it goes on at p with the rows it read.
LEMMA ReadDoes ==
  ASSUME CallOK, NEW c \in Calls, NEW p \in Phases, NEW T \in SUBSET Torrents,
         call' = [call EXCEPT ![c].pc = p, ![c].todo = T]
  PROVE  Becomes(c, p, call[c].list, T, call[c].cur)
<1> DEFINE a == [call[c] EXCEPT !.pc = p, !.todo = T]
<1>1. call[c] \in Activation BY DEF CallOK
<1>2. a \in Activation BY <1>1 DEF Activation
<1>3. a.pc = p /\ a.list = call[c].list /\ a.cur = call[c].cur /\ a.todo = T
  BY <1>1 DEF Activation
<1>4. call' = [call EXCEPT ![c] = a] BY <1>1 DEF CallOK
<1> HIDE DEF a
<1> QED BY <1>2, <1>3, <1>4, Becoming

\* The listing: only what the engine does not hold is gone.
LEMMA VerdictIs ==
  ASSUME NEW h
  PROVE  Verdict(h) \in Verdicts /\ (Verdict(h) = "gone" <=> ~Held(h))
BY DEF Verdict, Verdicts

LEMMA ListDoes ==
  ASSUME CallOK, NEW c \in Calls, List(c)
  PROVE  /\ call[c].pc = "idle"
         /\ Becomes(c, "listed", [h \in Torrents |-> Verdict(h)], call[c].todo, call[c].cur)
<1> DEFINE L == [h \in Torrents |-> Verdict(h)]
<1>1. L \in [Torrents -> Verdicts] BY VerdictIs
<1>2. call' = [call EXCEPT ![c].pc = "listed", ![c].list = L] BY DEF List
<1> HIDE DEF L
<1> DEFINE a == [call[c] EXCEPT !.pc = "listed", !.list = L]
<1>3. call[c] \in Activation BY DEF CallOK
<1>4. a \in Activation BY <1>1, <1>3 DEF Activation, Phases
<1>5. a.pc = "listed" /\ a.list = L /\ a.cur = call[c].cur /\ a.todo = call[c].todo
  BY <1>3 DEF Activation
<1>6. call' = [call EXCEPT ![c] = a] BY <1>2, <1>3 DEF CallOK
<1> HIDE DEF a
<1>7. Becomes(c, "listed", L, call[c].todo, call[c].cur) BY <1>4, <1>5, <1>6, Becoming
<1> QED BY <1>7 DEF L, List, At

----------------------------------------------------------------------------
(* One lemma per action.                                                    *)

HistOK == disturbed \in BOOLEAN /\ events \in 0..MaxEvents

LEMMA TypeIs ==
  ASSUME TypeOK
  PROVE  EngineOK /\ CallOK /\ HistOK /\ swarm \subseteq Torrents /\ parked \in Tables(Row)
BY DEF TypeOK, EngineOK, CallOK, HistOK, Activation

LEMMA TypeNext ==
  ASSUME EngineOK', CallOK', HistOK', swarm' \subseteq Torrents, parked' \in Tables(Row)
  PROVE  TypeOK'
BY DEF TypeOK, EngineOK, CallOK, HistOK, Activation

\* An event is counted; the bookkeeping is not mended by it.
LEMMA EventDoes ==
  ASSUME HistOK, NEW d \in BOOLEAN, Event(d)
  PROVE  HistOK' /\ (~disturbed' => ~disturbed /\ ~d)
BY BoundAssumption DEF HistOK, Event

\* While undisturbed, whoever is under way is the scheduled pass.
LEMMA Alone ==
  ASSUME Bookkeeping, ~disturbed, NEW c \in {"tick", "runNow"}, ~At(c, "idle")
  PROVE  c = "tick"
BY DEF Bookkeeping, OnlyTheTick, At

\* Initially nothing is parked and nothing is under way.
LEMMA Initially == Init => ParkingInv
<1> SUFFICES ASSUME Init PROVE ParkingInv OBVIOUS
<1>1. engine \in [Torrents -> {Queued, Stopped}] BY DEF Init
<1>2. parked = <<>> BY DEF Init
<1>3. \A c \in Calls : call[c] = Idle BY DEF Init
<1>4. EngineOK
  <2>1. Queued \in Torrent /\ Stopped \in Torrent BY DEF Queued, Stopped, Torrent
  <2>2. engine \in Tables(Torrent) BY <1>1, <2>1, TableIs
  <2>3. \A h \in DOMAIN engine : engine[h].st = "paused" <=> engine[h].by # "nobody"
    BY <1>1 DEF Queued, Stopped
  <2> QED BY <2>2, <2>3 DEF EngineOK
<1>5. CallOK BY IdleTyped DEF CallOK, Init
<1>6. parked \in Tables(Row) /\ DOMAIN parked = {}
  <2>1. DOMAIN <<>> = {} OBVIOUS
  <2>2. <<>> \in [{} -> Row] OBVIOUS
  <2> QED BY <1>2, <2>1, <2>2 DEF Tables
<1>7. HistOK
  <2>1. disturbed = FALSE /\ events = 0 BY DEF Init
  <2>2. disturbed \in BOOLEAN BY <2>1
  <2>3. events \in 0..MaxEvents BY <2>1, BoundAssumption
  <2> QED BY <2>2, <2>3 DEF HistOK
<1>8. TypeOK BY <1>4, <1>5, <1>6, <1>7 DEF TypeOK, EngineOK, CallOK, HistOK, Activation, Init
<1>9. \A h \in DOMAIN engine : engine[h].by # "parking" BY <1>1 DEF Queued, Stopped
<1>10. /\ call["tick"].pc = "idle" /\ call["tick"].cur = {}
       /\ call["runNow"].pc = "idle" /\ call["runNow"].cur = {}
       /\ call["unpark"].pc = "idle" /\ call["unpark"].cur = {}
  BY <1>3 DEF Calls, Idle
<1>11. Bookkeeping
  BY <1>9, <1>10 DEF Bookkeeping, OnlyTheTick, PassKnowsItsRows, GoneIsGone,
     RevivedBeforeForgotten, Remembered, Pass
<1> QED BY <1>8, <1>11 DEF ParkingInv

\* The engine and the operator: nothing is paused in parking's name.
LEMMA EngineMoves ==
  ASSUME ParkingInv, UNCHANGED <<parked, call>>, ~disturbed' => ~disturbed,
         DOMAIN engine' \subseteq DOMAIN engine,
         \A g \in DOMAIN engine' : engine'[g].by = "parking" => engine[g].by = "parking"
  PROVE  Bookkeeping'
<1> SUFFICES ASSUME ~disturbed' PROVE Bookkeeping' BY DEF Bookkeeping
<1>1. OnlyTheTick /\ PassKnowsItsRows /\ GoneIsGone /\ RevivedBeforeForgotten /\ Remembered
  BY DEF ParkingInv, Bookkeeping
<1>2. OnlyTheTick' /\ PassKnowsItsRows' BY <1>1 DEF OnlyTheTick, PassKnowsItsRows, Pass
<1>3. GoneIsGone' BY <1>1 DEF GoneIsGone, Pass
<1>4. RevivedBeforeForgotten' BY <1>1 DEF RevivedBeforeForgotten, Pass, Held
<1>5. Remembered' BY <1>1 DEF Remembered, Pass
<1> QED BY <1>2, <1>3, <1>4, <1>5 DEF Bookkeeping

\* A torrent changes in place, and not in who paused it.
LEMMA PromoteKeeps ==
  ASSUME ParkingInv, NEW h \in Torrents, Promote(h) \/ Finish(h)
  PROVE  ParkingInv'
<1>1. EngineOK /\ CallOK /\ HistOK /\ swarm \subseteq Torrents /\ parked \in Tables(Row)
  BY TypeIs DEF ParkingInv
<1>2. h \in DOMAIN engine /\ UNCHANGED <<swarm, parked, call, disturbed, events>>
  BY DEF Promote, Finish, Held, hist
<1>3. engine[h] \in Torrent BY <1>1, <1>2, TableIs DEF EngineOK
<1>4. PICK v \in Torrent : /\ engine' = [engine EXCEPT ![h] = v]
                           /\ v.by = engine[h].by /\ (v.st = "paused" <=> v.by # "nobody")
  <2>1. CASE Promote(h)
    <3> DEFINE v == [engine[h] EXCEPT !.st = "active"]
    <3>1. v \in Torrent /\ v.by = engine[h].by /\ v.st = "active" BY <1>3 DEF Torrent
    <3>2. engine[h].by = "nobody" BY <1>1, <1>2, <2>1 DEF EngineOK, Promote
    <3>3. engine' = [engine EXCEPT ![h] = v] BY <1>2, <2>1 DEF Promote
    <3> HIDE DEF v
    <3> QED BY <3>1, <3>2, <3>3
  <2>2. CASE Finish(h)
    <3> DEFINE v == [engine[h] EXCEPT !.done = TRUE]
    <3>1. v \in Torrent /\ v.by = engine[h].by /\ v.st = engine[h].st BY <1>3 DEF Torrent
    <3>2. engine[h].st = "paused" <=> engine[h].by # "nobody" BY <1>1, <1>2 DEF EngineOK
    <3>3. engine' = [engine EXCEPT ![h] = v] BY <1>2, <2>2 DEF Finish
    <3> HIDE DEF v
    <3> QED BY <3>1, <3>2, <3>3
  <2> QED BY <2>1, <2>2
<1>5. /\ engine' \in Tables(Torrent) /\ DOMAIN engine' = DOMAIN engine
      /\ engine'[h] = v /\ \A x \in DOMAIN engine \ {h} : engine'[x] = engine[x]
  BY <1>1, <1>2, <1>4, ExceptTable DEF EngineOK
<1>6. EngineOK' BY <1>1, <1>4, <1>5 DEF EngineOK
<1>7. TypeOK' BY <1>1, <1>2, <1>6, TypeNext DEF CallOK, HistOK
<1>8. Bookkeeping' BY <1>2, <1>4, <1>5, EngineMoves
<1> QED BY <1>7, <1>8 DEF ParkingInv

LEMMA SwarmKeeps ==
  ASSUME ParkingInv, NEW h \in Torrents, SwarmChanges(h)
  PROVE  ParkingInv'
<1>1. EngineOK /\ CallOK /\ HistOK /\ swarm \subseteq Torrents /\ parked \in Tables(Row)
  BY TypeIs DEF ParkingInv
<1>2. UNCHANGED <<engine, parked, call>> /\ swarm' \subseteq Torrents
  BY <1>1 DEF SwarmChanges
<1>3. HistOK' /\ (~disturbed' => ~disturbed) BY <1>1, EventDoes DEF SwarmChanges
<1>4. TypeOK' BY <1>1, <1>2, <1>3, TypeNext DEF CallOK, EngineOK
<1>5. Bookkeeping' BY <1>2, <1>3, EngineMoves
<1> QED BY <1>4, <1>5 DEF ParkingInv

LEMMA OperatorKeeps ==
  ASSUME ParkingInv, NEW h \in Torrents, OperatorActs(h)
  PROVE  ParkingInv'
<1>1. EngineOK /\ CallOK /\ HistOK /\ swarm \subseteq Torrents /\ parked \in Tables(Row)
  BY TypeIs DEF ParkingInv
<1>2. UNCHANGED <<swarm, parked, call>> /\ Held(h)
  BY DEF OperatorActs
<1>3. HistOK' /\ (~disturbed' => ~disturbed) BY <1>1, EventDoes DEF OperatorActs
<1>4. /\ EngineOK' /\ DOMAIN engine' \subseteq DOMAIN engine
      /\ \A g \in DOMAIN engine' : engine'[g].by = "parking" => engine[g].by = "parking"
  <2>1. CASE engine[h].st # "paused" /\ engine' = Pause(h, "operator")
    <3>1. engine[h].by = "nobody" BY <1>1, <1>2, <2>1 DEF EngineOK, Held
    <3>2. Commanded(engine', h, {engine[h].by, "operator"}) BY <1>1, <2>1, PauseDoes
    <3> QED BY <1>2, <3>1, <3>2 DEF Commanded, EngineOK, Held
  <2>2. CASE engine' = Resume(h)
    <3>1. Commanded(engine', h, {"nobody"}) BY <1>1, <2>2, ResumeDoes
    <3> QED BY <1>2, <3>1 DEF Commanded, EngineOK, Held
  <2>3. CASE engine' = Restrict(engine, DOMAIN engine \ {h})
    <3>1. /\ engine' \in Tables(Torrent) /\ DOMAIN engine' = DOMAIN engine \ {h}
          /\ \A x \in DOMAIN engine' : engine'[x] = engine[x]
      BY <1>1, <2>3, TableIs DEF EngineOK, Restrict
    <3> QED BY <1>1, <3>1 DEF EngineOK
  <2> QED BY <2>1, <2>2, <2>3 DEF OperatorActs
<1>5. TypeOK' BY <1>1, <1>2, <1>3, <1>4, TypeNext DEF CallOK
<1>6. Bookkeeping' BY <1>2, <1>3, <1>4, EngineMoves
<1> QED BY <1>5, <1>6 DEF ParkingInv

\* A pass starts; time goes by for the rows.
LEMMA TickKeeps ==
  ASSUME ParkingInv, Tick
  PROVE  ParkingInv'
<1>1. EngineOK /\ CallOK /\ HistOK /\ swarm \subseteq Torrents /\ parked \in Tables(Row)
  BY TypeIs DEF ParkingInv
<1>2. UNCHANGED <<engine, swarm, disturbed, events>> BY DEF Tick, hist
<1>3. "tick" \in Calls BY DEF Calls
<1>4. /\ Pass.pc = "idle"
      /\ Becomes("tick", "listed", [h \in Torrents |-> Verdict(h)], Pass.todo, Pass.cur)
  BY <1>1, <1>3, ListDoes DEF Tick, Pass
<1>5. parked' \in Tables(Row) /\ DOMAIN parked' = DOMAIN parked
  <2> DEFINE row(h) == [parked[h] EXCEPT !.due = IF @ > -MaxOverdue THEN @ - 1 ELSE @]
  <2>1. ASSUME NEW h \in DOMAIN parked PROVE row(h) \in Row
    <3>1. parked[h] \in Row BY <1>1, TableIs
    <3> QED BY <3>1, SlotAssumption, BoundAssumption DEF Row
  <2>2. parked' = [h \in DOMAIN parked |-> row(h)] BY DEF Tick
  <2> HIDE DEF row
  <2> QED BY <1>1, <2>1, <2>2, TableIs
<1>6. TypeOK' BY <1>1, <1>2, <1>4, <1>5, TypeNext DEF Becomes, EngineOK, HistOK
<1>7. Bookkeeping'
  <2> SUFFICES ASSUME ~disturbed' PROVE Bookkeeping' BY DEF Bookkeeping
  <2>1. OnlyTheTick /\ PassKnowsItsRows /\ Remembered
    BY <1>2 DEF ParkingInv, Bookkeeping
  <2>2. OnlyTheTick' BY <1>4, <2>1 DEF OnlyTheTick, Becomes, Calls
  <2>3. PassKnowsItsRows' BY <1>4, <2>1 DEF PassKnowsItsRows, Becomes, Pass
  <2>4. GoneIsGone'
    <3>1. \A h \in DOMAIN engine : h \in Torrents BY <1>1, TableIs DEF EngineOK
    <3> QED BY <1>2, <1>4, <3>1, VerdictIs DEF GoneIsGone, Becomes, Pass, Held
  <2>5. RevivedBeforeForgotten' BY <1>4 DEF RevivedBeforeForgotten, Becomes, Pass
  <2>6. Remembered' BY <1>2, <1>4, <1>5, <2>1 DEF Remembered, Becomes, Pass
  <2> QED BY <2>2, <2>3, <2>4, <2>5, <2>6 DEF Bookkeeping
<1> QED BY <1>6, <1>7 DEF ParkingInv

\* Once disturbed, only the types are left to keep.
LEMMA DisturbedKeeps ==
  ASSUME ParkingInv, disturbed', TypeOK'
  PROVE  ParkingInv'
BY DEF ParkingInv, Bookkeeping

\* runNow, unpark, a failing call and a restart.
LEMMA RunNowKeeps ==
  ASSUME ParkingInv, RunNow
  PROVE  ParkingInv'
<1>1. EngineOK /\ CallOK /\ HistOK /\ swarm \subseteq Torrents /\ parked \in Tables(Row)
  BY TypeIs DEF ParkingInv
<1>2. UNCHANGED <<engine, swarm, parked>> /\ List("runNow") /\ Event(TRUE) BY DEF RunNow
<1>3. HistOK' BY <1>1, <1>2, EventDoes
<1>4. disturbed' BY <1>1, <1>2, EventDoes
<1>5. "runNow" \in Calls BY DEF Calls
<1>6. CallOK' BY <1>1, <1>2, <1>5, ListDoes DEF Becomes
<1>7. TypeOK' BY <1>1, <1>2, <1>3, <1>6, TypeNext DEF EngineOK
<1> QED BY <1>4, <1>7, DisturbedKeeps

LEMMA UnparkKeeps ==
  ASSUME ParkingInv, NEW h \in Torrents, Unpark(h)
  PROVE  ParkingInv'
<1>1. EngineOK /\ CallOK /\ HistOK /\ swarm \subseteq Torrents /\ parked \in Tables(Row)
  BY TypeIs DEF ParkingInv
<1>2. /\ UNCHANGED <<swarm, parked>> /\ Event(TRUE) /\ engine' = Resume(h)
      /\ Told("unpark", "forget", h)
  BY DEF Unpark
<1>3. HistOK' /\ disturbed' BY <1>1, <1>2, EventDoes
<1>4. "unpark" \in Calls /\ "forget" \in Phases BY DEF Calls, Phases
<1>5. CallOK' BY <1>1, <1>2, <1>4, ToldDoes DEF Becomes
<1>6. Commanded(engine', h, {"nobody"}) BY <1>1, <1>2, ResumeDoes
<1>7. EngineOK' BY <1>6 DEF Commanded, EngineOK
<1>8. TypeOK' BY <1>1, <1>2, <1>3, <1>5, <1>7, TypeNext
<1> QED BY <1>3, <1>8, DisturbedKeeps

LEMMA UnparkForgetKeeps ==
  ASSUME ParkingInv, NEW h \in Torrents, UnparkForget(h)
  PROVE  ParkingInv'
<1>1. EngineOK /\ CallOK /\ HistOK /\ swarm \subseteq Torrents /\ parked \in Tables(Row)
  BY TypeIs DEF ParkingInv
<1>2. UNCHANGED <<engine, swarm, disturbed, events>> /\ At("unpark", "forget") /\ Forget(h)
      /\ call' = [call EXCEPT !["unpark"] = Idle]
  BY DEF UnparkForget, hist
<1>3. disturbed BY <1>2 DEF ParkingInv, Bookkeeping, OnlyTheTick, At
<1>4. CallOK' BY <1>1, <1>2, IdleTyped DEF CallOK
<1>5. parked' \in Tables(Row) BY <1>1, <1>2, TableIs DEF Forget, Restrict
<1>6. TypeOK' BY <1>1, <1>2, <1>4, <1>5, TypeNext DEF EngineOK, HistOK
<1> QED BY <1>2, <1>3, <1>6, DisturbedKeeps

LEMMA RestartKeeps ==
  ASSUME ParkingInv, Restart
  PROVE  ParkingInv'
<1>1. EngineOK /\ CallOK /\ HistOK /\ swarm \subseteq Torrents /\ parked \in Tables(Row)
  BY TypeIs DEF ParkingInv
<1>2. UNCHANGED <<engine, swarm, parked>> /\ Event(TRUE) /\ call' = [c \in Calls |-> Idle]
  BY DEF Restart
<1>3. HistOK' /\ disturbed' BY <1>1, <1>2, EventDoes
<1>4. CallOK' BY <1>2, IdleTyped DEF CallOK
<1>5. TypeOK' BY <1>1, <1>2, <1>3, <1>4, TypeNext DEF EngineOK
<1> QED BY <1>3, <1>5, DisturbedKeeps

LEMMA CallFailsKeeps ==
  ASSUME ParkingInv, NEW c \in {"tick", "runNow"}, NEW h \in Torrents, CallFails(c, h)
  PROVE  ParkingInv'
<1>1. EngineOK /\ CallOK /\ HistOK /\ swarm \subseteq Torrents /\ parked \in Tables(Row)
  BY TypeIs DEF ParkingInv
<1>2. UNCHANGED <<engine, swarm, parked>> /\ Event(TRUE) BY DEF CallFails
<1>3. HistOK' /\ disturbed' BY <1>1, <1>2, EventDoes
<1>4. c \in Calls BY DEF Calls
<1>5. PICK p \in {"judge", "park", "probe"} : Done(c, p, h) BY DEF CallFails
<1>6. p \in Phases BY DEF Phases
<1>7. CallOK' BY <1>1, <1>4, <1>5, <1>6, DoneDoes DEF Becomes
<1>8. TypeOK' BY <1>1, <1>2, <1>3, <1>7, TypeNext DEF EngineOK
<1> QED BY <1>3, <1>8, DisturbedKeeps

----------------------------------------------------------------------------
(* The steps of a pass.                                                     *)

\* What every step of a pass keeps: it is the only activation, and its listing is
\* no staler than the engine is poorer.
LEMMA PassMoves ==
  ASSUME ParkingInv, NEW c \in {"tick", "runNow"}, ~At(c, "idle"), UNCHANGED disturbed,
         NEW p, NEW L, NEW T, NEW K, Becomes(c, p, L, T, K),
         p # "idle" => L = call[c].list,
         DOMAIN engine' = DOMAIN engine,
         ~disturbed /\ c = "tick"
           => PassKnowsItsRows' /\ RevivedBeforeForgotten' /\ Remembered'
  PROVE  Bookkeeping'
<1> SUFFICES ASSUME ~disturbed' PROVE Bookkeeping' BY DEF Bookkeeping
<1>1. OnlyTheTick /\ GoneIsGone BY DEF ParkingInv, Bookkeeping
<1>2. c = "tick" BY Alone DEF ParkingInv
<1>3. OnlyTheTick' BY <1>1, <1>2 DEF OnlyTheTick, Becomes, Calls
<1>4. GoneIsGone' BY <1>1, <1>2 DEF GoneIsGone, Becomes, Pass, At
<1> QED BY <1>2, <1>3, <1>4 DEF Bookkeeping

\* What the pass knows, while it is undisturbed.
LEMMA PassKnows ==
  ASSUME ParkingInv, ~disturbed
  PROVE  PassKnowsItsRows /\ GoneIsGone /\ RevivedBeforeForgotten /\ Remembered
BY DEF ParkingInv, Bookkeeping

\* The three reads: probes in flight, dead torrents without a row, probes due.
LEMMA ReadsKeep ==
  ASSUME ParkingInv, NEW c \in {"tick", "runNow"},
         ReadProbing(c) \/ ReadParked(c) \/ ReadDue(c)
  PROVE  ParkingInv'
<1>1. EngineOK /\ CallOK /\ HistOK /\ swarm \subseteq Torrents /\ parked \in Tables(Row)
  BY TypeIs DEF ParkingInv
<1>2. UNCHANGED <<engine, swarm, parked, disturbed, events>>
  BY DEF ReadProbing, ReadParked, ReadDue, hist
<1>3. c \in Calls BY DEF Calls
<1>4. DOMAIN parked \subseteq Torrents BY <1>1, TableIs
<1>5. PICK p \in Phases, T \in SUBSET Torrents :
        /\ call' = [call EXCEPT ![c].pc = p, ![c].todo = T]
        /\ call[c].pc \in {"listed", "judge", "park"} /\ p \in {"judge", "park", "probe"}
        /\ p # "park" => T \subseteq DOMAIN parked
  <2>1. CASE ReadProbing(c) BY <1>4, <2>1 DEF ReadProbing, Phases, At
  <2>2. CASE ReadParked(c) BY <2>2 DEF ReadParked, Phases, At
  <2>3. CASE ReadDue(c) BY <1>4, <2>3 DEF ReadDue, Phases, At, Due
  <2> QED BY <2>1, <2>2, <2>3
<1>6. Becomes(c, p, call[c].list, T, call[c].cur) BY <1>1, <1>3, <1>5, ReadDoes
<1>7. TypeOK' BY <1>1, <1>2, <1>6, TypeNext DEF Becomes, EngineOK, HistOK
<1>8. ASSUME ~disturbed, c = "tick"
      PROVE  PassKnowsItsRows' /\ RevivedBeforeForgotten' /\ Remembered'
  <2>1. PassKnowsItsRows' BY <1>2, <1>5, <1>6, <1>8, PassKnows DEF PassKnowsItsRows, Becomes, Pass
  <2>2. RevivedBeforeForgotten' BY <1>5, <1>6, <1>8 DEF RevivedBeforeForgotten, Becomes, Pass
  <2>3. Remembered' BY <1>2, <1>5, <1>6, <1>8, PassKnows DEF Remembered, Becomes, Pass
  <2> QED BY <2>1, <2>2, <2>3
<1>9. Bookkeeping' BY <1>2, <1>5, <1>6, <1>8, PassMoves DEF At
<1> QED BY <1>7, <1>9 DEF ParkingInv

LEMMA EndPassKeeps ==
  ASSUME ParkingInv, NEW c \in {"tick", "runNow"}, EndPass(c)
  PROVE  ParkingInv'
<1>1. EngineOK /\ CallOK /\ HistOK /\ swarm \subseteq Torrents /\ parked \in Tables(Row)
  BY TypeIs DEF ParkingInv
<1>2. UNCHANGED <<engine, swarm, parked, disturbed, events>> /\ call[c].pc = "probe"
      /\ call' = [call EXCEPT ![c] = Idle]
  BY DEF EndPass, hist, At
<1>3. c \in Calls BY DEF Calls
<1>4. Becomes(c, Idle.pc, Idle.list, Idle.todo, Idle.cur) BY <1>1, <1>2, <1>3, IdleTyped, Becoming
<1>5. Becomes(c, "idle", Idle.list, {}, {}) BY <1>4 DEF Idle
<1>6. TypeOK' BY <1>1, <1>2, <1>5, TypeNext DEF Becomes, EngineOK, HistOK
<1>7. ASSUME ~disturbed, c = "tick"
      PROVE  PassKnowsItsRows' /\ RevivedBeforeForgotten' /\ Remembered'
  <2>1. PassKnowsItsRows' BY <1>5, <1>7 DEF PassKnowsItsRows, Becomes, Pass
  <2>2. RevivedBeforeForgotten' BY <1>5, <1>7 DEF RevivedBeforeForgotten, Becomes, Pass
  <2>3. Remembered' BY <1>2, <1>5, <1>7, PassKnows DEF Remembered, Becomes, Pass
  <2> QED BY <2>1, <2>2, <2>3
<1>8. Bookkeeping' BY <1>2, <1>5, <1>7, PassMoves DEF At
<1> QED BY <1>6, <1>8 DEF ParkingInv

\* The steps that delete a row: of a torrent that is gone, or that was revived.
LEMMA ForgetKeeps ==
  ASSUME ParkingInv, NEW c \in {"tick", "runNow"}, NEW h \in Torrents,
         JudgeGone(c, h) \/ ProbeGone(c, h) \/ JudgeForget(c, h)
  PROVE  ParkingInv'
<1>1. EngineOK /\ CallOK /\ HistOK /\ swarm \subseteq Torrents /\ parked \in Tables(Row)
  BY TypeIs DEF ParkingInv
<1>2. UNCHANGED <<engine, swarm, disturbed, events>> /\ Forget(h)
  BY DEF JudgeGone, ProbeGone, JudgeForget, hist
<1>3. c \in Calls /\ "judge" \in Phases /\ "probe" \in Phases BY DEF Calls, Phases
<1>4. PICK p \in {"judge", "probe"} :
        /\ Done(c, p, h)
        /\ \/ call[c].pc = p /\ call[c].list[h] = "gone"
           \/ call[c].pc = "judgeForget" /\ p = "judge" /\ h \in call[c].cur
  BY DEF JudgeGone, ProbeGone, JudgeForget, At
<1>5. Becomes(c, p, call[c].list, call[c].todo \ {h}, {}) BY <1>1, <1>3, <1>4, DoneDoes
<1>6. parked' \in Tables(Row) /\ DOMAIN parked' = DOMAIN parked \ {h}
  BY <1>1, <1>2, TableIs DEF Forget, Restrict
<1>7. TypeOK' BY <1>1, <1>2, <1>5, <1>6, TypeNext DEF Becomes, EngineOK, HistOK
<1>8. ASSUME ~disturbed, c = "tick"
      PROVE  PassKnowsItsRows' /\ RevivedBeforeForgotten' /\ Remembered'
  <2>1. Pass.pc \in {"judge", "probe", "judgeForget"} BY <1>4, <1>8 DEF Pass
  <2>2. Pass.todo \subseteq DOMAIN parked BY <1>8, <2>1, PassKnows DEF PassKnowsItsRows
  <2>3. PassKnowsItsRows' BY <1>4, <1>5, <1>6, <1>8, <2>2 DEF PassKnowsItsRows, Becomes, Pass
  <2>4. RevivedBeforeForgotten' BY <1>4, <1>5, <1>8 DEF RevivedBeforeForgotten, Becomes, Pass
  <2>5. h \in DOMAIN engine => engine[h].by # "parking"
    <3>1. CASE call[c].list[h] = "gone" /\ call[c].pc = p
      BY <1>8, <3>1, PassKnows DEF GoneIsGone, Pass
    <3>2. CASE call[c].pc = "judgeForget" /\ h \in call[c].cur
      BY <1>8, <3>2, PassKnows DEF RevivedBeforeForgotten, Pass, Held
    <3> QED BY <1>4, <3>1, <3>2
  <2>6. Remembered'
    BY <1>2, <1>6, <1>8, <2>1, <2>5, PassKnows DEF Remembered, Pass
  <2> QED BY <2>3, <2>4, <2>6
<1>9. Bookkeeping' BY <1>2, <1>4, <1>5, <1>8, PassMoves DEF At
<1> QED BY <1>7, <1>9 DEF ParkingInv

\* The steps that tell the engine first: revive, pause again, park, probe.
LEMMA TellKeeps ==
  ASSUME ParkingInv, NEW c \in {"tick", "runNow"}, NEW h \in Torrents,
         Revive(c, h) \/ StillDead(c, h) \/ ParkDead(c, h) \/ StartProbe(c, h)
  PROVE  ParkingInv'
<1>1. EngineOK /\ CallOK /\ HistOK /\ swarm \subseteq Torrents /\ parked \in Tables(Row)
  BY TypeIs DEF ParkingInv
<1>2. UNCHANGED <<swarm, parked, disturbed, events>> /\ h \in call[c].todo
  BY DEF Revive, StillDead, ParkDead, StartProbe, hist
<1>3. c \in Calls BY DEF Calls
<1>4. PICK p \in {"judgeForget", "judgeUpdate", "parkCreate", "probeUpdate"} :
        /\ Told(c, p, h)
        /\ \/ p = "judgeForget" /\ call[c].pc = "judge" /\ engine' = Resume(h)
           \/ p = "judgeUpdate" /\ call[c].pc = "judge" /\ engine' = Pause(h, "parking")
           \/ p = "parkCreate" /\ call[c].pc = "park" /\ engine' = Pause(h, "parking")
           \/ p = "probeUpdate" /\ call[c].pc = "probe" /\ engine' = ForceStart(h)
  BY DEF Revive, StillDead, ParkDead, StartProbe, At
<1>5. p \in Phases BY DEF Phases
<1>6. Becomes(c, p, call[c].list, call[c].todo, {h}) BY <1>1, <1>3, <1>4, <1>5, ToldDoes
<1>7. /\ EngineOK' /\ DOMAIN engine' = DOMAIN engine
      /\ \A g \in DOMAIN engine : g # h => engine'[g] = engine[g]
      /\ h \in DOMAIN engine /\ p = "judgeForget" => engine'[h].by = "nobody"
  <2>1. CASE engine' = Resume(h)
    <3>1. Commanded(engine', h, {"nobody"}) BY <1>1, <2>1, ResumeDoes
    <3> QED BY <3>1 DEF Commanded, EngineOK
  <2>2. CASE engine' = Pause(h, "parking") /\ p # "judgeForget"
    <3>1. Commanded(engine', h, {engine[h].by, "parking"}) BY <1>1, <2>2, PauseDoes
    <3> QED BY <2>2, <3>1 DEF Commanded, EngineOK
  <2>3. CASE engine' = ForceStart(h)
    <3>1. Commanded(engine', h, {"nobody"}) BY <1>1, <2>3, ForceStartDoes
    <3> QED BY <3>1 DEF Commanded, EngineOK
  <2> QED BY <1>4, <2>1, <2>2, <2>3
<1>8. TypeOK' BY <1>1, <1>2, <1>6, <1>7, TypeNext DEF Becomes, HistOK
<1>9. ASSUME ~disturbed, c = "tick"
      PROVE  PassKnowsItsRows' /\ RevivedBeforeForgotten' /\ Remembered'
  <2>1. /\ Pass.pc \in {"judge", "park", "probe"}
        /\ p # "parkCreate" => Pass.pc # "park"
    BY <1>4, <1>9 DEF Pass
  <2>2. p # "parkCreate" => Pass.todo \subseteq DOMAIN parked
    BY <1>9, <2>1, PassKnows DEF PassKnowsItsRows
  <2>3. PassKnowsItsRows' BY <1>2, <1>4, <1>6, <1>9, <2>2 DEF PassKnowsItsRows, Becomes, Pass
  <2>4. RevivedBeforeForgotten' BY <1>6, <1>7, <1>9 DEF RevivedBeforeForgotten, Becomes, Pass, Held
  <2>5. h \in DOMAIN parked \/ p = "parkCreate" BY <1>2, <1>9, <2>2 DEF Pass
  <2>6. Remembered'
    BY <1>2, <1>6, <1>7, <1>9, <2>1, <2>5, PassKnows DEF Remembered, Becomes, Pass
  <2> QED BY <2>3, <2>4, <2>6
<1>10. Bookkeeping' BY <1>2, <1>4, <1>6, <1>7, <1>9, PassMoves DEF At
<1> QED BY <1>8, <1>10 DEF ParkingInv

\* The steps that write a row about the torrent at hand.
LEMMA WriteKeeps ==
  ASSUME ParkingInv, NEW c \in {"tick", "runNow"}, NEW h \in Torrents,
         JudgeUpdate(c, h) \/ ParkCreate(c, h) \/ ProbeUpdate(c, h)
  PROVE  ParkingInv'
<1>1. EngineOK /\ CallOK /\ HistOK /\ swarm \subseteq Torrents /\ parked \in Tables(Row)
  BY TypeIs DEF ParkingInv
<1>2. UNCHANGED <<engine, swarm, disturbed, events>> /\ h \in call[c].cur
  BY DEF JudgeUpdate, ParkCreate, ProbeUpdate, hist
<1>3. c \in Calls /\ {"judge", "park", "probe"} \subseteq Phases BY DEF Calls, Phases
<1>4. PICK p \in {"judge", "park", "probe"} :
        /\ Done(c, p, h)
        /\ \/ p = "judge" /\ JudgeUpdate(c, h) /\ call[c].pc = "judgeUpdate"
           \/ p = "park" /\ ParkCreate(c, h) /\ call[c].pc = "parkCreate"
           \/ p = "probe" /\ ProbeUpdate(c, h) /\ call[c].pc = "probeUpdate"
  BY DEF JudgeUpdate, ParkCreate, ProbeUpdate, At
<1>5. Becomes(c, p, call[c].list, call[c].todo \ {h}, {}) BY <1>1, <1>3, <1>4, DoneDoes
<1>6. /\ parked' \in Tables(Row) /\ DOMAIN parked \subseteq DOMAIN parked'
      /\ p = "park" => DOMAIN parked' = DOMAIN parked \cup {h}
  <2>1. CASE JudgeUpdate(c, h) /\ p = "judge"
    <3>1. CASE h \in DOMAIN parked
      <4> DEFINE n == Min({parked[h].count + 1, MaxCount})
      <4> DEFINE v == [probing |-> FALSE, count |-> n, due |-> Backoff(n)]
      <4>1. parked[h] \in Row BY <1>1, <3>1, TableIs
      <4>2. v \in Row BY <4>1, BackoffRow
      <4>3. parked' = [parked EXCEPT ![h] = v] BY <2>1, <3>1 DEF JudgeUpdate
      <4> HIDE DEF v
      <4> QED BY <1>1, <2>1, <3>1, <4>2, <4>3, TableIs
    <3>2. CASE h \notin DOMAIN parked
      <4>1. parked' = parked BY <2>1, <3>2 DEF JudgeUpdate
      <4> QED BY <1>1, <2>1, <4>1
    <3> QED BY <3>1, <3>2
  <2>2. CASE ParkCreate(c, h)
    <3> DEFINE v == [probing |-> FALSE, count |-> 0, due |-> -MaxOverdue]
    <3>1. v \in Row BY SlotAssumption, BoundAssumption DEF Row
    <3>2. parked' = Inserted(parked, h, v) BY <2>2 DEF ParkCreate
    <3> HIDE DEF v
    <3> QED BY <1>1, <3>1, <3>2, TableIs DEF Inserted
  <2>3. CASE ProbeUpdate(c, h) /\ p = "probe"
    <3>1. CASE h \in DOMAIN parked
      <4> DEFINE v == [parked[h] EXCEPT !.probing = TRUE]
      <4>1. parked[h] \in Row BY <1>1, <3>1, TableIs
      <4>2. v \in Row BY <4>1 DEF Row
      <4>3. parked' = [parked EXCEPT ![h] = v] BY <2>3, <3>1 DEF ProbeUpdate
      <4> HIDE DEF v
      <4> QED BY <1>1, <2>3, <3>1, <4>2, <4>3, TableIs
    <3>2. CASE h \notin DOMAIN parked
      <4>1. parked' = parked BY <2>3, <3>2 DEF ProbeUpdate
      <4> QED BY <1>1, <2>3, <4>1
    <3> QED BY <3>1, <3>2
  <2> QED BY <1>4, <2>1, <2>2, <2>3
<1>7. TypeOK' BY <1>1, <1>2, <1>5, <1>6, TypeNext DEF Becomes, EngineOK, HistOK
<1>8. ASSUME ~disturbed, c = "tick"
      PROVE  PassKnowsItsRows' /\ RevivedBeforeForgotten' /\ Remembered'
  <2>1. p # "park" => Pass.todo \subseteq DOMAIN parked /\ Pass.pc # "parkCreate"
    BY <1>4, <1>8, PassKnows DEF PassKnowsItsRows, Pass
  <2>2. PassKnowsItsRows' BY <1>4, <1>5, <1>6, <1>8, <2>1 DEF PassKnowsItsRows, Becomes, Pass
  <2>3. RevivedBeforeForgotten' BY <1>4, <1>5, <1>8 DEF RevivedBeforeForgotten, Becomes, Pass
  <2>4. \A g \in Pass.cur : p = "park" => g = h
    BY <1>2, <1>8, PassKnows DEF PassKnowsItsRows, Pass
  <2>5. Remembered'
    BY <1>2, <1>4, <1>5, <1>6, <1>8, <2>1, <2>4, PassKnows DEF Remembered, Becomes, Pass
  <2> QED BY <2>2, <2>3, <2>5
<1>9. Bookkeeping' BY <1>2, <1>4, <1>5, <1>8, PassMoves DEF At
<1> QED BY <1>7, <1>9 DEF ParkingInv

----------------------------------------------------------------------------
(* The theorems.                                                            *)

LEMMA Step ==
  ASSUME ParkingInv, [Next]_vars
  PROVE  ParkingInv'
<1>1. CASE Tick BY <1>1, TickKeeps
<1>2. CASE RunNow BY <1>2, RunNowKeeps
<1>3. CASE Restart BY <1>3, RestartKeeps
<1>4. ASSUME NEW c \in {"tick", "runNow"}, PassStep(c)
      PROVE  ParkingInv'
  <2>1. CASE ReadProbing(c) \/ ReadParked(c) \/ ReadDue(c) BY <2>1, ReadsKeep
  <2>2. CASE EndPass(c) BY <2>2, EndPassKeeps
  <2>3. ASSUME NEW h \in Torrents, CallFails(c, h) PROVE ParkingInv' BY <2>3, CallFailsKeeps
  <2>4. ASSUME NEW h \in Torrents,
               JudgeGone(c, h) \/ ProbeGone(c, h) \/ JudgeForget(c, h)
        PROVE  ParkingInv'
    BY <2>4, ForgetKeeps
  <2>5. ASSUME NEW h \in Torrents,
               Revive(c, h) \/ StillDead(c, h) \/ ParkDead(c, h) \/ StartProbe(c, h)
        PROVE  ParkingInv'
    BY <2>5, TellKeeps
  <2>6. ASSUME NEW h \in Torrents,
               JudgeUpdate(c, h) \/ ParkCreate(c, h) \/ ProbeUpdate(c, h)
        PROVE  ParkingInv'
    BY <2>6, WriteKeeps
  <2> QED BY <1>4, <2>1, <2>2, <2>3, <2>4, <2>5, <2>6 DEF PassStep
<1>5. ASSUME NEW h \in Torrents, Promote(h) \/ Finish(h) \/ SwarmChanges(h) \/ OperatorActs(h)
      PROVE  ParkingInv'
  BY <1>5, PromoteKeeps, SwarmKeeps, OperatorKeeps
<1>6. ASSUME NEW h \in Torrents, Unpark(h) \/ UnparkForget(h)
      PROVE  ParkingInv'
  BY <1>6, UnparkKeeps, UnparkForgetKeeps
<1>7. CASE UNCHANGED vars
  <2>1. TypeOK' BY <1>7 DEF vars, ParkingInv, TypeOK, Tables, Held
  <2>2. Bookkeeping'
    BY <1>7, EngineMoves DEF vars
  <2> QED BY <2>1, <2>2 DEF ParkingInv
<1> QED BY <1>1, <1>2, <1>3, <1>4, <1>5, <1>6, <1>7 DEF Next, Sweep

\* The inductive invariant.
THEOREM ParkingInvariant == Spec => []ParkingInv
<1>1. ParkingInv /\ [Next]_vars => ParkingInv' BY Step
<1> QED BY <1>1, Initially, PTL DEF Spec

\* The tables, the activations and the back-off keep their types, whatever is
\* parked, probed, unparked, lost or restarted: a probe is never due later than
\* the longest interval (backoff), and a torrent is paused exactly while somebody
\* paused it.
THEOREM ParkingTypeCorrect == Spec => []TypeOK
<1>1. ParkingInv => TypeOK BY DEF ParkingInv
<1> QED BY <1>1, ParkingInvariant, PTL

\* What the sweep paused it remembers, with a row or in the pass that is about to
\* write it, as long as no call fails, no restart comes and nobody calls runNow or
\* unpark; the operator may pause, resume and delete at any moment.
THEOREM PausedRemembered == Spec => []PausedIsRemembered
<1>1. ParkingInv => PausedIsRemembered
  <2> SUFFICES ASSUME ParkingInv, ~disturbed, NEW h \in DOMAIN engine, engine[h].by = "parking"
               PROVE  h \in DOMAIN parked \/ \E c \in Calls : h \in call[c].cur
    BY DEF PausedIsRemembered
  <2>1. h \in DOMAIN parked \/ h \in Pass.cur BY PassKnows DEF Remembered
  <2> QED BY <2>1 DEF Pass, Calls
<1> QED BY <1>1, ParkingInvariant, PTL
=============================================================================
