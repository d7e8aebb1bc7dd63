----------------------------- MODULE TorrentSync -----------------------------
(***************************************************************************)
(* The 2-second torrent sync loop of one engine                            *)
(* (torrents/torrent-sync.service.ts) with the transfer ledger it feeds    *)
(* (transfer-ledger/) and the torrent.completed rules it fires             *)
(* (automation/automation.module.ts).                                      *)
(*                                                                         *)
(* The engine goes on between the steps of a tick: torrents move bytes,    *)
(* complete, are removed, added again, rechecked.  Every database or       *)
(* engine call of the tick is a step, may fail, and may be the last one    *)
(* before the process dies.                                                *)
(*                                                                         *)
(* Left out: broadcasts, annotations, name repair, the cache and status of *)
(* the engine, the ratio.reached and error edges, the provenance rows of   *)
(* archiveRetired (nothing reads them back), and the detached media        *)
(* pipeline, which begins where the edge is published (module MediaIntake).*)
(***************************************************************************)
EXTENDS TransferLedger, FiniteSets, Functions, TLC

CONSTANTS
  Torrents,       \* hashes
  AllTime,        \* does the engine keep an all-time counter (qBittorrent)?
  MaxMoved,       \* bound: bytes the engine moves
  MaxCompletions, \* bound: times the engine's torrents complete
  MaxAdds,        \* bound: torrents added while the system runs
  MaxMishaps      \* bound: failing calls and restarts of the process, together

ASSUME AllTimeAssumption == AllTime \in BOOLEAN
ASSUME BoundAssumption ==
  {MaxMoved, MaxCompletions, MaxAdds, MaxMishaps} \subseteq Nat

\* The bounds leave room for what the engine may hold when the system starts.
ASSUME StartAssumption ==
  IsFiniteSet(Torrents) /\ Cardinality(Torrents) <= MaxMoved /\ 1 <= MaxCompletions

VARIABLES
  engine,    \* the torrents the engine holds: hash -> [down, done]
  moved,     \* bytes the engine has ever moved: its all-time counter
  ledger,    \* database: the engine's TransferLedger row
  snap,      \* database: TorrentSnapshot rows, hash -> [down, done]
  logged,    \* database: hashes with a successful AutomationLog row of the rule
  rule,      \* database: an enabled torrent.completed rule exists
  baselined, \* memory: `baselined' holds the engine
  tick,      \* memory: where the sync loop stands, with its local variables
  published, \* history: TORRENT_COMPLETED events of each hash
  fired,     \* history: times the rule's actions ran for each hash
  completed, \* history: times each torrent completed in the engine
  slack,     \* history: watched bytes the baseline read from the engine repeats
  adds, faults, crashes

db    == <<ledger, snap, logged, rule>>
env   == <<engine, moved, completed, adds>>
hist  == <<published, fired, slack>>
vars  == <<engine, moved, ledger, snap, logged, rule, baselined, tick, published,
           fired, completed, slack, adds, faults, crashes>>

Torrent == [down : 0..MaxMoved, done : BOOLEAN]

\* Every function from a set of hashes to S.
Tables(S) == UNION {[H -> S] : H \in SUBSET Torrents}

Phases == {"idle", "seedValues", "writeBaseline", "listTorrents", "persistSnapshots",
           "prune", "edges", "reconcile"}

\* rising: the edges of this tick; todo: the hashes whose edge, and later whose
\* backfill, is still to be handled; ran: those whose actions ran and whose log
\* row is still to be written; repeats: the watched bytes the seed repeats.
Idle == [pc |-> "idle", seed |-> 0, repeats |-> 0, readings |-> <<>>, prior |-> <<>>,
         rising |-> {}, todo |-> {}, ran |-> {}]

\* A table after new rows were inserted and the existing ones among them updated.
Upserted(table, new) ==
  [h \in DOMAIN table \cup DOMAIN new |-> IF h \in DOMAIN new THEN new[h] ELSE table[h]]

\* The counters of a table of torrents.
Down(table) == [h \in DOMAIN table |-> table[h].down]

TypeOK ==
  /\ engine \in Tables(Torrent)
  /\ snap \in Tables(Torrent)
  /\ moved \in 0..MaxMoved
  /\ ledger.baseline \in 0..MaxMoved /\ ledger.accrued \in 0..MaxMoved
  /\ logged \subseteq Torrents
  /\ {ledger.seeded, rule, baselined} \subseteq BOOLEAN
  /\ tick.pc \in Phases /\ tick.seed \in 0..MaxMoved
  /\ tick.readings \in Tables(Torrent) /\ tick.prior \in Tables(Torrent)
  /\ tick.rising \cup tick.todo \cup tick.ran \subseteq Torrents
  /\ completed \in [Torrents -> 0..MaxCompletions]
  /\ adds \in 0..MaxAdds
  /\ faults \in Nat /\ crashes \in Nat /\ faults + crashes <= MaxMishaps

\* Bytes moved since the snapshots were written: what a tick would bank now.
Pending == Accrue(Down(engine), Down(snap))

\* A fresh install, or an upgrade of one whose snapshots are older than the
\* ledger; in both the engine may have been at work for long.
Init ==
  /\ engine \in Tables([down : 0..1, done : BOOLEAN])
  /\ moved = SumOf(Down(engine))
  /\ snap \in {<<>>, [h \in DOMAIN engine |-> [down |-> 0, done |-> FALSE]]}
  /\ ledger = NoRow /\ logged = {} /\ rule = FALSE
  /\ baselined = FALSE /\ tick = Idle
  /\ published = [h \in Torrents |-> 0] /\ fired = [h \in Torrents |-> 0]
  /\ completed = [h \in Torrents |->
                    IF h \in DOMAIN engine /\ engine[h].done THEN 1 ELSE 0]
  /\ slack = 0 /\ adds = 0 /\ faults = 0 /\ crashes = 0

----------------------------------------------------------------------------
(* The engine, the operator and the process.                                *)

Move(h) ==
  /\ h \in DOMAIN engine /\ moved < MaxMoved
  /\ engine' = [engine EXCEPT ![h].down = @ + 1]
  /\ moved' = moved + 1
  /\ UNCHANGED <<db, hist, baselined, tick, completed, adds, faults, crashes>>

Complete(h) ==
  /\ h \in DOMAIN engine /\ ~engine[h].done
  /\ completed[h] < MaxCompletions
  /\ engine' = [engine EXCEPT ![h].done = TRUE]
  /\ completed' = [completed EXCEPT ![h] = @ + 1]
  /\ UNCHANGED <<db, hist, baselined, tick, moved, adds, faults, crashes>>

\* A recheck that fails, or an engine that lost the torrent's state.
Recheck(h) ==
  /\ h \in DOMAIN engine /\ engine[h] # [down |-> 0, done |-> FALSE]
  /\ engine' = [engine EXCEPT ![h] = [down |-> 0, done |-> FALSE]]
  /\ UNCHANGED <<db, hist, baselined, tick, moved, completed, adds, faults, crashes>>

AddTorrent(h) ==
  /\ h \notin DOMAIN engine /\ adds < MaxAdds
  /\ adds' = adds + 1
  /\ engine' = Upserted(engine, [x \in {h} |-> [down |-> 0, done |-> FALSE]])
  /\ UNCHANGED <<db, hist, baselined, tick, moved, completed, faults, crashes>>

RemoveTorrent(h) ==
  /\ h \in DOMAIN engine
  /\ engine' = Restrict(engine, DOMAIN engine \ {h})
  /\ UNCHANGED <<db, hist, baselined, tick, moved, completed, adds, faults, crashes>>

CreateRule ==
  /\ ~rule /\ rule' = TRUE
  /\ UNCHANGED <<env, ledger, snap, logged, hist, baselined, tick, faults, crashes>>

Crash ==
  /\ faults + crashes < MaxMishaps
  /\ crashes' = crashes + 1
  /\ baselined' = FALSE /\ tick' = Idle
  /\ UNCHANGED <<env, db, hist, faults>>

----------------------------------------------------------------------------
(* syncEngine, one step per engine or database call.                        *)

At(p)   == tick.pc = p
Goto(p) == tick' = IF p = "idle" THEN Idle ELSE [tick EXCEPT !.pc = p]

\* A call that fails.
Fault == faults + crashes < MaxMishaps /\ faults' = faults + 1

\* An error anywhere in syncEngine ends the tick: the engine counts as offline.
Abort(p) ==
  /\ At(p) /\ Fault /\ Goto("idle")
  /\ UNCHANGED <<env, db, hist, baselined, crashes>>

\* Mutant: after a restart the row is seeded again.
StartTickReseeds ==
  /\ At("idle")
  /\ Goto(IF baselined THEN "listTorrents" ELSE "seedValues")
  /\ UNCHANGED <<env, db, hist, baselined, faults, crashes>>

\* sync and ensureBaseline: a row that is already seeded is remembered, any other
\* is seeded first.  (Only this loop writes the rows it reads, so a read of them
\* is part of the step before it.)
StartTick ==
  /\ At("idle")
  /\ baselined' = (baselined \/ ledger.seeded)
  /\ Goto(IF baselined' THEN "listTorrents" ELSE "seedValues")
  /\ UNCHANGED <<env, db, hist, faults, crashes>>

SeedFrom(seed) ==
  tick' = [tick EXCEPT !.pc = "writeBaseline", !.seed = seed,
                       !.repeats = ledger.accrued + Pending]

\* The all-time counter; without one, or when it cannot be read, the sum of the
\* torrents; when those cannot be listed either, no seed and on with the tick.
SeedValues ==
  /\ At("seedValues")
  /\ \/ AllTime  /\ SeedFrom(moved) /\ UNCHANGED faults
     \/ ~AllTime /\ SeedFrom(SumOf(Down(engine))) /\ UNCHANGED faults
     \/ AllTime  /\ SeedFrom(SumOf(Down(engine))) /\ Fault
     \/ Goto("listTorrents") /\ Fault
  /\ UNCHANGED <<env, db, hist, baselined, crashes>>

WriteBaseline ==
  /\ At("writeBaseline")
  /\ ledger' = Seed(ledger, tick.seed)
  /\ baselined' = TRUE
  /\ slack' = tick.repeats
  /\ tick' = [Idle EXCEPT !.pc = "listTorrents"]
  /\ UNCHANGED <<env, snap, logged, rule, published, fired, faults, crashes>>

\* The snapshots of the torrents listed.
PriorSnapshots(torrents) == Restrict(snap, DOMAIN snap \cap DOMAIN torrents)

ListTorrents ==
  /\ At("listTorrents")
  /\ tick' = [tick EXCEPT !.pc = "persistSnapshots", !.readings = engine,
                          !.prior = PriorSnapshots(engine)]
  /\ UNCHANGED <<env, db, hist, baselined, faults, crashes>>

\* Mutant: the update of a snapshot leaves its progress as it is.
PersistWithoutProgress ==
  /\ At("persistSnapshots")
  /\ ledger' = AccrualOperation(ledger, Down(tick.readings), Down(tick.prior))
  /\ snap' = Upserted(Upserted(snap, tick.readings),
                      [h \in DOMAIN tick.readings \cap DOMAIN snap |->
                         [snap[h] EXCEPT !.down = tick.readings[h].down]])
  /\ Goto("prune")
  /\ UNCHANGED <<env, logged, rule, hist, baselined, faults, crashes>>

\* One transaction: the accrual and the snapshots it was measured against.
PersistSnapshots ==
  /\ At("persistSnapshots")
  /\ ledger' = AccrualOperation(ledger, Down(tick.readings), Down(tick.prior))
  /\ snap' = Upserted(snap, tick.readings)
  /\ Goto("prune")
  /\ UNCHANGED <<env, logged, rule, hist, baselined, faults, crashes>>

\* The torrents that crossed to 100% since their last snapshot.
RisingEdges(readings, prior) ==
  {h \in DOMAIN readings \cap DOMAIN prior : readings[h].done /\ ~prior[h].done}

\* Snapshots of torrents the engine no longer listed go; then applyTransitions.
Prune ==
  /\ At("prune")
  /\ snap' = Restrict(snap, DOMAIN tick.readings)
  /\ LET rising == RisingEdges(tick.readings, tick.prior)
     IN tick' = [tick EXCEPT !.pc = "edges", !.prior = <<>>, !.rising = rising,
                             !.todo = rising]
  /\ UNCHANGED <<env, ledger, logged, rule, hist, baselined, faults, crashes>>

----------------------------------------------------------------------------
(* applyTransitions: the edges of this tick, then the backfill.             *)

\* The rule's actions for h: they all succeed and the log row is still to be
\* written, or one fails, which is logged as a failure and not retried here.
RunRule(h) ==
  \/ /\ fired' = [fired EXCEPT ![h] = @ + 1]
     /\ tick' = [tick EXCEPT !.todo = @ \ {h}, !.ran = {h}]
     /\ UNCHANGED faults
  \/ /\ Fault
     /\ tick' = [tick EXCEPT !.todo = @ \ {h}]
     /\ UNCHANGED fired

\* A rising edge: the event, then the rule if there is one.
FireEdge(h) ==
  /\ At("edges") /\ tick.ran = {} /\ h \in tick.todo
  /\ published' = [published EXCEPT ![h] = @ + 1]
  /\ \/ rule /\ RunRule(h)
     \/ /\ ~rule
        /\ tick' = [tick EXCEPT !.todo = @ \ {h}]
        /\ UNCHANGED <<fired, faults>>
  /\ UNCHANGED <<env, db, slack, baselined, crashes>>

\* The success row of the actions that just ran; a failing insert is caught.
LogRun ==
  /\ tick.ran # {}
  /\ tick' = [tick EXCEPT !.ran = {}]
  /\ \/ logged' = logged \cup tick.ran /\ UNCHANGED faults
     \/ Fault /\ UNCHANGED logged
  /\ UNCHANGED <<env, ledger, snap, rule, hist, baselined, crashes>>

\* Mutant: only edges run rules.
NoBackfill(complete) == {}

\* The completed torrents without a successful run of the rule on record.
LoadCompletedLedger(complete) == complete \ logged

\* After the edges: the backfill, for torrents whose edge was not in this tick.
StartReconcile ==
  /\ At("edges") /\ tick.ran = {} /\ tick.todo = {}
  /\ LET complete == {h \in DOMAIN tick.readings : tick.readings[h].done} \ tick.rising
     IN tick' = [Idle EXCEPT !.pc = "reconcile",
                   !.todo = IF rule THEN LoadCompletedLedger(complete) ELSE {}]
  /\ UNCHANGED <<env, db, hist, baselined, faults, crashes>>

ReconcileCompleted(h) ==
  /\ At("reconcile") /\ tick.ran = {} /\ h \in tick.todo
  /\ RunRule(h)
  /\ UNCHANGED <<env, db, published, slack, baselined, crashes>>

EndTick ==
  /\ At("reconcile") /\ tick.ran = {} /\ tick.todo = {}
  /\ Goto("idle")
  /\ UNCHANGED <<env, db, hist, baselined, faults, crashes>>

----------------------------------------------------------------------------
SyncStep ==
  \/ StartTick \/ SeedValues \/ WriteBaseline \/ ListTorrents
  \/ PersistSnapshots \/ Prune
  \/ \E h \in Torrents : FireEdge(h) \/ ReconcileCompleted(h)
  \/ LogRun \/ StartReconcile \/ EndTick
  \/ \E p \in {"writeBaseline", "listTorrents", "persistSnapshots", "prune"} : Abort(p)

Environment ==
  \/ \E h \in Torrents : \/ Move(h) \/ Complete(h) \/ Recheck(h)
                         \/ AddTorrent(h) \/ RemoveTorrent(h)
  \/ CreateRule \/ Crash

Next == SyncStep \/ Environment

Spec == Init /\ [][Next]_vars

\* The interval timer fires and calls return; the engine owes nothing.
FairSpec == Spec /\ WF_vars(SyncStep)

----------------------------------------------------------------------------
(* Properties.                                                              *)

\* The lifetime total of the ledger only moves forward and never exceeds what
\* the engine moved, whatever resets, removals, failures and restarts come in
\* between; the one allowance is `slack', the bytes that were already watched
\* when the baseline was read and that the baseline therefore repeats.
Ledger == INSTANCE TransferTotals WITH moved <- moved + slack, total <- Totals(ledger)
ImplementsTotals == Ledger!Spec

\* transfer-ledger.service.ts, accrual.ts: no byte is counted twice.  Not met
\* when snapshots are older than the baseline (README).
NoByteTwice == Totals(ledger) <= moved

\* torrent-sync.service.ts: `Persisting first makes an edge fire at most once,
\* whatever the side-effects do': never more TORRENT_COMPLETED events than the
\* torrent completed, across failures of later steps and restarts.  And of
\* automation.module.ts: `each rule runs at most once per torrent no matter how
\* often the poll loop calls this'; a repeat needs another completion, or a crash
\* or a failing insert between the actions and their log row.
EdgeAtMostOnce ==
  \A h \in Torrents :
    /\ published[h] <= completed[h]
    /\ fired[h] <= completed[h] + crashes + faults

\* The backfill: a torrent that is and stays complete gets its rule run, even if
\* its edge was lost in a failed or interrupted tick or preceded the rule.
CompletionReachesRule ==
  \A h \in Torrents :
    (rule /\ h \in DOMAIN engine /\ engine[h].done)
      ~> (h \in logged \/ h \notin DOMAIN engine \/ ~engine[h].done)
=============================================================================
