---------------------------- MODULE TransferLedger ----------------------------
(***************************************************************************)
(* The arithmetic of the transfer ledger (transfer-ledger/domain/accrual.ts*)
(* and the row operations of transfer-ledger.service.ts).  The download    *)
(* and the upload counter are treated alike in the code; one of them is    *)
(* modelled, and the count of observed resets, which is only displayed, is *)
(* left out.  A reading or a set of prior snapshots is a function whose    *)
(* domain is the set of hashes it names.                                   *)
(***************************************************************************)
EXTENDS Integers, Functions

\* Mutant: a counter that went backwards is subtracted.
ContributionSigned(prior, current) == current - prior

\* What one counter adds: a level below the previous one is a reset, and all of
\* it has moved since.
Contribution(prior, current) ==
  IF current >= prior THEN current - prior ELSE current

\* A torrent without a prior snapshot contributes nothing.
Contributions(readings, prior) ==
  [h \in DOMAIN readings \cap DOMAIN prior |-> Contribution(prior[h], readings[h])]

Accrue(readings, prior) == SumFunction(Contributions(readings, prior))

\* The sum an engine without all-time counters is seeded from.
SumOf(readings) == SumFunction(readings)

\* A ledger row; the columns of one that does not exist yet have the schema's
\* defaults, as after an upsert.
NoRow == [baseline |-> 0, seeded |-> FALSE, accrued |-> 0]

Totals(row) == row.baseline + row.accrued

\* The upsert of accrualOperation (an empty result writes nothing).
AccrualOperation(row, readings, prior) ==
  [row EXCEPT !.accrued = @ + Accrue(readings, prior)]

\* The upsert of ensureBaseline.
Seed(row, seed) == [row EXCEPT !.baseline = seed, !.seeded = TRUE]
=============================================================================
