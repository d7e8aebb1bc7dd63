---------------------------- MODULE TransferTotals ----------------------------
(***************************************************************************)
(* What the transfer ledger promises (transfer-ledger.service.ts,          *)
(* `Persistent transfer statistics'): a lifetime total that only moves     *)
(* forward and never exceeds what the engine has really transferred.       *)
(***************************************************************************)
EXTENDS Naturals

VARIABLES
  moved,  \* bytes the engine has transferred since it exists
  total   \* the lifetime total that is shown

Init == moved \in Nat /\ total = 0

\* The engine transfers bytes, or a sync banks some that it has transferred.
Next ==
  /\ moved' \in Nat /\ moved' >= moved
  /\ total' \in total..moved'

Spec == Init /\ [][Next]_<<moved, total>>
=============================================================================
