-------------------------------- MODULE Clock --------------------------------
(***************************************************************************)
(* The ledger timestamp, which the contracts of the platform share.        *)
(***************************************************************************)
EXTENDS Integers

CONSTANT MaxTime       \* last ledger timestamp
ASSUME ClockAssumption == MaxTime \in Nat

VARIABLE now

ClockInit == now = 0
ClockTick == now < MaxTime /\ now' = now + 1
=============================================================================
