------------------------------ MODULE SarTopMC ------------------------------
(***************************************************************************)
(* SarTop for TLC: what the divider and the FSM do does not depend on the  *)
(* voltage (SarAdcMC varies that), so one input value is enough here.      *)
(***************************************************************************)
EXTENDS SarTop

MCWeight == [k \in 0..Width |-> IF k = 0 THEN 0 ELSE 2^(k - 1)]

MCNBits == 0..(CountMod - 1)

MCVin == {1}

MCDivisors == 0..(DivMod - 1)
=============================================================================
