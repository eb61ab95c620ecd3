------------------------------ MODULE SarAdcMC ------------------------------
(***************************************************************************)
(* SarAdc for TLC: a converter of a few bits whose input also leaves the   *)
(* range of the DAC on both sides.                                         *)
(***************************************************************************)
EXTENDS SarAdc

MCWeight == [k \in 0..Width |-> IF k = 0 THEN 0 ELSE 2^(k - 1)]

MCNBits == 0..(CountMod - 1)

\* One step below the range of the DAC to one step above it.
MCVin == -1..(2^Width)
=============================================================================
