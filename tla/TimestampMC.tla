---------------------------- MODULE TimestampMC ----------------------------
(***************************************************************************)
(* Timestamp for TLC: two halves of two bits, and a wait that is long      *)
(* enough for the low half to run over and short enough to end in time.    *)
(***************************************************************************)
EXTENDS Timestamp

ASSUME PeriodIsLongEnough == tpb > Half /\ tpb + 3 * MaxGap < Full
=============================================================================
