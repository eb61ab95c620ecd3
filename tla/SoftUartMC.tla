----------------------------- MODULE SoftUartMC -----------------------------
(***************************************************************************)
(* SoftUart for TLC: characters of two bits, eight ticks to a bit.         *)
(***************************************************************************)
EXTENDS SoftUart

\* With waits that end up to a tick late, the one bit time in the tolerance is
\* a tick longer than the receiver's.  A sender out of it makes no promise the
\* properties speak of, and multiplies the states by the drift it has.
MCBitTimes == {tpb + 1}

ASSUME ToleranceIsReached ==
    /\ {t \in (tpb - 1)..(tpb + 3) : InTolerance(t)} = {tpb + 1}
    /\ KeepsUp(tpb + 1)
=============================================================================
