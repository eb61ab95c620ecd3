-------------------------- MODULE UartPeripheralMC --------------------------
(***************************************************************************)
(* UartPeripheral for TLC: a short frame and a short bit, with senders     *)
(* from too fast to too slow for it.                                       *)
(***************************************************************************)
EXTENDS UartPeripheral

\* One clock too fast, the two bit times within the tolerance, one too slow.
MCBitTimes == (Period - 1)..(Period + 2)

ASSUME ToleranceIsReached ==
    {t \in MCBitTimes : InTolerance(t)} = {Period, Period + 1}
=============================================================================
