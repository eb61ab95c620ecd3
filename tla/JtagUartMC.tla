----------------------------- MODULE JtagUartMC -----------------------------
(***************************************************************************)
(* Small rings and FIFOs: every wrap, both buffers full, both FIFOs full.  *)
(* A program that writes to a host, one that reads from a host, and one    *)
(* that writes while a host that does not listen types.                    *)
(***************************************************************************)
EXTENDS JtagUart

Writes == [calls |-> {"write", "close", "ioctl"}, host |-> {"take", "pause"}]
ReadsIn == [calls |-> {"read"}, host |-> {"give", "pause"}]
Ignores == [calls |-> {"write"}, host |-> {"give"}]

MCSessions == {Writes, ReadsIn, Ignores}
MCTimeouts == {0, 2}
=============================================================================
