---------------------------- MODULE FifoChannel ----------------------------
(***************************************************************************)
(* What the JTAG UART and its driver promise in each direction: bytes are  *)
(* received in the order they were sent, none lost, none twice, although   *)
(* they pass through a ring buffer, an interrupt handler and a FIFO.       *)
(***************************************************************************)
EXTENDS Sequences, SequencesExt

VARIABLES
    queue,      \* sent and not received yet, oldest first
    received    \* the bytes the receiver was handed last

channel == <<queue, received>>

Init == queue = << >> /\ received = << >>

Put == queue' # queue /\ IsPrefix(queue, queue') /\ UNCHANGED received

Get == \E n \in 1..Len(queue) :
        /\ received' = SubSeq(queue, 1, n)
        /\ queue' = SubSeq(queue, n + 1, Len(queue))

Next == Put \/ Get

Spec == Init /\ [][Next]_channel
=============================================================================
