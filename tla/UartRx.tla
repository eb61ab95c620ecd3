------------------------------- MODULE UartRx -------------------------------
(***************************************************************************)
(* What the processor of Lab3 sees of the receiver, through PIO_2 and      *)
(* PIO_3: a status line that says waiting, and the shift register itself,  *)
(* live, there being no holding register behind it.  A frame the receiver  *)
(* is in step with arrives in it bit by bit; any other start (noise, a     *)
(* frame under way at reset, a wrong bit time) leaves what it leaves.      *)
(* UartPeripheral implements this.                                         *)
(***************************************************************************)
EXTENDS Integers, Sequences

CONSTANTS
    SrLen,      \* length of data_out
    FrameLen,   \* bits in a frame, start and stop bits among them
    Frames,     \* the frames a sender sends
    NoFrame     \* what stands for a start the receiver was not in step with

ASSUME RxAssumption ==
    /\ {SrLen, FrameLen} \subseteq Nat \ {0}
    /\ FrameLen <= SrLen
    /\ Frames \subseteq [1..FrameLen -> {0, 1}]

VARIABLES
    status,     \* waiting
    data_out,   \* the shift register, most significant bit first
    frame,      \* the frame being received, or received last
    n           \* how much of it is in

rxVars == <<status, data_out, frame, n>>

Zeros == [i \in 1..SrLen |-> 0]

Good == frame # NoFrame

Init ==
    /\ status = TRUE
    /\ data_out = Zeros
    /\ frame = NoFrame
    /\ n = 0

\* The register is cleared as the frame starts: what was received is gone.
Start(f) ==
    /\ status
    /\ status' = FALSE
    /\ data_out' = Zeros
    /\ frame' = f
    /\ n' = 0

Shift(b) ==
    /\ ~status
    /\ Good => n < FrameLen /\ b = frame[n + 1]
    /\ data_out' = Append(Tail(data_out), b)
    /\ n' = IF Good THEN n + 1 ELSE 0
    /\ UNCHANGED <<status, frame>>

Finish ==
    /\ ~status
    /\ Good => n = FrameLen
    /\ status' = TRUE
    /\ n' = 0
    /\ UNCHANGED <<data_out, frame>>

Reset == status' = TRUE /\ data_out' = Zeros /\ frame' = NoFrame /\ n' = 0

Begin == \E f \in Frames \union {NoFrame} : Start(f)

Arrive == \E b \in {0, 1} : Shift(b)

Next == Begin \/ Arrive \/ Finish \/ Reset

Spec == Init /\ [][Next]_rxVars

\* A character that started comes to its end.
FairSpec == Spec /\ WF_rxVars(Arrive) /\ WF_rxVars(Finish)
=============================================================================
