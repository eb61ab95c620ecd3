--------------------------- MODULE UartPeripheral ---------------------------
(***************************************************************************)
(* The hardware receiver of Lab3 (common/uart_peripheal.vhd): the control *)
(* FSM, the bit clock made by counter16 and a toggle, counter4 counting    *)
(* the bits and the twelve-bit shift register, together with the far end   *)
(* of the line, which sends frames at a bit time of its own.               *)
(*                                                                         *)
(* One action, Clock, is one rising edge of the board clock: the FSM and   *)
(* counter16 step on it; uart_clock may rise right after it, and then the  *)
(* shift register and counter4 step too.  The FSM is modelled as it is     *)
(* synthesised, its outputs a function of current_state and its inputs.    *)
(***************************************************************************)
EXTENDS TerminalCounter, Sequences

CONSTANTS
    DivMod,         \* counter16 counts modulo this (2^16 in the code)
    BitsMod,        \* counter4 counts modulo this (16 in the code)
    SrLen,          \* length of the shift register (12 in the code)
    Divisor,        \* what the program writes to divisor (0x0A2B)
    DataBits,       \* the data bits of a frame (8)
    StopBits,       \* its stop bits (2)
    BitTimes        \* the sender's bit time, in clocks of the receiver

FrameLen == 1 + DataBits + StopBits

\* What the program writes to bits_per_data: counter4 counts from 0 (0x000A).
BitsPerData == FrameLen - 1

ASSUME UartAssumption ==
    /\ {DivMod, BitsMod, SrLen, Divisor, DataBits, StopBits} \subseteq Nat \ {0}
    /\ Divisor < DivMod
    /\ BitsPerData < BitsMod
    /\ FrameLen <= SrLen
    /\ BitTimes \subseteq Nat \ {0}

VARIABLES
    divisor, bits_per_data,     \* the registers PIO_0 and PIO_1
    current_state,              \* uart_fsm
    c16, tc16, uart_clock,      \* uart_clock_gen
    c4, tc_char,                \* counter4
    sr,                         \* shift_reg12, its bit 11 first
    tx,                         \* the far end: what it sends and how far it is
    calm,                       \* history: the receiver has every reason to be
                                \* in step with the sender
    heard                       \* history: what the FSM started on, if calm

fsm == <<current_state, c16, tc16, uart_clock, c4, tc_char, sr>>
config == <<divisor, bits_per_data>>
vars == <<config, fsm, tx, heard, calm>>

States == {"UART_IDLE", "CLEAR_CLOCK", "UART_DATA"}

Zeros == [i \in 1..SrLen |-> 0]

waiting == current_state = "UART_IDLE"

\* Variant to be refuted: the register shifts whatever the state.
shift_enableAlways == TRUE

shift_enable == current_state = "UART_DATA"

-----------------------------------------------------------------------------
(***************************************************************************)
(* The far end.  tx.at = 0 while the line is idle, otherwise the position  *)
(* of the bit on the line; tx.left clocks of it are still to come.         *)
(***************************************************************************)
Frames ==
    {f \in [1..FrameLen -> {0, 1}] :
        f[1] = 0 /\ \A i \in (2 + DataBits)..FrameLen : f[i] = 1}

NoFrame == [i \in 1..FrameLen |-> 1]

Silent == [at |-> 0, left |-> 0, time |-> 0, frame |-> NoFrame]

uart_line == IF tx.at = 0 THEN 1 ELSE tx.frame[tx.at]

StartFrame(f, t) == [at |-> 1, left |-> t, time |-> t, frame |-> f]

\* The period of uart_clock, in clocks.
Period == 2 * (Divisor + 1)

\* At this bit time every sample of a frame falls into its own bit, with a
\* clock to spare for a receiver that is still leaving the frame before.
InTolerance(t) ==
    \A j \in 0..(FrameLen - 1) :
        j * t <= Divisor + 2 + j * Period /\ Divisor + 3 + j * Period < (j + 1) * t

-----------------------------------------------------------------------------
Init ==
    /\ divisor = 0
    /\ bits_per_data = 0
    /\ current_state = "UART_IDLE"
    /\ c16 = 0
    /\ tc16 = FALSE
    /\ uart_clock \in BOOLEAN    \* reset does not reach it
    /\ c4 = 0
    /\ tc_char = FALSE
    /\ sr = Zeros
    /\ tx = Silent
    /\ heard = Silent
    /\ calm = FALSE

\* Variant to be refuted: a character ends when the count is reached, a bit
\* before tc_char says so.
next_stateEarly ==
    CASE current_state = "UART_IDLE" -> IF uart_line = 0 THEN "CLEAR_CLOCK" ELSE "UART_IDLE"
      [] current_state = "CLEAR_CLOCK" -> "UART_DATA"
      [] current_state = "UART_DATA" -> IF c4 = bits_per_data THEN "UART_IDLE" ELSE "UART_DATA"

\* Variant to be refuted: from one character straight into the next.
next_stateNoIdle ==
    CASE current_state = "UART_IDLE" -> IF uart_line = 0 THEN "CLEAR_CLOCK" ELSE "UART_IDLE"
      [] current_state = "CLEAR_CLOCK" -> "UART_DATA"
      [] current_state = "UART_DATA" -> IF tc_char THEN "CLEAR_CLOCK" ELSE "UART_DATA"

next_state ==
    CASE current_state = "UART_IDLE" -> IF uart_line = 0 THEN "CLEAR_CLOCK" ELSE "UART_IDLE"
      [] current_state = "CLEAR_CLOCK" -> "UART_DATA"
      [] current_state = "UART_DATA" -> IF tc_char THEN "UART_IDLE" ELSE "UART_DATA"

\* uart_clock toggles when tc16 rises.
Toggles == ~tc16 /\ Matches(c16, divisor)

UartClockRises == Toggles /\ ~uart_clock

\* Variant to be refuted: the bit clock runs on through the start of a frame.
ClearedNotClock ==
    /\ c16' = Counted(c16, divisor, DivMod)
    /\ tc16' = Matches(c16, divisor)
    /\ uart_clock' = IF Toggles THEN ~uart_clock ELSE uart_clock
    /\ c4' = 0
    /\ tc_char' = FALSE
    /\ sr' = Zeros

\* Variant to be refuted: the shift register keeps the last frame.
ClearedNotRegister ==
    /\ c16' = 0
    /\ tc16' = FALSE
    /\ uart_clock' = FALSE
    /\ c4' = 0
    /\ tc_char' = FALSE
    /\ sr' = sr

\* clear = '0' from the edge into CLEAR_CLOCK to the edge out of it holds the
\* counters, the clock and the shift register at zero.
Cleared ==
    /\ c16' = 0
    /\ tc16' = FALSE
    /\ uart_clock' = FALSE
    /\ c4' = 0
    /\ tc_char' = FALSE
    /\ sr' = Zeros

\* Variant to be refuted: nothing leaves the register at its far end.
CountingGrows ==
    /\ c16' = Counted(c16, divisor, DivMod)
    /\ tc16' = Matches(c16, divisor)
    /\ uart_clock' = IF Toggles THEN ~uart_clock ELSE uart_clock
    /\ IF UartClockRises
       THEN /\ c4' = Counted(c4, bits_per_data, BitsMod)
            /\ tc_char' = Matches(c4, bits_per_data)
            /\ sr' = IF shift_enable THEN Append(sr, uart_line) ELSE sr
       ELSE UNCHANGED <<c4, tc_char, sr>>

Counting ==
    /\ c16' = Counted(c16, divisor, DivMod)
    /\ tc16' = Matches(c16, divisor)
    /\ uart_clock' = IF Toggles THEN ~uart_clock ELSE uart_clock
    /\ IF UartClockRises
       THEN /\ c4' = Counted(c4, bits_per_data, BitsMod)
            /\ tc_char' = Matches(c4, bits_per_data)
            /\ sr' = IF shift_enable THEN Append(Tail(sr), uart_line) ELSE sr
       ELSE UNCHANGED <<c4, tc_char, sr>>

Receive ==
    /\ current_state' = next_state
    /\ IF "CLEAR_CLOCK" \in {current_state, next_state} THEN Cleared ELSE Counting
    /\ heard' = IF next_state # "CLEAR_CLOCK" THEN heard ELSE IF calm THEN tx ELSE Silent

\* The line moves on; a sender that is through with a frame may start the
\* next at once, or at any later clock.
Transmit ==
    \/ /\ tx.left > 1
       /\ tx' = [tx EXCEPT !.left = @ - 1]
    \/ /\ tx.left = 1 /\ tx.at < FrameLen
       /\ tx' = [tx EXCEPT !.at = @ + 1, !.left = tx.time]
    \/ /\ tx.left <= 1 /\ tx.at \in {0, FrameLen}
       /\ \/ tx' = Silent
          \/ \E f \in Frames, t \in BitTimes : tx' = StartFrame(f, t)

Configured == divisor = Divisor /\ bits_per_data = BitsPerData

\* A configured receiver that waits on an idle line is in step; it stays so
\* until a frame out of tolerance comes.
Trust ==
    calm' = /\ calm \/ (Configured /\ waiting /\ tx.at = 0)
            /\ tx'.at = 0 \/ InTolerance(tx'.time)

Clock == Receive /\ Transmit /\ Trust /\ UNCHANGED config

\* main.c:23 and 24, in this order.
WriteBits ==
    /\ bits_per_data = 0
    /\ bits_per_data' = BitsPerData
    /\ UNCHANGED <<divisor, fsm, tx, heard, calm>>

\* Variant to be refuted: the divisor is never written.
WriteDivisorLost ==
    /\ bits_per_data # 0 /\ divisor = 0
    /\ UNCHANGED vars

WriteDivisor ==
    /\ bits_per_data # 0 /\ divisor = 0
    /\ divisor' = Divisor
    /\ UNCHANGED <<bits_per_data, fsm, tx, heard, calm>>

\* RST clears the processor's ports with the peripheral; the far end goes on.
Reset ==
    /\ divisor' = 0
    /\ bits_per_data' = 0
    /\ current_state' = "UART_IDLE"
    /\ c16' = 0
    /\ tc16' = FALSE
    /\ c4' = 0
    /\ tc_char' = FALSE
    /\ sr' = Zeros
    /\ heard' = Silent
    /\ calm' = FALSE
    /\ UNCHANGED <<uart_clock, tx>>

Next == Clock \/ WriteBits \/ WriteDivisor \/ Reset

Spec == Init /\ [][Next]_vars

\* The oscillator runs and the program gets to its writes.
FairSpec == Spec /\ WF_vars(Clock) /\ WF_vars(WriteBits) /\ WF_vars(WriteDivisor)

-----------------------------------------------------------------------------
TypeOK ==
    /\ divisor \in {0, Divisor}
    /\ bits_per_data \in {0, BitsPerData}
    /\ current_state \in States
    /\ c16 \in 0..(DivMod - 1)
    /\ c4 \in 0..(BitsMod - 1)
    /\ {tc16, uart_clock, tc_char, calm} \subseteq BOOLEAN
    /\ sr \in [1..SrLen -> {0, 1}]
    /\ {tx, heard} \subseteq
          [at : 0..FrameLen, left : Nat, time : {0} \union BitTimes,
           frame : Frames \union {NoFrame}]

\* A receiver in step starts on the start bit of a frame and on nothing else:
\* it is back in UART_IDLE before the next one, and not on the bit that ends
\* the frame it leaves.
StartsOnStartBit ==
    calm /\ current_state = "CLEAR_CLOCK" => heard.at = 1 /\ heard.frame = tx.frame

\* Each bit goes into the shift register while the sender is at that bit, for
\* every bit time within the tolerance: the samples so far are the first bits
\* of the frame.
SamplesInTheirBits ==
    calm /\ current_state = "UART_DATA" /\ tx.at # 0 =>
        \A n \in 0..FrameLen :
            c4 = n /\ ~tc_char => SubSeq(sr, SrLen - n + 1, SrLen) = SubSeq(tx.frame, 1, n)

\* While status says waiting after a frame, data_out is that frame, its start
\* bit in bit FrameLen - 1, and zero above it: it does not move although the
\* counters behind it go on.
FrameCaptured ==
    waiting /\ heard.at # 0 =>
        sr = [i \in 1..SrLen |->
                IF i <= SrLen - FrameLen THEN 0 ELSE heard.frame[i - (SrLen - FrameLen)]]

\* The receiver leaves every frame it starts, one that came before the program
\* wrote the divisor included (until then uart_clock stands still).
FrameEnds == current_state = "UART_DATA" ~> waiting

\* Out of step after a reset, a bad frame or a late configuration, the
\* receiver falls in step again once the line rests, and stays in step.
Recovers == <>[][tx'.at = 0 /\ ~Reset]_vars => <>[]calm

-----------------------------------------------------------------------------
\* To the processor the receiver is UartRx: the clear of a start, the samples
\* and the return to waiting are its steps, all the rest is inside.
InStep == heard.at # 0

Rx == INSTANCE UartRx WITH
    Frames <- Frames,
    status <- waiting,
    data_out <- sr,
    frame <- IF InStep THEN heard.frame ELSE NoFrame,
    n <- IF waiting \/ ~InStep THEN 0 ELSE IF tc_char THEN FrameLen ELSE c4

ImplementsRx == Rx!FairSpec
=============================================================================
