------------------------------ MODULE Lab3Nios ------------------------------
(***************************************************************************)
(* The system of Lab3 (nios_uart_hw/lab3_nios.vhd): the receiver, seen     *)
(* through what UartRx promises, its status line on PIO_3, its shift       *)
(* register on PIO_2, and the program main.c that polls for the edge of    *)
(* status, prints what it finds on the JTAG UART and clears the edge.      *)
(*                                                                         *)
(* One action is one access of the program to a device, so that bits and   *)
(* frames arrive between any two of them.                                  *)
(***************************************************************************)
EXTENDS UartRx, FiniteSets

CONSTANTS
    EdgeCapture,    \* whether PIO_3 is built with an edge capture register
    MaxFrames,      \* bounds the starts on the line, from one reset to the next
    FifoDepth,      \* the write FIFO of the JTAG UART (64 in the code)
    ReadyLen,       \* the length of "READY!\n" (7)
    RxLen,          \* the length of "RX: " (4)
    Digits,         \* the payload digits a report has (9)
    DataBits        \* the data bits of a frame, after its start bit (8)

ASSUME Lab3Assumption ==
    /\ EdgeCapture \in BOOLEAN
    /\ {FifoDepth, ReadyLen, RxLen, Digits, DataBits} \subseteq Nat \ {0}
    /\ MaxFrames \in Nat

VARIABLES
    pc,             \* the statement main is at
    bits_set, divisor_set,  \* PIO_1 and PIO_0 hold what main writes to them
    edge,           \* the edge capture bit of PIO_3
    payload,        \* main's payload, as bits, the first one the highest
    i,              \* digits of it gone through, or characters of a string put
    fifo,           \* characters in the write FIFO of the JTAG UART
    digits,         \* history: what this report passed to alt_printf
    shown,          \* history: how many of those digits came out
    starts,         \* history: starts on the line
    pending,        \* history: frames ended out of a report, and not reported yet
    paced           \* history: no start came but while main was polling idly

program == <<pc, bits_set, divisor_set, edge, payload, i, fifo, digits, shown>>
history == <<starts, pending, paced>>
niosVars == <<rxVars, program, history>>

\* The lines of main.c, each named for what it does.
Lines == {"write_bits", "write_divisor", "clear_first", "ready", "poll",
          "rx", "read", "digit", "newline", "clear"}

NiosInit ==
    /\ Init
    /\ pc = "write_bits"
    /\ bits_set = FALSE
    /\ divisor_set = FALSE
    /\ edge \in {FALSE, EdgeCapture}    \* status is high out of reset
    /\ payload = Zeros
    /\ i = 0
    /\ fifo = 0
    /\ digits = <<>>
    /\ shown = 0
    /\ starts = 0
    /\ pending = 0
    /\ paced = TRUE

-----------------------------------------------------------------------------
(***************************************************************************)
(* The line and the receiver.                                              *)
(***************************************************************************)

\* Variant to be refuted: PIO_3 captures the falling edge of status.
LineStartsCaptured ==
    /\ starts < MaxFrames
    /\ IF bits_set /\ divisor_set THEN Begin ELSE Start(NoFrame)
    /\ starts' = starts + 1
    /\ paced' = (paced /\ pc = "poll" /\ ~edge /\ pending = 0)
    /\ edge' = TRUE
    /\ UNCHANGED <<pc, bits_set, divisor_set, payload, i, fifo, digits, shown, pending>>

\* A receiver without a bit clock is in step with nothing; one that was set up
\* receives frames, and takes noise for frames too.
LineStarts ==
    /\ starts < MaxFrames
    /\ IF bits_set /\ divisor_set THEN Begin ELSE Start(NoFrame)
    /\ starts' = starts + 1
    /\ paced' = (paced /\ pc = "poll" /\ ~edge /\ pending = 0)
    /\ UNCHANGED <<program, pending>>

BitArrives == Arrive /\ UNCHANGED <<program, history>>

\* main has cleared the edge, and does so again only when it has reported one.
Listening == pc \in {"ready", "poll"}

\* status rises, and the edge is captured where there is a register for it.
FrameEnds ==
    /\ Finish
    /\ edge' = (edge \/ EdgeCapture)
    /\ pending' = IF Listening THEN pending + 1 ELSE pending
    /\ UNCHANGED <<pc, bits_set, divisor_set, payload, i, fifo, digits, shown, starts, paced>>

-----------------------------------------------------------------------------
(***************************************************************************)
(* The program.                                                            *)
(***************************************************************************)
Goto(from, to) == pc = from /\ pc' = to

WriteBits ==
    /\ Goto("write_bits", "write_divisor")
    /\ bits_set' = TRUE
    /\ UNCHANGED <<divisor_set, edge, payload, i, fifo, digits, shown, history, rxVars>>

WriteDivisor ==
    /\ Goto("write_divisor", "clear_first")
    /\ divisor_set' = TRUE
    /\ UNCHANGED <<bits_set, edge, payload, i, fifo, digits, shown, history, rxVars>>

\* Variant to be refuted: the edge of reset is left for the loop.
ClearFirstMissing ==
    /\ Goto("clear_first", "ready")
    /\ UNCHANGED <<bits_set, divisor_set, edge, payload, i, fifo, digits, shown, history, rxVars>>

ClearFirst ==
    /\ Goto("clear_first", "ready")
    /\ edge' = FALSE
    /\ UNCHANGED <<bits_set, divisor_set, payload, i, fifo, digits, shown, history, rxVars>>

\* Variant to be refuted: the driver does not look at the space in the FIFO.
PutBlind(from, len, to) ==
    /\ pc = from
    /\ fifo' = fifo + 1
    /\ IF i + 1 = len THEN pc' = to /\ i' = 0 ELSE pc' = pc /\ i' = i + 1

\* A string goes out character by character; the small driver spins while
\* the FIFO is full.
Put(from, len, to) ==
    /\ pc = from
    /\ fifo < FifoDepth
    /\ fifo' = fifo + 1
    /\ IF i + 1 = len THEN pc' = to /\ i' = 0 ELSE pc' = pc /\ i' = i + 1

\* Variant to be refuted: the first clear comes after the string.
PutReadyThenClear ==
    /\ Put("ready", ReadyLen, "poll")
    /\ edge' = (edge /\ pc' = "ready")
    /\ UNCHANGED <<bits_set, divisor_set, payload, digits, shown, history, rxVars>>

PutReady ==
    /\ Put("ready", ReadyLen, "poll")
    /\ UNCHANGED <<bits_set, divisor_set, edge, payload, digits, shown, history, rxVars>>

\* edge_read: without a register at that address the port reads as zero.
Poll ==
    /\ pc = "poll"
    /\ pc' = IF edge THEN "rx" ELSE pc
    /\ UNCHANGED <<bits_set, divisor_set, edge, payload, i, fifo, digits, shown, history, rxVars>>

PutRx ==
    /\ Put("rx", RxLen, "read")
    /\ UNCHANGED <<bits_set, divisor_set, edge, payload, digits, shown, history, rxVars>>

ReadPayload ==
    /\ Goto("read", "digit")
    /\ payload' = data_out
    /\ digits' = <<>>
    /\ shown' = 0
    /\ UNCHANGED <<bits_set, divisor_set, edge, i, fifo, history, rxVars>>

\* The conversions alt_printf knows; any other prints nothing and takes none
\* of its arguments.
Conversions == {"x", "s", "c", "%"}

PrintsDigit(conversion) == conversion \in Conversions

\* One alt_printf("%i", payload%2) and the shift after it.
PutDigit ==
    /\ pc = "digit"
    /\ IF PrintsDigit("i")
       THEN fifo < FifoDepth /\ fifo' = fifo + 1 /\ shown' = shown + 1
       ELSE UNCHANGED <<fifo, shown>>
    /\ digits' = Append(digits, payload[SrLen])
    /\ payload' = <<0>> \o SubSeq(payload, 1, SrLen - 1)
    /\ IF i + 1 = Digits THEN pc' = "newline" /\ i' = 0 ELSE pc' = pc /\ i' = i + 1
    /\ UNCHANGED <<bits_set, divisor_set, edge, history, rxVars>>

\* The last character of a report: it stands for every frame that ended
\* before it began.
PutNewline ==
    /\ Put("newline", 1, "clear")
    /\ pending' = 0
    /\ UNCHANGED <<bits_set, divisor_set, edge, payload, digits, shown, starts, paced, rxVars>>

Clear ==
    /\ Goto("clear", "poll")
    /\ edge' = FALSE
    /\ UNCHANGED <<bits_set, divisor_set, payload, i, fifo, digits, shown, history, rxVars>>

Main == WriteBits \/ WriteDivisor \/ ClearFirst \/ PutReady \/ Poll
        \/ PutRx \/ ReadPayload \/ PutDigit \/ PutNewline \/ Clear

\* The host, if one is attached, reads what the program printed.
HostReads ==
    /\ fifo > 0
    /\ fifo' = fifo - 1
    /\ UNCHANGED <<pc, bits_set, divisor_set, edge, payload, i, digits, shown, history, rxVars>>

\* RST is common to the processor, its ports and the receiver.
BoardReset ==
    /\ Reset
    /\ pc' = "write_bits"
    /\ bits_set' = FALSE
    /\ divisor_set' = FALSE
    /\ edge' \in {FALSE, EdgeCapture}
    /\ payload' = Zeros
    /\ i' = 0
    /\ fifo' = 0
    /\ digits' = <<>>
    /\ shown' = 0
    /\ starts' = 0
    /\ pending' = 0
    /\ paced' = TRUE

NiosNext == LineStarts \/ BitArrives \/ FrameEnds \/ Main \/ HostReads \/ BoardReset

NiosSpec == NiosInit /\ [][NiosNext]_niosVars

\* The program runs, the receiver keeps its promise and a host is reading.
NiosFairSpec ==
    /\ NiosSpec
    /\ WF_niosVars(Main)
    /\ WF_niosVars(BitArrives)
    /\ WF_niosVars(FrameEnds)
    /\ WF_niosVars(HostReads)

-----------------------------------------------------------------------------
NiosTypeOK ==
    /\ status \in BOOLEAN
    /\ {data_out, payload} \subseteq [1..SrLen -> {0, 1}]
    /\ frame \in Frames \union {NoFrame}
    /\ n \in 0..FrameLen
    /\ pc \in Lines
    /\ {bits_set, divisor_set, edge, paced} \subseteq BOOLEAN
    /\ i \in Nat
    /\ fifo \in 0..FifoDepth
    /\ digits \in Seq({0, 1})
    /\ {shown, starts, pending} \subseteq Nat

\* The program reports only what the receiver finished after main began: the
\* edge that is there out of reset, or of a frame it just reported, does not
\* make another report (main.c:25 and 39).
NoPhantomReport == pc = "poll" /\ edge => pending > 0

Padded(f) == [k \in 1..SrLen |-> IF k <= SrLen - FrameLen THEN 0 ELSE f[k - (SrLen - FrameLen)]]

\* With the sender waiting for the report of one frame before it sends the
\* next, what main reads is the frame whose edge it saw, although it prints
\* before it reads and the shift register is not held for it.
ReportsTheFrame ==
    paced /\ Good /\ pc = "digit" /\ i = 0 => payload = Padded(frame)

\* Every frame that ends while main polls, or prints that it is ready, is
\* followed by a whole report, whoever sends and however soon the next frame
\* comes, if a host empties the FIFO the program spins on.  A frame that ends
\* during a report is not counted: its edge is cleared with the one reported
\* (main.c:39).
Reported == pending > 0 ~> pending = 0

\* What comes out of a report holds the data bits of the frame, the last one
\* sent first, as the loop at main.c:34 counts them: a digit came out for each
\* round of it, and the data bits are among the bits it went through.
ReportShowsData ==
    paced /\ Good /\ pc = "newline" =>
        /\ shown = Digits
        /\ \E k \in 0..(Digits - DataBits) :
            \A b \in 1..DataBits : digits[k + b] = frame[2 + DataBits - b]
=============================================================================
