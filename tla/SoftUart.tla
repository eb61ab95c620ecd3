------------------------------ MODULE SoftUart ------------------------------
(***************************************************************************)
(* The software receiver of Lab2 (software/uart_final/main.c): a loop that *)
(* polls the line, times half a bit and then bit after bit with the        *)
(* timestamp timer, samples the line after each wait, checks start, parity *)
(* and stop bit, prints the character on the JTAG UART and writes its two  *)
(* hexadecimal digits to the display.                                      *)
(*                                                                         *)
(* Time is discrete.  The program is at one access to a device at a time;  *)
(* the time its instructions take is part of its waits: each of them ends  *)
(* up to MaxOver ticks late (the timer is started after the sample and     *)
(* polled, main.c:62-63, 69-70, 76-77 and 87-88), and the delays add up,   *)
(* each wait being started where the one before it ended.                  *)
(***************************************************************************)
EXTENDS Integers, Sequences, FiniteSets, SequencesExt

CONSTANTS
    HalfBits,   \* data bits behind one display digit (4); a character has two
    tpb,        \* ticks per bit
    MaxOver,    \* how late a wait may end
    MaxPrint,   \* how long a print takes, besides waiting for the FIFO
    ErrorLen,   \* characters of an error message
    FifoDepth,  \* the write FIFO of the JTAG UART (64 in the code)
    BitTimes    \* the sender's bit times

NBIT == 2 * HalfBits

tphb == tpb \div 2

\* Start bit, data, even parity, one stop bit.
FrameLen == NBIT + 3

ASSUME SoftUartAssumption ==
    /\ {HalfBits, tpb, ErrorLen, FifoDepth} \subseteq Nat \ {0}
    /\ {MaxOver, MaxPrint} \subseteq Nat
    /\ BitTimes \subseteq Nat \ {0}

VARIABLES
    pc,         \* where main is
    left,       \* ticks until its wait ends
    sample,     \* the sample it waits for
    payload,    \* the data bits sampled
    even,       \* their parity
    put,        \* characters of the string being printed still to put
    busy,       \* PIO_3
    fifo,       \* characters in the write FIFO
    tx,         \* the sender
    heard,      \* history: the frame under way, if main was idle when it came
    notes       \* history: errors printed for it, "stalled" if the FIFO was full

program == <<pc, left, sample, payload, even, put, busy>>
vars == <<program, fifo, tx, heard, notes>>

-----------------------------------------------------------------------------
(***************************************************************************)
(* The sender.  Its parity and its stop bit may be wrong.                  *)
(***************************************************************************)
Chars == [1..NBIT -> {0, 1}]

ParityOf(bits) == Cardinality({k \in 1..NBIT : bits[k] = 1}) % 2

Frame(char, parity, stop) == <<0>> \o char \o <<parity, stop>>

Silent == [at |-> 0, left |-> 0, time |-> 0, frame |-> <<>>]

line == IF tx.at = 0 THEN 1 ELSE tx.frame[tx.at]

\* Whatever the delays on the way, the j-th sample falls into the j-th bit.
InTolerance(t) ==
    \A j \in 0..(FrameLen - 1) :
        /\ j * t <= tphb + j * tpb
        /\ tphb + j * tpb + (j + 1) * MaxOver < (j + 1) * t

\* A frame counts as heard if main polls an idle line when it begins.
StartFrame(char, parity, stop, t) ==
    /\ tx' = [at |-> 1, left |-> t, time |-> t, frame |-> Frame(char, parity, stop)]
    /\ heard' = IF pc = "idle" /\ line = 1 /\ InTolerance(t) THEN tx'.frame ELSE <<>>

Send ==
    \/ /\ tx.left > 1
       /\ tx' = [tx EXCEPT !.left = @ - 1]
       /\ UNCHANGED heard
    \/ /\ tx.left = 1 /\ tx.at < FrameLen
       /\ tx' = [tx EXCEPT !.at = @ + 1, !.left = tx.time]
       /\ UNCHANGED heard
    \/ /\ tx.left <= 1 /\ tx.at \in {0, FrameLen}
       /\ \/ tx' = Silent /\ UNCHANGED heard
          \/ \E char \in Chars, parity \in {0, 1}, stop \in {0, 1}, t \in BitTimes :
                StartFrame(char, parity, stop, t)

-----------------------------------------------------------------------------
Init ==
    /\ pc = "idle"
    /\ left = 0
    /\ sample = 0
    /\ payload = <<>>
    /\ even = 0
    /\ put = 0
    /\ busy = FALSE
    /\ fifo = 0
    /\ tx = Silent
    /\ heard = <<>>
    /\ notes = {}

\* main.c:52-56: the line is high.
PollHigh ==
    /\ pc = "idle" /\ line = 1 /\ busy
    /\ busy' = FALSE
    /\ UNCHANGED <<pc, left, sample, payload, even, put, fifo, tx, heard, notes>>

\* Variant to be refuted: a whole bit to wait where half a bit is due.
PollLowWholeBit ==
    /\ pc = "idle" /\ line = 0
    /\ pc' = "wait"
    /\ left' \in tpb..(tpb + MaxOver)
    /\ sample' = 0
    /\ payload' = <<>>
    /\ even' = 0
    /\ busy' = TRUE
    /\ heard' = IF tx.at = 1 THEN heard ELSE <<>>
    /\ notes' = {}
    /\ UNCHANGED <<put, fifo, tx>>

\* main.c:57-63: the line is low, half a bit to wait.
PollLow ==
    /\ pc = "idle" /\ line = 0
    /\ pc' = "wait"
    /\ left' \in tphb..(tphb + MaxOver)
    /\ sample' = 0
    /\ payload' = <<>>
    /\ even' = 0
    /\ busy' = TRUE
    /\ heard' = IF tx.at = 1 THEN heard ELSE <<>>
    /\ notes' = {}
    /\ UNCHANGED <<put, fifo, tx>>

WaitABit == pc' = "wait" /\ left' \in tpb..(tpb + MaxOver) /\ UNCHANGED put

\* An error is printed and forgotten: main goes on with the frame.
PrintError(e) ==
    /\ pc' = "error"
    /\ put' = ErrorLen
    /\ notes' = notes \union {e}
    /\ UNCHANGED left

AtSample(k) == pc = "wait" /\ left = 0 /\ sample = k /\ sample' = sample + 1

\* main.c:64-66, then the next wait.
CheckStart ==
    /\ AtSample(0)
    /\ IF line = 1 THEN PrintError("start") ELSE WaitABit /\ UNCHANGED notes
    /\ UNCHANGED <<payload, even, busy, fifo, tx, heard>>

\* main.c:68-73.
SampleData ==
    /\ \E k \in 1..NBIT : AtSample(k)
    /\ payload' = Append(payload, line)
    /\ even' = (even + line) % 2
    /\ WaitABit
    /\ UNCHANGED <<busy, fifo, tx, heard, notes>>

\* Variant to be refuted: no wait between parity and stop bit.
CheckParityNoWait ==
    /\ AtSample(NBIT + 1)
    /\ IF line # even THEN PrintError("parity")
       ELSE pc' = "wait" /\ left' = 0 /\ UNCHANGED <<put, notes>>
    /\ UNCHANGED <<payload, even, busy, fifo, tx, heard>>

\* Variant to be refuted: the parity is waited for until it is right.
CheckParityAgain ==
    /\ pc = "wait" /\ left = 0 /\ sample = NBIT + 1
    /\ IF line # even
       THEN left' = tpb /\ UNCHANGED <<pc, sample, put, notes>>
       ELSE sample' = sample + 1 /\ WaitABit /\ UNCHANGED notes
    /\ UNCHANGED <<payload, even, busy, fifo, tx, heard>>

\* main.c:75-85, PARITY being EVENPARITY.
CheckParity ==
    /\ AtSample(NBIT + 1)
    /\ IF line # even THEN PrintError("parity") ELSE WaitABit /\ UNCHANGED notes
    /\ UNCHANGED <<payload, even, busy, fifo, tx, heard>>

\* main.c:92-95.  char is signed on this processor, so the highest data bit
\* weighs negative.
CharOf(bits) ==
    FoldRight(LAMBDA b, rest : b + 2 * rest, bits, 0) - bits[NBIT] * 2^NBIT

c == CharOf(payload)

StartPrint == pc' = "char" /\ put' = 2 /\ UNCHANGED left

\* main.c:87-95.
CheckStop ==
    /\ AtSample(NBIT + 2)
    /\ IF line = 0 THEN PrintError("stop") ELSE StartPrint /\ UNCHANGED notes
    /\ UNCHANGED <<payload, even, busy, fifo, tx, heard>>

\* Variant to be refuted: the driver does not look at the space in the FIFO.
PutCharBlind ==
    /\ put > 0
    /\ fifo' = fifo + 1
    /\ put' = put - 1
    /\ UNCHANGED <<pc, left, sample, payload, even, busy, tx, heard, notes>>

\* One character into the FIFO; the driver spins as long as it is full.
PutChar ==
    /\ put > 0
    /\ fifo < FifoDepth
    /\ fifo' = fifo + 1
    /\ put' = put - 1
    /\ UNCHANGED <<pc, left, sample, payload, even, busy, tx, heard, notes>>

\* An error message is out: back to the frame, later by the time it took.
ErrorPrinted ==
    /\ pc = "error" /\ put = 0
    /\ IF sample < FrameLen
       THEN pc' = "wait" /\ left' \in tpb..(tpb + MaxOver + MaxPrint) /\ UNCHANGED put
       ELSE StartPrint
    /\ UNCHANGED <<sample, payload, even, busy, fifo, tx, heard, notes>>

\* Variant to be refuted: the rest of the stop bit is waited for as well.
CharPrintedLate ==
    /\ pc = "char" /\ put = 0
    /\ pc' = "display"
    /\ left' \in tphb..(tphb + MaxPrint)
    /\ UNCHANGED <<sample, payload, even, put, busy, fifo, tx, heard, notes>>

CharPrinted ==
    /\ pc = "char" /\ put = 0
    /\ pc' = "display"
    /\ left' \in 0..MaxPrint
    /\ UNCHANGED <<sample, payload, even, put, busy, fifo, tx, heard, notes>>

\* What main.c:97-98 looks up in display_map for PIO_1 and PIO_2: c & 0x0f and
\* c >> 4, the shift of a negative c being arithmetic.  The ports are written
\* and never read.
digits == <<c % 2^HalfBits, c \div 2^HalfBits>>

\* Nothing of the character is read after this.
Display ==
    /\ pc = "display" /\ left = 0
    /\ pc' = "idle"
    /\ sample' = 0
    /\ payload' = <<>>
    /\ even' = 0
    /\ UNCHANGED <<left, put, busy, fifo, tx, heard, notes>>

Main == PollHigh \/ PollLow \/ CheckStart \/ SampleData \/ CheckParity \/ CheckStop
        \/ PutChar \/ ErrorPrinted \/ CharPrinted \/ Display

Blocked == put > 0 /\ fifo = FifoDepth

\* Time passes while main waits, polls a high line, or spins on the FIFO.
Tick ==
    /\ left > 0 \/ Blocked \/ (pc = "idle" /\ line = 1)
    /\ left' = IF left > 0 THEN left - 1 ELSE 0
    /\ notes' = IF Blocked THEN notes \union {"stalled"} ELSE notes
    /\ Send
    /\ UNCHANGED <<pc, sample, payload, even, put, busy, fifo>>

HostReads ==
    /\ fifo > 0
    /\ fifo' = fifo - 1
    /\ UNCHANGED <<program, tx, heard, notes>>

Next == Main \/ Tick \/ HostReads

Spec == Init /\ [][Next]_vars

\* Time goes on, main runs, and a host is reading.
FairSpec == Spec /\ WF_vars(Main) /\ WF_vars(Tick) /\ WF_vars(HostReads)

-----------------------------------------------------------------------------
ProgramOK ==
    /\ pc \in {"idle", "wait", "error", "char", "display"}
    /\ left \in 0..(tpb + MaxOver + MaxPrint)
    /\ sample \in 0..FrameLen
    /\ payload \in UNION {[1..k -> {0, 1}] : k \in 0..NBIT}
    /\ even \in {0, 1}
    /\ put \in 0..(IF ErrorLen > 2 THEN ErrorLen ELSE 2)
    /\ busy \in BOOLEAN
    /\ fifo \in 0..FifoDepth
    /\ notes \subseteq {"start", "parity", "stop", "stalled"}

\* What a sender can send, and where it can be.
Framed == {f \in [1..FrameLen -> {0, 1}] : f[1] = 0}

SenderOK ==
    \/ tx = Silent
    \/ /\ tx \in [at: 1..FrameLen, left: Nat \ {0}, time: BitTimes, frame: Framed]
       /\ tx.left <= tx.time

TypeOK ==
    /\ ProgramOK
    /\ SenderOK
    /\ heard \in Framed \union {<<>>}

HeardChar == SubSeq(heard, 2, NBIT + 1)

ParityGood == heard[NBIT + 2] = ParityOf(HeardChar)

\* The character main prints is the one that was sent, although every wait
\* ends late and starts where the last one ended, for every sender within the
\* tolerance that leaves; and the start and parity errors it printed are those
\* of the frame.
CharacterReceived ==
    heard # <<>> /\ pc \in {"char", "display"} =>
        /\ payload = HeardChar
        /\ "start" \notin notes
        /\ "parity" \in notes <=> ~ParityGood

\* A stop error is printed for a low stop bit and for nothing else, unless a
\* parity error was printed before: printing it makes the stop sample late.
StopVerdict ==
    heard # <<>> /\ pc \in {"char", "display"} /\ ParityGood =>
        ("stop" \in notes <=> heard[FrameLen] = 0)

\* A sender this slow leaves main time to print a good character and to poll
\* again before the next start bit.
KeepsUp(t) ==
    InTolerance(t) /\ tphb + (FrameLen - 1) * tpb + FrameLen * MaxOver + MaxPrint < FrameLen * t

\* Of two frames sent without a gap, the second finds main polling, as long as
\* the first had no error and the FIFO takes its characters at once.
NextFrameHeard ==
    [][/\ tx.at = FrameLen /\ tx'.at = 1
       /\ heard # <<>> /\ notes' = {}
       /\ KeepsUp(tx.time)
       => pc = "idle"]_vars

\* main comes back to polling from every character, good or bad, if a host
\* empties the FIFO.
ReturnsToIdle == pc # "idle" ~> pc = "idle"

\* Both display digits are read from within display_map.
DigitsInMap == pc = "display" => digits \in (0..(2^HalfBits - 1)) \X (0..(2^HalfBits - 1))
=============================================================================
