--------------------------- MODULE SoftUart_proofs ---------------------------
(***************************************************************************)
(* What the software receiver of Lab2 promises, for every length of its    *)
(* characters and messages, every bit time, every delay of its waits and   *)
(* prints, every depth of the FIFO and every set of senders.               *)
(***************************************************************************)
EXTENDS SoftUart, SequenceTheorems, FiniteSetTheorems, TLAPS

-----------------------------------------------------------------------------
(***************************************************************************)
(* Bit times and bit periods are multiplied by bit positions, so the facts *)
(* about products that the proofs need are stated here once.               *)
(***************************************************************************)
LEMMA Monotone ==
    ASSUME NEW t \in Nat, NEW j \in Int, NEW k \in Int, j <= k
    PROVE  j * t <= k * t
<1>1. k - j \in Nat /\ (k - j) * t = k * t - j * t
  OBVIOUS
<1>2. \A x \in Nat, y \in Nat : x * y >= 0
  OBVIOUS
<1>3. (k - j) * t >= 0
  BY <1>1, <1>2
<1>4. j * t \in Int /\ k * t \in Int
  OBVIOUS
<1> QED
  BY <1>1, <1>3, <1>4

\* The bit on the line at a time that lies within the bit after the j-th.
LEMMA Place ==
    ASSUME NEW t \in Nat \ {0}, NEW a \in Nat, NEW j \in Nat, NEW l \in 1..t,
           j * t <= a * t - l, a * t - l < (j + 1) * t
    PROVE  a = j + 1
<1>1. a * t \in Int /\ j * t \in Int /\ (j + 1) * t = j * t + t /\ (j + 2) * t = j * t + 2 * t
  OBVIOUS
<1>2. CASE a <= j
  <2>1. a * t <= j * t
    BY <1>2, Monotone
  <2> QED
    BY <1>1, <2>1
<1>3. CASE j + 2 <= a
  <2>1. (j + 2) * t <= a * t
    BY <1>3, Monotone
  <2> QED
    BY <1>1, <2>1
<1> QED
  BY <1>2, <1>3

-----------------------------------------------------------------------------
(***************************************************************************)
(* The inductive invariant.                                                *)
(***************************************************************************)

\* How many data bits the program has sampled.
Taken == IF sample = 0 THEN 0 ELSE IF sample <= NBIT THEN sample - 1 ELSE NBIT

\* Where main can be, and with what.
ControlInv ==
    /\ pc \in {"idle", "wait", "display"} => put = 0
    /\ pc \in {"idle", "error", "char"} => left = 0
    /\ pc = "idle" => sample = 0
    /\ pc = "wait" => sample < FrameLen
    /\ pc \in {"char", "display"} => sample = FrameLen
    /\ Len(payload) = Taken

\* The frame that is heard is the one on the line, for as long as there is one.
HeardInv ==
    heard # <<>> => /\ heard \in Framed
                    /\ tx.at # 0 => tx.frame = heard /\ InTolerance(tx.time)

\* The ones among the first m data bits of a frame.
Ones(f, m) == Cardinality({k \in 1..m : f[k + 1] = 1})

\* What main has of a frame it heard, and what it has said of it.
ReadInv ==
    heard # <<>> /\ pc # "idle" =>
        /\ \A k \in 1..Taken : payload[k] = heard[k + 1]
        /\ even = Ones(heard, Taken) % 2
        /\ "start" \notin notes
        /\ "parity" \in notes <=> sample > NBIT + 1 /\ heard[NBIT + 2] # even
        /\ "stop" \in notes => sample = FrameLen
        /\ sample = FrameLen /\ "parity" \notin notes =>
              ("stop" \in notes <=> heard[FrameLen] = 0)
        /\ pc = "error" => "parity" \in notes \/ "stop" \in notes

\* Ticks since the frame on the line began.
Age == tx.at * tx.time - tx.left

\* When the j-th sample is due, and by when the last one is taken.
Due(j) == tphb + j * tpb
LastSample == Due(FrameLen - 1) + FrameLen * MaxOver

\* When main is where, in ticks of the frame it heard.  The delays of its waits
\* have added up; once it has printed an error nothing is said of the time but
\* that the start bit is over.
TimeInv ==
    heard # <<>> =>
        /\ pc = "idle" /\ tx.at = 1 => tx.left = tx.time
        /\ pc = "wait" /\ "parity" \notin notes =>
              /\ tx.at # 0
              /\ Due(sample) <= Age + left
              /\ Age + left <= Due(sample) + (sample + 1) * MaxOver
        /\ pc \in {"error", "char", "display"} => tx.at # 1
        /\ pc = "wait" /\ "parity" \in notes => tx.at # 1
        /\ pc \in {"char", "display"} /\ notes = {} /\ tx.at # 0 =>
              Age + left <= LastSample + (IF pc = "char" THEN 0 ELSE MaxPrint)

IInv == ProgramOK /\ ControlInv /\ SenderOK /\ HeardInv /\ ReadInv /\ TimeInv

-----------------------------------------------------------------------------
(***************************************************************************)
(* The constants, and the tolerance they leave.                            *)
(***************************************************************************)
LEMMA Sizes ==
    /\ NBIT \in Nat /\ NBIT >= 2 /\ FrameLen = NBIT + 3 /\ FrameLen \in Nat
    /\ tpb \in Nat \ {0} /\ tphb \in Nat
    /\ MaxOver \in Nat /\ MaxPrint \in Nat
    /\ ErrorLen \in Nat \ {0} /\ FifoDepth \in Nat \ {0}
    /\ BitTimes \subseteq Nat \ {0}
<1>1. HalfBits \in Nat \ {0} /\ tpb \in Nat \ {0}
  BY SoftUartAssumption
<1>2. NBIT \in Nat /\ NBIT >= 2 /\ FrameLen = NBIT + 3 /\ FrameLen \in Nat
  BY <1>1 DEF NBIT, FrameLen
<1>3. tphb \in Nat
  BY <1>1 DEF tphb
<1> QED
  BY <1>1, <1>2, <1>3, SoftUartAssumption

\* The times the program waits for, and what the tolerance makes of them.
LEMMA Times ==
    /\ \A j \in Nat : Due(j) \in Nat /\ Due(j + 1) = Due(j) + tpb
    /\ Due(0) = tphb
    /\ \A j \in Nat : (j + 1) * MaxOver \in Nat
                      /\ (j + 2) * MaxOver = (j + 1) * MaxOver + MaxOver
    /\ LastSample = Due(NBIT + 2) + (NBIT + 3) * MaxOver /\ LastSample \in Nat
<1>1. tpb \in Nat /\ tphb \in Nat /\ MaxOver \in Nat /\ NBIT \in Nat /\ FrameLen = NBIT + 3
  BY Sizes
<1>2. \A a \in Nat, b \in Nat : a * b \in Nat /\ (a + 1) * b = a * b + b
  OBVIOUS
<1>3. ASSUME NEW j \in Nat
      PROVE  /\ Due(j) \in Nat /\ Due(j + 1) = Due(j) + tpb
             /\ (j + 1) * MaxOver \in Nat
             /\ (j + 2) * MaxOver = (j + 1) * MaxOver + MaxOver
  <2>1. j * tpb \in Nat /\ (j + 1) * tpb = j * tpb + tpb
    BY <1>1, <1>2
  <2>2. j + 1 \in Nat /\ (j + 1) + 1 = j + 2
    OBVIOUS
  <2>3. (j + 1) * MaxOver \in Nat /\ (j + 2) * MaxOver = (j + 1) * MaxOver + MaxOver
    BY <1>1, <1>2, <2>2
  <2> QED
    BY <1>1, <2>1, <2>3 DEF Due
<1>4. Due(0) = tphb
  BY <1>1 DEF Due
<1>5. FrameLen - 1 = NBIT + 2 /\ NBIT + 2 \in Nat /\ (NBIT + 2) + 1 = NBIT + 3
  BY <1>1
<1>6. LastSample = Due(NBIT + 2) + (NBIT + 3) * MaxOver
  BY <1>1, <1>5 DEF LastSample
<1>7. LastSample \in Nat
  <2>1. ASSUME NEW j \in Nat, NEW k, k = j + 1
        PROVE  Due(j) \in Nat /\ k * MaxOver \in Nat
    BY <1>3, <2>1
  <2>2. Due(NBIT + 2) \in Nat /\ (NBIT + 3) * MaxOver \in Nat
    BY <1>5, <2>1
  <2> QED
    BY <1>6, <2>2
<1>8. \A j \in Nat : Due(j) \in Nat /\ Due(j + 1) = Due(j) + tpb
  BY <1>3
<1>9. \A j \in Nat : (j + 1) * MaxOver \in Nat
                     /\ (j + 2) * MaxOver = (j + 1) * MaxOver + MaxOver
  BY <1>3
<1> QED
  BY <1>4, <1>6, <1>7, <1>8, <1>9

\* Within the tolerance a sample lies in its bit, and its wait in the frame.
LEMMA Tolerances ==
    ASSUME NEW t \in Nat \ {0}, InTolerance(t), NEW j \in 0..(NBIT + 2)
    PROVE  /\ j * t <= Due(j)
           /\ Due(j) + (j + 1) * MaxOver < (j + 1) * t
           /\ (j + 1) * t <= FrameLen * t
<1>1. FrameLen = NBIT + 3 /\ NBIT \in Nat /\ FrameLen - 1 = NBIT + 2
  BY Sizes
<1>2. j * t <= Due(j) /\ Due(j) + (j + 1) * MaxOver < (j + 1) * t
  BY <1>1 DEF InTolerance, Due
<1>3. j + 1 <= FrameLen /\ t \in Nat /\ j + 1 \in Int /\ FrameLen \in Int
  BY <1>1
<1>4. (j + 1) * t <= FrameLen * t
  BY <1>3, Monotone
<1> QED
  BY <1>2, <1>4

-----------------------------------------------------------------------------
(***************************************************************************)
(* The sender.                                                             *)
(***************************************************************************)
LEMMA FrameTyped ==
    ASSUME NEW char \in Chars, NEW parity \in {0, 1}, NEW stop \in {0, 1}
    PROVE  Frame(char, parity, stop) \in Framed
<1> DEFINE a == <<0>> \o char
           b == a \o <<parity, stop>>
<1>1. NBIT \in Nat /\ FrameLen = NBIT + 3
  BY Sizes
<1>2. char \in Seq({0, 1}) /\ Len(char) = NBIT
  BY <1>1 DEF Chars
<1>3. <<0>> \in Seq({0, 1}) /\ Len(<<0>>) = 1 /\ <<0>>[1] = 0
  OBVIOUS
<1>4. <<parity, stop>> \in Seq({0, 1}) /\ Len(<<parity, stop>>) = 2
  OBVIOUS
<1>5. a \in Seq({0, 1}) /\ Len(a) = NBIT + 1 /\ a[1] = 0
  BY <1>1, <1>2, <1>3, ConcatProperties
<1> HIDE DEF a
<1>6. b \in Seq({0, 1}) /\ Len(b) = NBIT + 3 /\ b[1] = 0
  BY <1>1, <1>4, <1>5, ConcatProperties
<1>7. b = Frame(char, parity, stop)
  BY DEF Frame, a
<1> HIDE DEF b
<1>8. b \in [1..FrameLen -> {0, 1}]
  BY <1>1, <1>6, LenProperties
<1> QED
  BY <1>6, <1>7, <1>8 DEF Framed

\* The parts of a sender that sends.
LEMMA Sending ==
    ASSUME SenderOK, tx.at # 0
    PROVE  /\ tx \in [at: 1..FrameLen, left: Nat \ {0}, time: BitTimes, frame: Framed]
           /\ tx.at \in 1..FrameLen /\ tx.time \in Nat \ {0} /\ tx.left \in 1..tx.time
           /\ tx.frame \in Framed /\ Age \in Nat
<1>1. tx \in [at: 1..FrameLen, left: Nat \ {0}, time: BitTimes, frame: Framed]
      /\ tx.left <= tx.time
  BY DEF SenderOK, Silent
<1>2. tx.at \in 1..FrameLen /\ tx.left \in Nat \ {0} /\ tx.time \in BitTimes
      /\ tx.frame \in Framed
  BY <1>1
<1>3. tx.time \in Nat \ {0} /\ FrameLen \in Nat
  BY <1>2, Sizes
<1>4. Age \in Nat
  <2>1. tx.at \in Int /\ 1 \in Int /\ 1 <= tx.at /\ tx.time \in Nat
    BY <1>2, <1>3
  <2>2. 1 * tx.time <= tx.at * tx.time
    BY <2>1, Monotone
  <2>3. 1 * tx.time = tx.time /\ tx.at * tx.time \in Int
    BY <2>1
  <2> QED
    BY <1>1, <1>2, <1>3, <2>2, <2>3 DEF Age
<1> QED
  BY <1>1, <1>2, <1>3, <1>4

LEMMA Line ==
    ASSUME SenderOK
    PROVE  /\ line \in {0, 1}
           /\ tx.at # 0 => line = tx.frame[tx.at]
           /\ tx.at = 1 => line = 0
           /\ line = 0 => tx.at # 0
<1>1. CASE tx.at = 0
  BY <1>1 DEF line
<1>2. CASE tx.at # 0
  <2>1. tx.at \in 1..FrameLen /\ tx.frame \in [1..FrameLen -> {0, 1}] /\ tx.frame[1] = 0
    BY <1>2, Sending DEF Framed
  <2> QED
    BY <1>2, <2>1 DEF line
<1> QED
  BY <1>1, <1>2

\* The three things a tick can do to the line: the frame on it ages, it falls
\* silent, or a frame begins.
Ages ==
    /\ tx.at # 0 /\ ~(tx.at = FrameLen /\ tx.left = 1)
    /\ tx'.at # 0 /\ tx'.frame = tx.frame /\ tx'.time = tx.time
    /\ tx'.at = 1 => tx.at = 1
    /\ Age' = Age + 1
    /\ heard' = heard

FallsSilent == tx' = Silent /\ heard' = heard

Begins ==
    /\ tx'.at = 1 /\ tx'.left = tx'.time
    /\ heard' = IF pc = "idle" /\ line = 1 /\ InTolerance(tx'.time) THEN tx'.frame ELSE <<>>

LEMMA SendSteps ==
    ASSUME SenderOK, Send
    PROVE  /\ SenderOK'
           /\ Ages \/ (tx.at \in {0, FrameLen} /\ tx.left <= 1 /\ (FallsSilent \/ Begins))
<1>1. FrameLen \in Nat /\ FrameLen >= 2 /\ BitTimes \subseteq Nat \ {0}
  BY Sizes
<1>2. tx.at = 0 => tx.left = 0
  BY <1>1 DEF SenderOK, Silent
<1>3. CASE tx.left > 1 /\ tx' = [tx EXCEPT !.left = @ - 1] /\ UNCHANGED heard
  <2>1. tx.at # 0
    BY <1>2, <1>3
  <2>2. /\ tx \in [at: 1..FrameLen, left: Nat \ {0}, time: BitTimes, frame: Framed]
        /\ tx.at \in 1..FrameLen /\ tx.time \in Nat \ {0} /\ tx.left \in 1..tx.time
    BY <2>1, Sending
  <2>3. tx.left - 1 \in Nat \ {0} /\ tx.left - 1 <= tx.time
    BY <1>3, <2>2
  <2>4. /\ tx' \in [at: 1..FrameLen, left: Nat \ {0}, time: BitTimes, frame: Framed]
        /\ tx'.at = tx.at /\ tx'.left = tx.left - 1 /\ tx'.time = tx.time
        /\ tx'.frame = tx.frame
    BY <1>3, <2>2, <2>3
  <2>5. SenderOK'
    BY <2>3, <2>4 DEF SenderOK
  <2>6. Age' = Age + 1
    <3>1. tx.at * tx.time \in Int
      BY <1>1, <2>2
    <3> QED
      BY <2>2, <2>4, <3>1 DEF Age
  <2> QED
    BY <1>3, <2>1, <2>4, <2>5, <2>6 DEF Ages
<1>4. CASE tx.left = 1 /\ tx.at < FrameLen /\ tx' = [tx EXCEPT !.at = @ + 1, !.left = tx.time]
           /\ UNCHANGED heard
  <2>1. tx.at # 0
    BY <1>2, <1>4
  <2>2. /\ tx \in [at: 1..FrameLen, left: Nat \ {0}, time: BitTimes, frame: Framed]
        /\ tx.at \in 1..FrameLen /\ tx.time \in Nat \ {0} /\ tx.time \in BitTimes
    BY <2>1, Sending
  <2>3. tx.at + 1 \in 1..FrameLen /\ tx.at + 1 # 1
    BY <1>1, <1>4, <2>2
  <2>4. /\ tx' \in [at: 1..FrameLen, left: Nat \ {0}, time: BitTimes, frame: Framed]
        /\ tx'.at = tx.at + 1 /\ tx'.left = tx.time /\ tx'.time = tx.time
        /\ tx'.frame = tx.frame
    BY <1>4, <2>2, <2>3
  <2>5. SenderOK'
    BY <2>2, <2>4 DEF SenderOK
  <2>6. Age' = Age + 1
    <3>1. tx.at \in Nat /\ tx.time \in Nat
      BY <1>1, <2>2
    <3>2. (tx.at + 1) * tx.time = tx.at * tx.time + tx.time /\ tx.at * tx.time \in Int
      BY <3>1
    <3> QED
      BY <1>4, <2>4, <3>1, <3>2 DEF Age
  <2> QED
    BY <1>1, <1>4, <2>1, <2>3, <2>4, <2>5, <2>6 DEF Ages
<1>5. CASE /\ tx.left <= 1 /\ tx.at \in {0, FrameLen}
           /\ tx' = Silent /\ UNCHANGED heard
  BY <1>5 DEF SenderOK, FallsSilent
<1>6. ASSUME tx.left <= 1, tx.at \in {0, FrameLen},
             NEW char \in Chars, NEW parity \in {0, 1}, NEW stop \in {0, 1},
             NEW t \in BitTimes, StartFrame(char, parity, stop, t)
      PROVE  SenderOK' /\ Begins
  <2>1. Frame(char, parity, stop) \in Framed /\ 1 \in 1..FrameLen /\ t \in Nat \ {0}
    BY <1>1, FrameTyped
  <2>2. tx' = [at |-> 1, left |-> t, time |-> t, frame |-> Frame(char, parity, stop)]
        /\ heard' = IF pc = "idle" /\ line = 1 /\ InTolerance(t) THEN tx'.frame ELSE <<>>
    BY <1>6 DEF StartFrame
  <2>3. /\ tx' \in [at: 1..FrameLen, left: Nat \ {0}, time: BitTimes, frame: Framed]
        /\ tx'.at = 1 /\ tx'.left = t /\ tx'.time = t
    BY <2>1, <2>2
  <2> QED
    BY <2>1, <2>2, <2>3 DEF SenderOK, Begins
<1> QED
  BY <1>3, <1>4, <1>5, <1>6 DEF Send

-----------------------------------------------------------------------------
(***************************************************************************)
(* Typing and control.                                                     *)
(***************************************************************************)
LEMMA Bits ==
    \A p : p \in UNION {[1..k -> {0, 1}] : k \in 0..NBIT}
              <=> p \in Seq({0, 1}) /\ Len(p) <= NBIT
<1>1. NBIT \in Nat
  BY Sizes
<1>2. ASSUME NEW p, NEW k \in 0..NBIT, p \in [1..k -> {0, 1}]
      PROVE  p \in Seq({0, 1}) /\ Len(p) <= NBIT
  BY <1>1, <1>2
<1>3. ASSUME NEW p \in Seq({0, 1}), Len(p) <= NBIT
      PROVE  \E k \in 0..NBIT : p \in [1..k -> {0, 1}]
  <2>1. Len(p) \in 0..NBIT /\ p \in [1..Len(p) -> {0, 1}]
    BY <1>1, <1>3, LenProperties
  <2> QED
    BY <2>1
<1> QED
  BY <1>2, <1>3

\* The types without the payload's, one by one.
LEMMA Types ==
    ProgramOK <=>
        /\ pc \in {"idle", "wait", "error", "char", "display"}
        /\ left \in 0..(tpb + MaxOver + MaxPrint)
        /\ sample \in 0..FrameLen
        /\ payload \in Seq({0, 1}) /\ Len(payload) <= NBIT
        /\ even \in {0, 1}
        /\ put \in 0..(IF ErrorLen > 2 THEN ErrorLen ELSE 2)
        /\ busy \in BOOLEAN
        /\ fifo \in 0..FifoDepth
        /\ notes \subseteq {"start", "parity", "stop", "stalled"}
<1>1. payload \in UNION {[1..k -> {0, 1}] : k \in 0..NBIT}
         <=> payload \in Seq({0, 1}) /\ Len(payload) <= NBIT
  BY Bits
<1> QED
  BY <1>1 DEF ProgramOK

LEMMA TypesNext ==
    /\ pc' \in {"idle", "wait", "error", "char", "display"}
    /\ left' \in 0..(tpb + MaxOver + MaxPrint)
    /\ sample' \in 0..FrameLen
    /\ payload' \in Seq({0, 1}) /\ Len(payload') <= NBIT
    /\ even' \in {0, 1}
    /\ put' \in 0..(IF ErrorLen > 2 THEN ErrorLen ELSE 2)
    /\ busy' \in BOOLEAN
    /\ fifo' \in 0..FifoDepth
    /\ notes' \subseteq {"start", "parity", "stop", "stalled"}
    => ProgramOK'
<1>1. payload' \in UNION {[1..k -> {0, 1}] : k \in 0..NBIT}
         <=> payload' \in Seq({0, 1}) /\ Len(payload') <= NBIT
  BY Bits
<1> QED
  BY <1>1 DEF ProgramOK

LEMMA TypingInit == Init => ProgramOK /\ ControlInv
<1> SUFFICES ASSUME Init PROVE ProgramOK /\ ControlInv
  OBVIOUS
<1>1. payload \in Seq({0, 1}) /\ Len(payload) = 0
  BY DEF Init
<1>2. /\ 0 \in 0..(tpb + MaxOver + MaxPrint) /\ 0 \in 0..FrameLen /\ 0 \in 0..FifoDepth
      /\ 0 \in 0..(IF ErrorLen > 2 THEN ErrorLen ELSE 2)
      /\ Len(payload) <= NBIT
  BY <1>1, Sizes
<1>3. ProgramOK
  BY <1>1, <1>2, Types DEF Init
<1> QED
  BY <1>1, <1>3 DEF Init, ControlInv, Taken

\* The waits are as long as the type of left allows.
LEMMA WaitTyped ==
    /\ \A l \in tphb..(tphb + MaxOver) : l \in 0..(tpb + MaxOver + MaxPrint)
    /\ \A l \in tpb..(tpb + MaxOver + MaxPrint) : l \in 0..(tpb + MaxOver + MaxPrint)
    /\ \A l \in tpb..(tpb + MaxOver) : l \in 0..(tpb + MaxOver + MaxPrint)
    /\ \A l \in 0..MaxPrint : l \in 0..(tpb + MaxOver + MaxPrint)
<1>1. tphb <= tpb
  <2>1. tpb \in Nat
    BY Sizes
  <2> QED
    BY <2>1 DEF tphb
<1> QED
  BY <1>1, Sizes

LEMMA SampleTyped ==
    ASSUME ProgramOK, ControlInv, SenderOK, SampleData
    PROVE  ProgramOK' /\ ControlInv'
<1>1. PICK k \in 1..NBIT : AtSample(k)
  BY DEF SampleData
<1>2. /\ pc = "wait" /\ sample = k /\ sample' = k + 1 /\ pc' = "wait"
      /\ payload' = Append(payload, line) /\ even' = (even + line) % 2
      /\ left' \in tpb..(tpb + MaxOver)
      /\ UNCHANGED <<put, busy, fifo, notes>>
  BY <1>1 DEF AtSample, SampleData, WaitABit
<1>3. NBIT \in Nat /\ FrameLen = NBIT + 3
  BY Sizes
<1>4. line \in {0, 1} /\ even \in {0, 1}
  BY Line, Types
<1>5. payload \in Seq({0, 1}) /\ Len(payload) = k - 1
  BY <1>2, <1>3, Types DEF ControlInv, Taken
<1>6. payload' \in Seq({0, 1}) /\ Len(payload') = k
  BY <1>2, <1>3, <1>4, <1>5, AppendProperties
<1>7. even' \in {0, 1}
  BY <1>2, <1>4
<1>8. left' \in 0..(tpb + MaxOver + MaxPrint)
  BY <1>2, WaitTyped
<1>9. sample' \in 0..FrameLen /\ sample' < FrameLen
  BY <1>2, <1>3
<1>10. ProgramOK'
  <2>1. Len(payload') <= NBIT
    BY <1>3, <1>6
  <2> QED
    BY <1>2, <1>6, <1>7, <1>8, <1>9, <2>1, Types, TypesNext
<1>11. Taken' = k
  BY <1>2, <1>3 DEF Taken
<1> QED
  BY <1>2, <1>6, <1>9, <1>10, <1>11 DEF ControlInv

\* The three checks: an error is printed, or main goes on.
LEMMA CheckTyped ==
    ASSUME ProgramOK, ControlInv, SenderOK, CheckStart \/ CheckParity \/ CheckStop
    PROVE  ProgramOK' /\ ControlInv'
<1>1. NBIT \in Nat /\ NBIT >= 2 /\ FrameLen = NBIT + 3
  BY Sizes
<1>2. PICK k \in {0, NBIT + 1, NBIT + 2} :
         /\ AtSample(k)
         /\ \/ \E e \in {"start", "parity", "stop"} : PrintError(e)
            \/ k # NBIT + 2 /\ WaitABit /\ UNCHANGED notes
            \/ k = NBIT + 2 /\ StartPrint /\ UNCHANGED notes
         /\ UNCHANGED <<payload, even, busy, fifo>>
  <2>1. CASE CheckStart
    BY <1>1, <2>1 DEF CheckStart
  <2>2. CASE CheckParity
    BY <1>1, <2>2 DEF CheckParity
  <2>3. CASE CheckStop
    BY <1>1, <2>3 DEF CheckStop
  <2> QED
    BY <2>1, <2>2, <2>3
<1>3. pc = "wait" /\ left = 0 /\ sample = k /\ sample' = k + 1
  BY <1>2 DEF AtSample
<1>4. sample' \in 0..FrameLen /\ Taken' = Taken
  BY <1>1, <1>2, <1>3 DEF Taken
<1>5. /\ pc' \in {"error", "wait", "char"}
      /\ pc' \in {"error", "char"} => left' = 0
      /\ pc' = "wait" => k # NBIT + 2 /\ put' = put /\ left' \in tpb..(tpb + MaxOver)
      /\ pc' = "char" => k = NBIT + 2
      /\ pc' # "wait" => put' \in {2, ErrorLen}
      /\ notes' \subseteq notes \union {"start", "parity", "stop"}
  BY <1>2, <1>3 DEF PrintError, WaitABit, StartPrint
<1>6. left' \in 0..(tpb + MaxOver + MaxPrint)
  <2>1. 0 \in 0..(tpb + MaxOver + MaxPrint)
    BY Sizes
  <2> QED
    BY <1>5, <2>1, WaitTyped
<1>7. put' \in 0..(IF ErrorLen > 2 THEN ErrorLen ELSE 2)
  <2>1. {2, ErrorLen} \subseteq 0..(IF ErrorLen > 2 THEN ErrorLen ELSE 2)
    BY Sizes
  <2> QED
    BY <1>5, <2>1, Types
<1>8. ProgramOK'
  <2>1. pc' \in {"idle", "wait", "error", "char", "display"}
    BY <1>5
  <2>2. notes' \subseteq {"start", "parity", "stop", "stalled"}
    BY <1>5, Types
  <2>3. UNCHANGED <<payload, even, busy, fifo>>
    BY <1>2
  <2> QED
    BY <1>4, <1>6, <1>7, <2>1, <2>2, <2>3, Types, TypesNext
<1>9. ControlInv'
  <2>1. pc' = "wait" => sample' < FrameLen /\ put' = 0
    BY <1>1, <1>2, <1>3, <1>5 DEF ControlInv
  <2>2. pc' = "char" => sample' = FrameLen
    BY <1>1, <1>3, <1>5
  <2>3. Len(payload') = Taken'
    BY <1>2, <1>4 DEF ControlInv
  <2> QED
    BY <1>5, <2>1, <2>2, <2>3 DEF ControlInv
<1> QED
  BY <1>8, <1>9

LEMMA TypingNext ==
    ASSUME ProgramOK, ControlInv, SenderOK, [Next]_vars
    PROVE  ProgramOK' /\ ControlInv'
<1>1. /\ pc \in {"idle", "wait", "error", "char", "display"}
      /\ left \in 0..(tpb + MaxOver + MaxPrint)
      /\ sample \in 0..FrameLen
      /\ payload \in Seq({0, 1}) /\ Len(payload) <= NBIT
      /\ even \in {0, 1}
      /\ put \in 0..(IF ErrorLen > 2 THEN ErrorLen ELSE 2)
      /\ busy \in BOOLEAN
      /\ fifo \in 0..FifoDepth
      /\ notes \subseteq {"start", "parity", "stop", "stalled"}
  BY Types
<1>2. /\ NBIT \in Nat /\ NBIT >= 2 /\ FrameLen = NBIT + 3 /\ FrameLen \in Nat
      /\ tpb \in Nat /\ MaxOver \in Nat /\ MaxPrint \in Nat
      /\ ErrorLen \in Nat \ {0} /\ FifoDepth \in Nat
  BY Sizes
<1>3. <<>> \in Seq({0, 1}) /\ Len(<<>>) = 0
  OBVIOUS
<1>4. CASE PollHigh
  <2>1. busy' \in BOOLEAN /\ UNCHANGED <<pc, left, sample, payload, even, put, fifo, notes>>
    BY <1>4 DEF PollHigh
  <2>2. ProgramOK'
    BY <1>1, <2>1, TypesNext
  <2> QED
    BY <2>1, <2>2 DEF ControlInv, Taken
<1>5. CASE PollLow
  <2>1. /\ pc = "idle" /\ pc' = "wait" /\ left' \in tphb..(tphb + MaxOver) /\ sample' = 0
        /\ payload' = <<>> /\ even' = 0 /\ busy' = TRUE /\ notes' = {}
        /\ UNCHANGED <<put, fifo>>
    BY <1>5 DEF PollLow
  <2>2. left' \in 0..(tpb + MaxOver + MaxPrint)
    BY <2>1, WaitTyped
  <2>3. payload' \in Seq({0, 1}) /\ Len(payload') = 0 /\ sample' \in 0..FrameLen
    BY <1>2, <1>3, <2>1
  <2>4. ProgramOK'
    BY <1>1, <1>2, <2>1, <2>2, <2>3, TypesNext
  <2>5. put' = 0
    BY <2>1 DEF ControlInv
  <2> QED
    BY <1>2, <2>1, <2>3, <2>4, <2>5 DEF ControlInv, Taken
<1>6. CASE CheckStart \/ CheckParity \/ CheckStop
  BY <1>6, CheckTyped
<1>7. CASE SampleData
  BY <1>7, SampleTyped
<1>8. CASE PutChar
  <2>1. /\ put > 0 /\ fifo < FifoDepth /\ fifo' = fifo + 1 /\ put' = put - 1
        /\ UNCHANGED <<pc, left, sample, payload, even, busy, notes>>
    BY <1>8 DEF PutChar
  <2>2. put' \in 0..(IF ErrorLen > 2 THEN ErrorLen ELSE 2) /\ fifo' \in 0..FifoDepth
    BY <1>1, <1>2, <2>1
  <2>3. ProgramOK'
    BY <1>1, <2>1, <2>2, TypesNext
  <2> QED
    BY <2>1, <2>3 DEF ControlInv, Taken
<1>9. CASE ErrorPrinted
  <2>1. /\ pc = "error" /\ put = 0 /\ left = 0
        /\ UNCHANGED <<sample, payload, even, busy, fifo, notes>>
        /\ \/ sample < FrameLen /\ pc' = "wait" /\ put' = 0
              /\ left' \in tpb..(tpb + MaxOver + MaxPrint)
           \/ ~(sample < FrameLen) /\ pc' = "char" /\ put' = 2 /\ left' = 0
    BY <1>9 DEF ErrorPrinted, StartPrint, ControlInv
  <2>2. left' \in 0..(tpb + MaxOver + MaxPrint)
    BY <1>1, <2>1, WaitTyped
  <2>3. put' \in 0..(IF ErrorLen > 2 THEN ErrorLen ELSE 2)
    BY <1>2, <2>1
  <2>4. ProgramOK'
    BY <1>1, <2>1, <2>2, <2>3, TypesNext
  <2>5. ~(sample < FrameLen) => sample = FrameLen
    BY <1>1, <1>2
  <2> QED
    BY <2>1, <2>4, <2>5 DEF ControlInv, Taken
<1>10. CASE CharPrinted
  <2>1. /\ pc = "char" /\ put = 0 /\ pc' = "display" /\ left' \in 0..MaxPrint
        /\ UNCHANGED <<sample, payload, even, put, busy, fifo, notes>>
    BY <1>10 DEF CharPrinted
  <2>2. left' \in 0..(tpb + MaxOver + MaxPrint)
    BY <2>1, WaitTyped
  <2>3. ProgramOK'
    BY <1>1, <2>1, <2>2, TypesNext
  <2> QED
    BY <2>1, <2>3 DEF ControlInv, Taken
<1>11. CASE Display
  <2>1. /\ pc = "display" /\ left = 0 /\ pc' = "idle" /\ sample' = 0
        /\ payload' = <<>> /\ even' = 0
        /\ UNCHANGED <<left, put, busy, fifo, notes>>
    BY <1>11 DEF Display
  <2>2. payload' \in Seq({0, 1}) /\ Len(payload') = 0 /\ sample' \in 0..FrameLen
    BY <1>2, <1>3, <2>1
  <2>3. ProgramOK'
    BY <1>1, <1>2, <2>1, <2>2, TypesNext
  <2> QED
    BY <2>1, <2>2, <2>3 DEF ControlInv, Taken
<1>12. CASE Tick
  <2>1. /\ left' = IF left > 0 THEN left - 1 ELSE 0
        /\ notes' \subseteq notes \union {"stalled"}
        /\ UNCHANGED <<pc, sample, payload, even, put, busy, fifo>>
    BY <1>12 DEF Tick
  <2>2. left' \in 0..(tpb + MaxOver + MaxPrint) /\ (left = 0 => left' = 0)
    BY <1>1, <1>2, <2>1
  <2>3. notes' \subseteq {"start", "parity", "stop", "stalled"}
    BY <1>1, <2>1
  <2>4. ProgramOK'
    BY <1>1, <2>1, <2>2, <2>3, TypesNext
  <2> QED
    BY <2>1, <2>2, <2>4 DEF ControlInv, Taken
<1>13. CASE HostReads
  <2>1. fifo > 0 /\ fifo' = fifo - 1
        /\ UNCHANGED <<pc, left, sample, payload, even, put, busy, notes>>
    BY <1>13 DEF HostReads, program
  <2>2. fifo' \in 0..FifoDepth
    BY <1>1, <1>2, <2>1
  <2>3. ProgramOK'
    BY <1>1, <2>1, <2>2, TypesNext
  <2> QED
    BY <2>1, <2>3 DEF ControlInv, Taken
<1>14. CASE UNCHANGED vars
  <2>1. UNCHANGED <<pc, left, sample, payload, even, put, busy, fifo, notes>>
    BY <1>14 DEF vars, program
  <2>2. ProgramOK'
    BY <1>1, <2>1, TypesNext
  <2> QED
    BY <2>1, <2>2 DEF ControlInv, Taken
<1> QED
  BY <1>4, <1>5, <1>6, <1>7, <1>8, <1>9, <1>10, <1>11, <1>12, <1>13, <1>14 DEF Next, Main

-----------------------------------------------------------------------------
(***************************************************************************)
(* The frame that is heard.                                                *)
(***************************************************************************)

\* Only a tick moves the sender, and only a tick and the poll of a low line
\* change what is heard.
LEMMA Others ==
    ASSUME [Next]_vars, ~Tick
    PROVE  tx' = tx /\ (PollLow \/ heard' = heard)
BY DEF Next, Main, PollHigh, PollLow, CheckStart, SampleData, CheckParity, CheckStop,
       PutChar, ErrorPrinted, CharPrinted, Display, HostReads, vars

LEMMA HeardNext ==
    ASSUME SenderOK, HeardInv, [Next]_vars
    PROVE  SenderOK' /\ HeardInv'
<1>1. CASE Tick
  <2>1. Send
    BY <1>1 DEF Tick
  <2>2. SenderOK' /\ (Ages \/ FallsSilent \/ Begins)
    BY <2>1, SendSteps
  <2>3. CASE Ages
    BY <2>2, <2>3 DEF Ages, HeardInv
  <2>4. CASE FallsSilent
    BY <2>2, <2>4 DEF FallsSilent, HeardInv, Silent
  <2>5. CASE Begins
    <3>1. tx'.frame \in Framed
      BY <2>2, <2>5 DEF SenderOK, Begins, Silent
    <3> QED
      BY <2>2, <2>5, <3>1 DEF Begins, HeardInv
  <2> QED
    BY <2>2, <2>3, <2>4, <2>5
<1>2. CASE ~Tick
  <2>1. tx' = tx /\ (heard' = heard \/ heard' = <<>>)
    BY <1>2, Others DEF PollLow
  <2> QED
    BY <2>1 DEF SenderOK, HeardInv
<1> QED
  BY <1>1, <1>2

\* A wait that ends in a frame that is heard, no error having been printed for
\* its parity, ends in the bit it was for.
LEMMA OnTime ==
    ASSUME ProgramOK, ControlInv, SenderOK, HeardInv, TimeInv,
           heard # <<>>, pc = "wait", left = 0, "parity" \notin notes
    PROVE  /\ tx.at = sample + 1 /\ line = heard[sample + 1] /\ line \in {0, 1}
           /\ Age \in Nat /\ Due(sample) <= Age /\ Age <= Due(sample) + (sample + 1) * MaxOver
<1>1. sample \in 0..(NBIT + 2) /\ sample \in Nat
  BY Types, Sizes DEF ControlInv
<1>2. tx.at # 0 /\ Due(sample) <= Age + left /\ Age + left <= Due(sample) + (sample + 1) * MaxOver
  BY DEF TimeInv
<1>3. /\ tx.at \in 1..FrameLen /\ tx.time \in Nat \ {0} /\ tx.left \in 1..tx.time
      /\ Age \in Nat
  BY <1>2, Sending
<1>4. tx.frame = heard /\ InTolerance(tx.time)
  BY <1>2 DEF HeardInv
<1>5. Due(sample) <= Age /\ Age <= Due(sample) + (sample + 1) * MaxOver
  BY <1>2, <1>3
<1>6. sample * tx.time <= Due(sample)
      /\ Due(sample) + (sample + 1) * MaxOver < (sample + 1) * tx.time
  BY <1>1, <1>3, <1>4, Tolerances
<1>7. Due(sample) \in Int /\ (sample + 1) * MaxOver \in Int /\ sample * tx.time \in Int
      /\ (sample + 1) * tx.time \in Int
  <2>1. Due(sample) \in Int /\ (sample + 1) * MaxOver \in Int
    BY <1>1, Times
  <2>2. sample * tx.time \in Int /\ (sample + 1) * tx.time \in Int
    BY <1>1, <1>3
  <2> QED
    BY <2>1, <2>2
<1>8. sample * tx.time <= Age /\ Age < (sample + 1) * tx.time
  BY <1>3, <1>5, <1>6, <1>7
<1>9. tx.at = sample + 1
  <2>1. tx.at \in Nat
    BY <1>3, Sizes
  <2>2. sample * tx.time <= tx.at * tx.time - tx.left
        /\ tx.at * tx.time - tx.left < (sample + 1) * tx.time
    BY <1>8 DEF Age
  <2> QED
    BY <1>1, <1>3, <2>1, <2>2, Place
<1> QED
  BY <1>2, <1>3, <1>4, <1>5, <1>9, Line

-----------------------------------------------------------------------------
(***************************************************************************)
(* Parity.                                                                 *)
(***************************************************************************)
LEMMA NoOnes == \A f : Ones(f, 0) = 0
<1>1. \A f : {k \in 1..0 : f[k + 1] = 1} = {}
  OBVIOUS
<1> QED
  BY <1>1, FS_EmptySet DEF Ones

\* One more data bit.
LEMMA OneMore ==
    ASSUME NEW f \in Framed, NEW m \in 0..(NBIT - 1)
    PROVE  /\ f[m + 2] \in {0, 1}
           /\ Ones(f, m) \in Nat /\ Ones(f, m + 1) = Ones(f, m) + f[m + 2]
<1>1. NBIT \in Nat /\ FrameLen = NBIT + 3 /\ m \in Nat /\ m + 2 \in 1..FrameLen
  BY Sizes
<1>2. f[m + 2] \in {0, 1}
  BY <1>1 DEF Framed
<1> DEFINE A == {k \in 1..m : f[k + 1] = 1}
           B == {k \in 1..(m + 1) : f[k + 1] = 1}
<1>3. IsFiniteSet(A) /\ Cardinality(A) \in Nat
  <2>1. IsFiniteSet(1..m)
    BY <1>1, FS_Interval
  <2>2. A \subseteq 1..m
    OBVIOUS
  <2>3. IsFiniteSet(A)
    BY <2>1, <2>2, FS_Subset
  <2> QED
    BY <2>3, FS_CardinalityType
<1>4. m + 1 \notin A /\ (m + 1) + 1 = m + 2
  BY <1>1
<1>5. ASSUME f[m + 2] = 1 PROVE Cardinality(B) = Cardinality(A) + 1
  <2>1. B = A \union {m + 1}
    BY <1>1, <1>4, <1>5
  <2> QED
    BY <1>3, <1>4, <2>1, FS_AddElement
<1>6. ASSUME f[m + 2] = 0 PROVE Cardinality(B) = Cardinality(A)
  <2>1. B = A
    BY <1>1, <1>4, <1>6
  <2> QED
    BY <2>1
<1>7. Ones(f, m) = Cardinality(A) /\ Ones(f, m + 1) = Cardinality(B)
  BY DEF Ones
<1> HIDE DEF A, B
<1>8. Cardinality(B) = Cardinality(A) + f[m + 2]
  BY <1>2, <1>3, <1>5, <1>6
<1> QED
  BY <1>2, <1>3, <1>7, <1>8

-----------------------------------------------------------------------------
(***************************************************************************)
(* What main has of the frame, and when: one step of each kind.            *)
(***************************************************************************)
Known == ProgramOK /\ ControlInv /\ SenderOK /\ HeardInv /\ ReadInv /\ TimeInv

\* A step that changes nothing the invariants speak of.
LEMMA KeptBySame ==
    ASSUME ReadInv, TimeInv, UNCHANGED <<pc, left, sample, payload, even, tx, heard, notes>>
    PROVE  ReadInv' /\ TimeInv'
BY DEF ReadInv, TimeInv, Taken, Ones, Age

LEMMA KeptByPollLow == Known /\ PollLow => ReadInv' /\ TimeInv'
<1> SUFFICES ASSUME Known, PollLow PROVE ReadInv' /\ TimeInv'
  OBVIOUS
<1> USE DEF Known
<1>1. /\ pc = "idle" /\ line = 0 /\ pc' = "wait" /\ left' \in tphb..(tphb + MaxOver)
      /\ sample' = 0 /\ payload' = <<>> /\ even' = 0 /\ notes' = {} /\ tx' = tx
      /\ heard' = IF tx.at = 1 THEN heard ELSE <<>>
  BY DEF PollLow
<1>2. NBIT \in Nat /\ FrameLen = NBIT + 3 /\ tphb \in Nat /\ MaxOver \in Nat
  BY Sizes
<1>3. ReadInv'
  <2>1. Taken' = 0 /\ sample' # FrameLen /\ ~(sample' > NBIT + 1)
    BY <1>1, <1>2 DEF Taken
  <2>2. even' = Ones(heard', 0) % 2
    BY <1>1, NoOnes
  <2> QED
    BY <1>1, <2>1, <2>2 DEF ReadInv
<1>4. ASSUME heard' # <<>> PROVE tx.at = 1 /\ Age' = 0
  <2>1. tx.at = 1 /\ heard # <<>>
    BY <1>1, <1>4
  <2>2. tx.left = tx.time
    BY <1>1, <2>1 DEF TimeInv
  <2>3. tx.time \in Nat
    BY <2>1, Sending
  <2>4. Age = 0
    BY <2>1, <2>2, <2>3 DEF Age
  <2> QED
    BY <1>1, <2>1, <2>4 DEF Age
<1>5. TimeInv'
  <2>1. ASSUME heard' # <<>>
        PROVE  /\ tx'.at # 0 /\ Due(sample') <= Age' + left'
               /\ Age' + left' <= Due(sample') + (sample' + 1) * MaxOver
    <3>1. tx'.at = 1 /\ Age' = 0
      BY <1>1, <1>4, <2>1
    <3>2. Due(sample') = tphb /\ (sample' + 1) * MaxOver = MaxOver
      BY <1>1, <1>2, Times
    <3>3. left' \in Nat /\ tphb <= left' /\ left' <= tphb + MaxOver
      BY <1>1, <1>2
    <3> QED
      BY <3>1, <3>2, <3>3
  <2>2. pc' = "wait" /\ "parity" \notin notes'
    BY <1>1
  <2> QED
    BY <2>1, <2>2 DEF TimeInv
<1> QED
  BY <1>3, <1>5

\* The next wait, of a bit, from a sample that was in time.
LEMMA NextWait ==
    ASSUME Known, heard # <<>>, pc = "wait", left = 0, "parity" \notin notes,
           sample < FrameLen - 1,
           sample' = sample + 1, WaitABit, tx' = tx, heard' = heard
    PROVE  /\ tx'.at # 0 /\ Due(sample') <= Age' + left'
           /\ Age' + left' <= Due(sample') + (sample' + 1) * MaxOver
<1> USE DEF Known
<1>1. /\ tx.at = sample + 1 /\ Age \in Nat
      /\ Due(sample) <= Age /\ Age <= Due(sample) + (sample + 1) * MaxOver
  BY OnTime
<1>2. sample \in Nat /\ sample' = sample + 1 /\ sample' + 1 = sample + 2
  BY Types, Sizes
<1>3. tpb \in Nat /\ MaxOver \in Nat
  BY Sizes
<1>4. left' \in Nat /\ tpb <= left' /\ left' <= tpb + MaxOver
  BY <1>3 DEF WaitABit
<1>5. Age' = Age /\ tx'.at # 0
  BY <1>1, <1>2 DEF Age
<1>6. /\ Due(sample) \in Nat /\ Due(sample') = Due(sample) + tpb
      /\ (sample + 1) * MaxOver \in Nat
      /\ (sample' + 1) * MaxOver = (sample + 1) * MaxOver + MaxOver
  BY <1>2, Times
<1> QED
  BY <1>1, <1>3, <1>4, <1>5, <1>6

LEMMA KeptByCheckStart == Known /\ CheckStart => ReadInv' /\ TimeInv'
<1> SUFFICES ASSUME Known, CheckStart, heard' # <<>> PROVE ReadInv' /\ TimeInv'
  BY DEF ReadInv, TimeInv
<1> USE DEF Known
<1>1. /\ pc = "wait" /\ left = 0 /\ sample = 0 /\ sample' = 1
      /\ UNCHANGED <<payload, even, tx, heard>>
  BY DEF CheckStart, AtSample
<1>2. NBIT \in Nat /\ NBIT >= 2 /\ FrameLen = NBIT + 3
  BY Sizes
<1>3. "parity" \notin notes /\ "start" \notin notes /\ "stop" \notin notes
  BY <1>1, <1>2 DEF ReadInv
<1>4. line = 0
  <2>1. line = heard[1]
    BY <1>1, <1>3, OnTime
  <2> QED
    BY <1>1, <2>1 DEF HeardInv, Framed
<1>5. WaitABit /\ notes' = notes
  BY <1>4 DEF CheckStart
<1>6. ReadInv'
  <2>1. Taken' = 0 /\ Taken = 0
    BY <1>1, <1>2 DEF Taken
  <2>2. even' = Ones(heard', 0) % 2
    BY <1>1, <2>1 DEF ReadInv
  <2>3. pc' = "wait" /\ sample' # FrameLen /\ ~(sample' > NBIT + 1)
    BY <1>1, <1>2, <1>5 DEF WaitABit
  <2> QED
    BY <1>3, <1>5, <2>1, <2>2, <2>3 DEF ReadInv
<1>7. TimeInv'
  <2>1. /\ tx'.at # 0 /\ Due(sample') <= Age' + left'
        /\ Age' + left' <= Due(sample') + (sample' + 1) * MaxOver
    BY <1>1, <1>2, <1>3, <1>5, NextWait
  <2> QED
    BY <1>3, <1>5, <2>1 DEF TimeInv, WaitABit
<1> QED
  BY <1>6, <1>7

LEMMA KeptBySampleData == Known /\ SampleData => ReadInv' /\ TimeInv'
<1> SUFFICES ASSUME Known, SampleData, heard' # <<>> PROVE ReadInv' /\ TimeInv'
  BY DEF ReadInv, TimeInv
<1> USE DEF Known
<1>1. PICK k \in 1..NBIT : AtSample(k)
  BY DEF SampleData
<1>2. /\ pc = "wait" /\ left = 0 /\ sample = k /\ sample' = k + 1
      /\ payload' = Append(payload, line) /\ even' = (even + line) % 2
      /\ WaitABit /\ pc' = "wait"
      /\ UNCHANGED <<tx, heard, notes>>
  BY <1>1 DEF SampleData, AtSample, WaitABit
<1>3. NBIT \in Nat /\ NBIT >= 2 /\ FrameLen = NBIT + 3 /\ k \in Nat
  BY Sizes
<1>4. "parity" \notin notes /\ "start" \notin notes /\ "stop" \notin notes
  BY <1>2, <1>3 DEF ReadInv
<1>5. line = heard[k + 1] /\ line \in {0, 1}
  BY <1>2, <1>4, OnTime
<1>6. Taken = k - 1 /\ Taken' = k
  BY <1>2, <1>3 DEF Taken
<1>7. \A i \in 1..k : payload'[i] = heard[i + 1]
  <2>1. payload \in Seq({0, 1}) /\ Len(payload) = k - 1
    BY <1>6, Types DEF ControlInv
  <2>2. payload'[k] = line /\ \A i \in 1..(k - 1) : payload'[i] = payload[i]
    BY <1>2, <1>3, <1>5, <2>1, AppendProperties
  <2>3. \A i \in 1..(k - 1) : payload[i] = heard[i + 1]
    BY <1>2, <1>6 DEF ReadInv
  <2> QED
    BY <1>3, <1>5, <2>2, <2>3
<1>8. even' = Ones(heard, k) % 2
  <2>1. heard \in Framed /\ k - 1 \in 0..(NBIT - 1) /\ (k - 1) + 2 = k + 1 /\ (k - 1) + 1 = k
    BY <1>2, <1>3 DEF HeardInv
  <2>2. Ones(heard, k - 1) \in Nat /\ Ones(heard, k) = Ones(heard, k - 1) + heard[k + 1]
    BY <2>1, OneMore
  <2>3. even = Ones(heard, k - 1) % 2
    BY <1>2, <1>6 DEF ReadInv
  <2>4. \A n \in Nat, b \in {0, 1} : ((n % 2) + b) % 2 = (n + b) % 2
    OBVIOUS
  <2> QED
    BY <1>2, <1>5, <2>2, <2>3, <2>4
<1>9. ReadInv'
  <2>1. sample' # FrameLen /\ ~(sample' > NBIT + 1)
    BY <1>2, <1>3
  <2> QED
    BY <1>2, <1>4, <1>6, <1>7, <1>8, <2>1 DEF ReadInv
<1>10. TimeInv'
  <2>1. /\ tx'.at # 0 /\ Due(sample') <= Age' + left'
        /\ Age' + left' <= Due(sample') + (sample' + 1) * MaxOver
    BY <1>2, <1>3, <1>4, NextWait
  <2> QED
    BY <1>2, <1>4, <2>1 DEF TimeInv
<1> QED
  BY <1>9, <1>10

LEMMA KeptByCheckParity == Known /\ CheckParity => ReadInv' /\ TimeInv'
<1> SUFFICES ASSUME Known, CheckParity, heard' # <<>> PROVE ReadInv' /\ TimeInv'
  BY DEF ReadInv, TimeInv
<1> USE DEF Known
<1>1. /\ pc = "wait" /\ left = 0 /\ sample = NBIT + 1 /\ sample' = NBIT + 2
      /\ UNCHANGED <<payload, even, tx, heard>>
  BY Sizes DEF CheckParity, AtSample
<1>2. NBIT \in Nat /\ NBIT >= 2 /\ FrameLen = NBIT + 3
  BY Sizes
<1>3. "parity" \notin notes /\ "start" \notin notes /\ "stop" \notin notes
  BY <1>1, <1>2 DEF ReadInv
<1>4. line = heard[NBIT + 2] /\ tx.at = NBIT + 2
  BY <1>1, <1>2, <1>3, OnTime
<1>5. \/ line # even /\ pc' = "error" /\ notes' = notes \union {"parity"}
      \/ line = even /\ WaitABit /\ pc' = "wait" /\ notes' = notes
  BY DEF CheckParity, PrintError, WaitABit
<1>6. ReadInv'
  <2>1. Taken' = NBIT /\ Taken = NBIT
    BY <1>1, <1>2 DEF Taken
  <2>2. /\ \A k \in 1..NBIT : payload'[k] = heard'[k + 1]
        /\ even' = Ones(heard', NBIT) % 2
    BY <1>1, <2>1 DEF ReadInv
  <2>3. "parity" \in notes' <=> heard'[NBIT + 2] # even'
    BY <1>1, <1>3, <1>4, <1>5
  <2>4. sample' # FrameLen /\ sample' > NBIT + 1
    BY <1>1, <1>2
  <2>5. "start" \notin notes' /\ "stop" \notin notes'
        /\ (pc' = "error" => "parity" \in notes')
    BY <1>3, <1>5
  <2> QED
    BY <2>1, <2>2, <2>3, <2>4, <2>5 DEF ReadInv
<1>7. TimeInv'
  <2>1. CASE line # even
    <3>1. pc' = "error" /\ tx'.at # 1
      BY <1>1, <1>2, <1>4, <1>5, <2>1
    <3> QED
      BY <3>1 DEF TimeInv
  <2>2. CASE line = even
    <3>1. WaitABit /\ pc' = "wait" /\ "parity" \notin notes'
      BY <1>3, <1>5, <2>2
    <3>2. sample' = sample + 1 /\ sample < FrameLen - 1
      BY <1>1, <1>2
    <3>3. /\ tx'.at # 0 /\ Due(sample') <= Age' + left'
          /\ Age' + left' <= Due(sample') + (sample' + 1) * MaxOver
      BY <1>1, <1>3, <3>1, <3>2, NextWait
    <3> QED
      BY <3>1, <3>3 DEF TimeInv
  <2> QED
    BY <2>1, <2>2
<1> QED
  BY <1>6, <1>7

LEMMA KeptByCheckStop == Known /\ CheckStop => ReadInv' /\ TimeInv'
<1> SUFFICES ASSUME Known, CheckStop, heard' # <<>> PROVE ReadInv' /\ TimeInv'
  BY DEF ReadInv, TimeInv
<1> USE DEF Known
<1>1. /\ pc = "wait" /\ left = 0 /\ sample = NBIT + 2 /\ sample' = FrameLen
      /\ UNCHANGED <<payload, even, tx, heard>>
  BY Sizes DEF CheckStop, AtSample
<1>2. NBIT \in Nat /\ NBIT >= 2 /\ FrameLen = NBIT + 3
  BY Sizes
<1>3. \/ line = 0 /\ pc' = "error" /\ notes' = notes \union {"stop"} /\ left' = 0
      \/ line # 0 /\ pc' = "char" /\ notes' = notes /\ left' = 0
  BY <1>1 DEF CheckStop, PrintError, StartPrint
<1>4. /\ "start" \notin notes /\ "stop" \notin notes
      /\ "parity" \in notes <=> heard[NBIT + 2] # even
  BY <1>1, <1>2 DEF ReadInv
<1>5. ASSUME "parity" \notin notes
      PROVE  /\ line = heard[FrameLen] /\ line \in {0, 1} /\ tx.at = FrameLen
             /\ Age \in Nat /\ Age <= LastSample
  <2>1. /\ tx.at = sample + 1 /\ line = heard[sample + 1] /\ line \in {0, 1}
        /\ Age \in Nat /\ Age <= Due(sample) + (sample + 1) * MaxOver
    BY <1>1, <1>5, OnTime
  <2>2. sample + 1 = FrameLen
    BY <1>1, <1>2
  <2>3. Due(sample) + (sample + 1) * MaxOver = LastSample
    BY <1>1, <1>2, <2>2, Times
  <2> QED
    BY <2>1, <2>2, <2>3
<1>6. ReadInv'
  <2>1. Taken' = NBIT /\ Taken = NBIT
    BY <1>1, <1>2 DEF Taken
  <2>2. /\ \A k \in 1..NBIT : payload'[k] = heard'[k + 1]
        /\ even' = Ones(heard', NBIT) % 2
    BY <1>1, <2>1 DEF ReadInv
  <2>3. "parity" \in notes' <=> heard'[NBIT + 2] # even'
    BY <1>1, <1>3, <1>4
  <2>4. "parity" \notin notes' => ("stop" \in notes' <=> heard'[FrameLen] = 0)
    BY <1>1, <1>3, <1>4, <1>5
  <2>5. sample' = FrameLen /\ sample' > NBIT + 1
    BY <1>1, <1>2
  <2>6. "start" \notin notes' /\ (pc' = "error" => "stop" \in notes')
    BY <1>3, <1>4
  <2> QED
    BY <2>1, <2>2, <2>3, <2>4, <2>5, <2>6 DEF ReadInv
<1>7. TimeInv'
  <2>1. tx'.at # 1
    <3>1. CASE "parity" \in notes
      BY <1>1, <3>1 DEF TimeInv
    <3>2. CASE "parity" \notin notes
      BY <1>1, <1>2, <1>5, <3>2
    <3> QED
      BY <3>1, <3>2
  <2>2. pc' = "char" /\ notes' = {} => Age' + left' <= LastSample
    <3>1. SUFFICES ASSUME pc' = "char", notes' = {} PROVE Age' + left' <= LastSample
      OBVIOUS
    <3>2. notes = {} /\ left' = 0
      BY <1>3, <3>1
    <3>3. Age \in Nat /\ Age <= LastSample
      BY <1>5, <3>2
    <3>4. Age' = Age
      BY <1>1 DEF Age
    <3> QED
      BY <3>2, <3>3, <3>4
  <2>3. pc' \in {"error", "char"} /\ LastSample \in Nat
    BY <1>3, Times
  <2> QED
    BY <2>1, <2>2, <2>3 DEF TimeInv
<1> QED
  BY <1>6, <1>7

LEMMA KeptByErrorPrinted == Known /\ ErrorPrinted => ReadInv' /\ TimeInv'
<1> SUFFICES ASSUME Known, ErrorPrinted, heard' # <<>> PROVE ReadInv' /\ TimeInv'
  BY DEF ReadInv, TimeInv
<1> USE DEF Known
<1>1. /\ pc = "error" /\ pc' \in {"wait", "char"}
      /\ pc' = "wait" => sample < FrameLen
      /\ UNCHANGED <<sample, payload, even, tx, heard, notes>>
  BY DEF ErrorPrinted, StartPrint
<1>2. notes # {} /\ tx.at # 1 /\ (sample < FrameLen => "parity" \in notes)
  <2>1. sample < FrameLen => sample # FrameLen
    BY Types, Sizes
  <2> QED
    BY <1>1, <2>1 DEF ReadInv, TimeInv
<1>3. ReadInv'
  BY <1>1 DEF ReadInv, Taken
<1>4. TimeInv'
  BY <1>1, <1>2 DEF TimeInv
<1> QED
  BY <1>3, <1>4

LEMMA KeptByCharPrinted == Known /\ CharPrinted => ReadInv' /\ TimeInv'
<1> SUFFICES ASSUME Known, CharPrinted, heard' # <<>> PROVE ReadInv' /\ TimeInv'
  BY DEF ReadInv, TimeInv
<1> USE DEF Known
<1>1. /\ pc = "char" /\ pc' = "display" /\ left' \in 0..MaxPrint
      /\ UNCHANGED <<sample, payload, even, tx, heard, notes>>
  BY DEF CharPrinted
<1>2. ReadInv'
  BY <1>1 DEF ReadInv, Taken
<1>3. notes' = {} /\ tx'.at # 0 => Age' + left' <= LastSample + MaxPrint
  <2> SUFFICES ASSUME notes = {}, tx.at # 0 PROVE Age' + left' <= LastSample + MaxPrint
    BY <1>1
  <2>1. left = 0 /\ Age + left <= LastSample + 0
    BY <1>1 DEF TimeInv, ControlInv
  <2>2. Age' = Age /\ Age \in Nat
    BY <1>1, Sending DEF Age
  <2>3. LastSample \in Nat /\ MaxPrint \in Nat
    BY Times, Sizes
  <2>4. Age <= LastSample
    BY <2>1, <2>2, <2>3
  <2>5. left' \in Nat /\ left' <= MaxPrint
    BY <1>1, <2>3
  <2>6. \A a, l \in Nat : a <= LastSample /\ l <= MaxPrint => a + l <= LastSample + MaxPrint
    BY <2>3
  <2>7. Age + left' <= LastSample + MaxPrint
    BY <2>2, <2>4, <2>5, <2>6
  <2> QED
    BY <2>2, <2>7
<1>4. TimeInv'
  BY <1>1, <1>3 DEF TimeInv
<1> QED
  BY <1>2, <1>4

LEMMA KeptByDisplay == Known /\ Display => ReadInv' /\ TimeInv'
<1> SUFFICES ASSUME Known, Display, heard' # <<>> PROVE ReadInv' /\ TimeInv'
  BY DEF ReadInv, TimeInv
<1> USE DEF Known
<1>1. pc = "display" /\ pc' = "idle" /\ tx' = tx /\ heard' = heard
  BY DEF Display
<1>2. tx'.at # 1
  BY <1>1 DEF TimeInv
<1> QED
  BY <1>1, <1>2 DEF ReadInv, TimeInv

\* A wait that is still on, or a display still to come, ends before the frame.
LEMMA InFrame ==
    ASSUME Known, heard # <<>>, pc = "wait", "parity" \notin notes, left > 0
    PROVE  /\ tx.at # 0 /\ Age \in Nat
           /\ ~(tx.at = FrameLen /\ tx.left <= 1)
<1> USE DEF Known
<1>1. sample \in 0..(NBIT + 2) /\ sample \in Nat /\ left \in Nat
  BY Types, Sizes DEF ControlInv
<1>2. tx.at # 0 /\ Age + left <= Due(sample) + (sample + 1) * MaxOver
  BY DEF TimeInv
<1>3. tx.time \in Nat \ {0} /\ tx.left \in 1..tx.time /\ Age \in Nat /\ FrameLen \in Nat
  BY <1>2, Sending, Sizes
<1>4. InTolerance(tx.time)
  BY <1>2 DEF HeardInv
<1>5. Due(sample) + (sample + 1) * MaxOver < (sample + 1) * tx.time
      /\ (sample + 1) * tx.time <= FrameLen * tx.time
  BY <1>1, <1>3, <1>4, Tolerances
<1>6. Due(sample) \in Nat /\ (sample + 1) * MaxOver \in Nat
  BY <1>1, Times
<1>7. (sample + 1) * tx.time \in Int /\ FrameLen * tx.time \in Int
  BY <1>1, <1>3
<1>8. Age + 1 < FrameLen * tx.time
  BY <1>1, <1>2, <1>3, <1>5, <1>6, <1>7
<1>9. tx.at = FrameLen /\ tx.left <= 1 => Age = FrameLen * tx.time - 1
  BY <1>3 DEF Age
<1> QED
  BY <1>2, <1>3, <1>7, <1>8, <1>9

LEMMA KeptByTick == Known /\ Tick => ReadInv' /\ TimeInv'
<1> SUFFICES ASSUME Known, Tick, heard' # <<>> PROVE ReadInv' /\ TimeInv'
  BY DEF ReadInv, TimeInv
<1> USE DEF Known
<1>1. /\ left > 0 \/ Blocked \/ (pc = "idle" /\ line = 1)
      /\ left' = IF left > 0 THEN left - 1 ELSE 0
      /\ notes' = IF Blocked THEN notes \union {"stalled"} ELSE notes
      /\ Send
      /\ UNCHANGED <<pc, sample, payload, even, put, busy, fifo>>
  BY DEF Tick
<1>2. SenderOK' /\ (Ages \/ (tx.at \in {0, FrameLen} /\ tx.left <= 1 /\ (FallsSilent \/ Begins)))
  BY <1>1, SendSteps
<1>3. pc # "idle" => heard' = heard
  BY <1>2 DEF Ages, FallsSilent, Begins
<1>4. ReadInv'
  <2> SUFFICES ASSUME pc # "idle" PROVE ReadInv'
    BY <1>1 DEF ReadInv
  <2>1. heard' = heard
    BY <1>3
  <2>2. /\ "start" \in notes' <=> "start" \in notes
        /\ "parity" \in notes' <=> "parity" \in notes
        /\ "stop" \in notes' <=> "stop" \in notes
    BY <1>1
  <2>3. UNCHANGED <<pc, sample, payload, even>> /\ Taken' = Taken
    BY <1>1 DEF Taken
  <2> QED
    BY <2>1, <2>2, <2>3 DEF ReadInv
<1>5. left \in Nat /\ MaxPrint \in Nat /\ LastSample \in Nat /\ FrameLen \in Nat /\ FrameLen >= 2
  <2>1. left \in 0..(tpb + MaxOver + MaxPrint)
    BY Types
  <2> QED
    BY <2>1, Sizes, Times
<1>6. "parity" \in notes' <=> "parity" \in notes
  BY <1>1
<1>7. CASE pc = "idle"
  <2>1. line = 1
    BY <1>1, <1>7 DEF ControlInv, Blocked
  <2>2. tx.at # 1
    BY <2>1, Line
  <2>3. tx'.at = 1 => tx'.left = tx'.time
    BY <1>2, <2>2 DEF Ages, FallsSilent, Begins, Silent
  <2> QED
    BY <1>1, <1>4, <1>7, <2>3 DEF TimeInv
<1>8. CASE pc = "wait" /\ "parity" \notin notes
  <2>1. left > 0 /\ left' = left - 1
    BY <1>1, <1>8 DEF ControlInv, Blocked
  <2>2. tx.at # 0 /\ Age \in Nat /\ ~(tx.at = FrameLen /\ tx.left <= 1)
    BY <1>3, <1>8, <2>1, InFrame
  <2>3. tx'.at # 0 /\ Age' = Age + 1
    BY <1>2, <2>2 DEF Ages
  <2>4. Age' + left' = Age + left
    BY <1>5, <2>1, <2>2, <2>3
  <2>5. Due(sample') <= Age' + left' /\ Age' + left' <= Due(sample') + (sample' + 1) * MaxOver
    <3>1. /\ Due(sample) <= Age + left
          /\ Age + left <= Due(sample) + (sample + 1) * MaxOver
      BY <1>3, <1>8 DEF TimeInv
    <3> QED
      BY <1>1, <2>4, <3>1
  <2> QED
    BY <1>1, <1>4, <1>6, <1>8, <2>3, <2>5 DEF TimeInv
<1>9. CASE pc = "error" \/ (pc = "wait" /\ "parity" \in notes)
  <2>1. tx.at # 1
    BY <1>3, <1>9 DEF TimeInv
  <2>2. tx'.at # 1
    BY <1>2, <1>9, <2>1 DEF Ages, FallsSilent, Begins, Silent
  <2> QED
    BY <1>1, <1>4, <1>6, <1>9, <2>2 DEF TimeInv
<1>10. CASE pc \in {"char", "display"}
  <2>1. tx.at # 1
    BY <1>3, <1>10 DEF TimeInv
  <2>2. tx'.at # 1
    BY <1>2, <1>10, <2>1 DEF Ages, FallsSilent, Begins, Silent
  <2>3. notes' = {} /\ tx'.at # 0 =>
            Age' + left' <= LastSample + (IF pc' = "char" THEN 0 ELSE MaxPrint)
    <3> SUFFICES ASSUME notes' = {}, tx'.at # 0
                 PROVE  Age' + left' <= LastSample + (IF pc' = "char" THEN 0 ELSE MaxPrint)
      OBVIOUS
    <3>1. ~Blocked /\ notes = {}
      BY <1>1
    <3>2. left > 0 /\ left' = left - 1
      BY <1>1, <1>10, <3>1
    <3>3. tx.at # 0 /\ Age' = Age + 1
      BY <1>2, <1>10 DEF Ages, FallsSilent, Begins, Silent
    <3>4. Age \in Nat
      BY <3>3, Sending
    <3>5. Age + left <= LastSample + (IF pc = "char" THEN 0 ELSE MaxPrint)
      BY <1>3, <1>10, <3>1, <3>3 DEF TimeInv
    <3>6. Age' + left' = Age + left
      BY <1>5, <3>2, <3>3, <3>4
    <3> QED
      BY <1>1, <3>5, <3>6
  <2> QED
    BY <1>1, <1>4, <1>10, <2>2, <2>3 DEF TimeInv
<1>11. pc \in {"idle", "wait", "error", "char", "display"}
  BY Types
<1> QED
  BY <1>4, <1>7, <1>8, <1>9, <1>10, <1>11

-----------------------------------------------------------------------------
(***************************************************************************)
(* The theorems.                                                           *)
(***************************************************************************)
LEMMA InitIInv == Init => IInv
<1> SUFFICES ASSUME Init PROVE IInv
  OBVIOUS
<1>1. ProgramOK /\ ControlInv
  BY TypingInit
<1>2. SenderOK /\ HeardInv /\ ReadInv /\ TimeInv
  BY DEF Init, SenderOK, HeardInv, ReadInv, TimeInv
<1> QED
  BY <1>1, <1>2 DEF IInv

LEMMA Inductive == IInv /\ [Next]_vars => IInv'
<1> SUFFICES ASSUME IInv, [Next]_vars PROVE IInv'
  OBVIOUS
<1>1. Known
  BY DEF IInv, Known
<1>2. ProgramOK' /\ ControlInv'
  BY TypingNext DEF IInv
<1>3. SenderOK' /\ HeardInv'
  BY HeardNext DEF IInv
<1>4. ReadInv' /\ TimeInv'
  <2>1. CASE PollHigh \/ PutChar \/ HostReads \/ UNCHANGED vars
    <3>1. UNCHANGED <<pc, left, sample, payload, even, tx, heard, notes>>
      BY <2>1 DEF PollHigh, PutChar, HostReads, vars, program
    <3> QED
      BY <1>1, <3>1, KeptBySame DEF Known
  <2> QED
    BY <1>1, <2>1, KeptByPollLow, KeptByCheckStart, KeptBySampleData, KeptByCheckParity,
       KeptByCheckStop, KeptByErrorPrinted, KeptByCharPrinted, KeptByDisplay, KeptByTick
       DEF Next, Main
<1> QED
  BY <1>2, <1>3, <1>4 DEF IInv

LEMMA Invariance == Spec => []IInv
BY InitIInv, Inductive, PTL DEF Spec

\* Every variable of the program keeps to its range, the payload to the width
\* of a character and the FIFO to its depth; the sender is silent or within a
\* bit of a whole frame, and what is heard is a whole frame.
THEOREM Typing == Spec => []TypeOK
<1>1. IInv => TypeOK
  BY DEF IInv, HeardInv, TypeOK
<1> QED
  BY <1>1, Invariance, PTL

\* What a program that is through with a frame it heard has of it.
LEMMA Received ==
    ASSUME IInv, heard # <<>>, pc \in {"char", "display"}
    PROVE  /\ payload = HeardChar
           /\ even = ParityOf(HeardChar)
           /\ heard \in Framed
<1> USE DEF IInv
<1>1. NBIT \in Nat /\ FrameLen = NBIT + 3
  BY Sizes
<1>2. sample = FrameLen /\ Taken = NBIT
  BY <1>1 DEF ControlInv, Taken
<1>3. heard \in Framed /\ \A k \in 2..(NBIT + 1) : heard[k] \in {0, 1}
  BY <1>1 DEF HeardInv, Framed
<1>4. /\ HeardChar \in Seq({0, 1}) /\ Len(HeardChar) = NBIT
      /\ \A k \in 1..NBIT : HeardChar[k] = heard[k + 1]
  <2>1. 2 \in Int /\ NBIT + 1 \in Int
    BY <1>1
  <2>2. /\ HeardChar \in Seq({0, 1})
        /\ Len(HeardChar) = IF 2 <= NBIT + 1 THEN (NBIT + 1) - 2 + 1 ELSE 0
        /\ \A k \in 1..((NBIT + 1) - 2 + 1) : HeardChar[k] = heard[2 + k - 1]
    BY <1>3, <2>1, SubSeqProperties DEF HeardChar
  <2>3. /\ (NBIT + 1) - 2 + 1 = NBIT
        /\ \A k \in 1..NBIT : 2 + k - 1 = k + 1
        /\ ~(2 <= NBIT + 1) => NBIT = 0
    BY <1>1
  <2> QED
    BY <2>2, <2>3
<1>5. payload = HeardChar
  <2>1. payload \in Seq({0, 1}) /\ Len(payload) = NBIT
    BY <1>2, Types DEF ControlInv
  <2>2. \A k \in 1..NBIT : payload[k] = heard[k + 1]
    BY <1>2 DEF ReadInv
  <2>3. \A k \in 1..Len(payload) : payload[k] = HeardChar[k]
    BY <1>4, <2>1, <2>2
  <2> QED
    BY <1>4, <2>1, <2>3, SeqEqual
<1>6. even = ParityOf(HeardChar)
  <2>1. {k \in 1..NBIT : HeardChar[k] = 1} = {k \in 1..NBIT : heard[k + 1] = 1}
    BY <1>4
  <2>2. even = Ones(heard, NBIT) % 2
    BY <1>2 DEF ReadInv
  <2> QED
    BY <2>1, <2>2 DEF ParityOf, Ones
<1> QED
  BY <1>3, <1>5, <1>6

\* The character printed is the one sent, and a parity error is printed for a
\* wrong parity and for nothing else, for every sender within the tolerance.
THEOREM Characters == Spec => []CharacterReceived
<1>1. IInv => CharacterReceived
  <2> SUFFICES ASSUME IInv, heard # <<>>, pc \in {"char", "display"}
               PROVE  /\ payload = HeardChar
                      /\ "start" \notin notes
                      /\ "parity" \in notes <=> ~ParityGood
    BY DEF CharacterReceived
  <2>1. payload = HeardChar /\ even = ParityOf(HeardChar)
    BY Received
  <2>2. sample > NBIT + 1
    BY Sizes DEF IInv, ControlInv
  <2>3. "start" \notin notes /\ ("parity" \in notes <=> heard[NBIT + 2] # even)
    BY <2>2 DEF IInv, ReadInv
  <2> QED
    BY <2>1, <2>3 DEF ParityGood
<1> QED
  BY <1>1, Invariance, PTL

\* With a good parity, a stop error is printed exactly for a low stop bit.
THEOREM StopBits == Spec => []StopVerdict
<1>1. IInv => StopVerdict
  <2> SUFFICES ASSUME IInv, heard # <<>>, pc \in {"char", "display"}, ParityGood
               PROVE  "stop" \in notes <=> heard[FrameLen] = 0
    BY DEF StopVerdict
  <2>1. even = ParityOf(HeardChar)
    BY Received
  <2>2. sample = FrameLen
    BY DEF IInv, ControlInv
  <2>3. "parity" \notin notes
    BY <2>1, <2>2, Sizes DEF IInv, ReadInv, ParityGood
  <2> QED
    BY <2>2, <2>3 DEF IInv, ReadInv
<1> QED
  BY <1>1, Invariance, PTL

\* Of two frames sent without a gap the second finds main polling: a sender no
\* faster than KeepsUp leaves it the time for the late waits and the print.
THEOREM NextFrames == Spec => NextFrameHeard
<1> DEFINE P == /\ tx.at = FrameLen /\ tx'.at = 1
                /\ heard # <<>> /\ notes' = {}
                /\ KeepsUp(tx.time)
                => pc = "idle"
<1>1. IInv /\ [Next]_vars => [P]_vars
  <2> SUFFICES ASSUME IInv, [Next]_vars, tx.at = FrameLen, tx'.at = 1,
                      heard # <<>>, notes' = {}, KeepsUp(tx.time), pc # "idle"
               PROVE  FALSE
    OBVIOUS
  <2>1. Known /\ FrameLen \in Nat /\ FrameLen >= 2
    BY Sizes DEF IInv, Known
  <2>2. Tick
    BY <2>1, Others
  <2>3. left > 0 /\ notes = {}
    <3>1. ~Blocked /\ notes = {}
      BY <2>2 DEF Tick
    <3> QED
      BY <2>2, <3>1 DEF Tick
  <2>4. tx.left <= 1
    BY <2>1, <2>2, SendSteps DEF Tick, Ages, IInv
  <2>5. pc = "wait" => FALSE
    BY <2>1, <2>3, <2>4, InFrame
  <2>6. pc \in {"error", "char"} => FALSE
    BY <2>3 DEF IInv, ControlInv
  <2>7. pc = "display" => FALSE
    <3> SUFFICES ASSUME pc = "display" PROVE FALSE
      OBVIOUS
    <3>1. Age + left <= LastSample + MaxPrint
      BY <2>1, <2>3 DEF IInv, TimeInv
    <3>2. tx.time \in Nat \ {0} /\ tx.left \in 1..tx.time
      BY <2>1, Sending DEF IInv
    <3>3. Age = FrameLen * tx.time - 1
      BY <2>4, <3>2 DEF Age
    <3>4. LastSample + MaxPrint < FrameLen * tx.time
      BY DEF KeepsUp, LastSample, Due
    <3>5. FrameLen * tx.time \in Int /\ left \in Nat /\ LastSample \in Nat /\ MaxPrint \in Nat
      <4>1. left \in 0..(tpb + MaxOver + MaxPrint)
        BY Types DEF IInv
      <4>2. LastSample \in Nat /\ MaxPrint \in Nat /\ left \in Nat
        BY <4>1, Sizes, Times
      <4> QED
        BY <2>1, <3>2, <4>2
    <3> QED
      BY <2>3, <3>1, <3>3, <3>4, <3>5
  <2> QED
    BY <2>5, <2>6, <2>7, Types DEF IInv
<1> QED
  BY <1>1, Invariance, PTL DEF Spec, NextFrameHeard
=============================================================================
