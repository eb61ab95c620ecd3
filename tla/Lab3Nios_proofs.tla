--------------------------- MODULE Lab3Nios_proofs ---------------------------
(***************************************************************************)
(* What the program of Lab3 reads, for every length of the frames and of   *)
(* the shift register, every set of frames and every number of them.       *)
(***************************************************************************)
EXTENDS Lab3Nios, SequenceTheorems, TLAPS

-----------------------------------------------------------------------------
(***************************************************************************)
(* Shift registers, as sequences of a fixed length with the oldest bit     *)
(* first.                                                                  *)
(***************************************************************************)

\* One shift: the oldest bit leaves, the new one comes in behind.
LEMMA ShiftIn ==
    ASSUME NEW L \in Nat \ {0}, NEW d \in [1..L -> {0, 1}], NEW b \in {0, 1}
    PROVE  /\ Append(Tail(d), b) \in [1..L -> {0, 1}]
           /\ \A k \in 1..L : Append(Tail(d), b)[k] = IF k = L THEN b ELSE d[k + 1]
<1>1. d \in Seq({0, 1}) /\ Len(d) = L /\ d # << >>
  OBVIOUS
<1> DEFINE t == Tail(d)
           a == Append(t, b)
<1>2. t \in Seq({0, 1}) /\ Len(t) = L - 1 /\ \A k \in 1..(L - 1) : t[k] = d[k + 1]
  BY <1>1, HeadTailProperties
<1> HIDE DEF t
<1>3. a \in Seq({0, 1}) /\ Len(a) = Len(t) + 1 /\ a[Len(t) + 1] = b
      /\ \A k \in 1..Len(t) : a[k] = t[k]
  BY <1>2, AppendProperties
<1> HIDE DEF a
<1>4. a \in [1..L -> {0, 1}]
  BY <1>2, <1>3, LenProperties
<1>5. \A k \in 1..L : a[k] = IF k = L THEN b ELSE d[k + 1]
  BY <1>2, <1>3
<1> QED
  BY <1>4, <1>5 DEF a, t

\* A register of length L with the first m bits of a frame in, behind zeros.
FrameIn(L, f, m) == [k \in 1..L |-> IF k <= L - m THEN 0 ELSE f[k - (L - m)]]

LEMMA FrameShifts ==
    ASSUME NEW L \in Nat \ {0}, NEW m \in 0..(L - 1), NEW f, NEW b \in {0, 1}, b = f[m + 1],
           NEW d \in [1..L -> {0, 1}], d = FrameIn(L, f, m)
    PROVE  Append(Tail(d), b) = FrameIn(L, f, m + 1)
<1>0. /\ Append(Tail(d), b) \in [1..L -> {0, 1}]
      /\ \A k \in 1..L : Append(Tail(d), b)[k] = IF k = L THEN b ELSE d[k + 1]
  <2>1. L \in Nat \ {0} /\ d \in [1..L -> {0, 1}] /\ b \in {0, 1}
    OBVIOUS
  <2> QED
    BY <2>1, ShiftIn, Z3
<1> DEFINE a == Append(Tail(d), b)
<1>1. /\ a \in [1..L -> {0, 1}]
      /\ \A k \in 1..L : a[k] = IF k = L THEN b ELSE d[k + 1]
  BY <1>0
<1>2. \A k \in 1..L : d[k] = IF k <= L - m THEN 0 ELSE f[k - (L - m)]
  BY DEF FrameIn
<1> HIDE DEF a
<1>3. ASSUME NEW k \in 1..L
      PROVE  a[k] = IF k <= L - (m + 1) THEN 0 ELSE f[k - (L - (m + 1))]
  <2>1. CASE k = L
    <3>1. ~(k <= L - (m + 1)) /\ k - (L - (m + 1)) = m + 1
      BY <2>1
    <3> QED
      BY <1>1, <2>1, <3>1
  <2>2. CASE k # L
    <3>1. k + 1 \in 1..L /\ a[k] = d[k + 1]
      BY <1>1, <2>2
    <3>2. /\ (k + 1 <= L - m) <=> (k <= L - (m + 1))
          /\ (k + 1) - (L - m) = k - (L - (m + 1))
      OBVIOUS
    <3> QED
      BY <1>2, <3>1, <3>2
  <2> QED
    BY <2>1, <2>2
<1>4. a = [k \in 1..L |-> a[k]]
  BY <1>1
<1> QED
  BY <1>3, <1>4 DEF FrameIn, a

\* The other way, in a register that is read as a number.
LEMMA ShiftZeroIn ==
    ASSUME NEW L \in Nat \ {0}, NEW d \in [1..L -> {0, 1}]
    PROVE  <<0>> \o SubSeq(d, 1, L - 1) \in [1..L -> {0, 1}]
<1> DEFINE u == SubSeq(d, 1, L - 1)
           c == <<0>> \o u
<1>1. u \in Seq({0, 1}) /\ Len(u) = L - 1
  <2>1. \A k \in 1..(L - 1) : d[k] \in {0, 1}
    OBVIOUS
  <2>2. Len(u) = IF 1 <= L - 1 THEN (L - 1) - 1 + 1 ELSE 0
    BY <2>1, SubSeqProperties
  <2> QED
    BY <2>1, <2>2, SubSeqProperties
<1>2. <<0>> \in Seq({0, 1}) /\ Len(<<0>>) = 1
  OBVIOUS
<1> HIDE DEF u
<1>3. c \in Seq({0, 1}) /\ Len(c) = 1 + Len(u)
  BY <1>1, <1>2, ConcatProperties
<1> HIDE DEF c
<1>4. c \in [1..L -> {0, 1}]
  BY <1>1, <1>3, LenProperties
<1> QED
  BY <1>4 DEF c, u

-----------------------------------------------------------------------------

LEMMA ZerosTyped == Zeros \in [1..SrLen -> {0, 1}]
BY DEF Zeros

-----------------------------------------------------------------------------
(***************************************************************************)
(* The receiver's part: data_out holds what is in of the frame.            *)
(***************************************************************************)
\* The first m bits of a frame at the low end of the shift register.
Shifted(f, m) == FrameIn(SrLen, f, m)

RxInv ==
    /\ status \in BOOLEAN
    /\ data_out \in [1..SrLen -> {0, 1}]
    /\ frame \in Frames \union {NoFrame}
    /\ n \in 0..FrameLen
    /\ Good => data_out = Shifted(frame, IF status THEN FrameLen ELSE n)

LEMMA RxStart ==
    ASSUME RxInv, NEW f \in Frames \union {NoFrame}, Start(f)
    PROVE  RxInv' /\ status /\ ~status'
<1>1. status' = FALSE /\ data_out' = Zeros /\ frame' = f /\ n' = 0 /\ status
  BY DEF Start
<1>2. 0 \in 0..FrameLen /\ SrLen \in Nat
  BY RxAssumption
<1>3. Zeros = Shifted(f, 0)
  <2>1. \A k \in 1..SrLen : k <= SrLen - 0
    BY <1>2
  <2> QED
    BY <2>1 DEF Zeros, Shifted, FrameIn
<1>4. data_out' = Shifted(frame', IF status' THEN FrameLen ELSE n')
  BY <1>1, <1>3
<1> QED
  BY <1>1, <1>2, <1>4, ZerosTyped DEF RxInv, Shifted

LEMMA RxArrive ==
    ASSUME RxInv, Arrive
    PROVE  RxInv' /\ status' = status /\ frame' = frame
<1>1. PICK b \in {0, 1} : Shift(b)
  BY DEF Arrive
<1>2. /\ status = FALSE /\ status' = status /\ frame' = frame
      /\ Good => n < FrameLen /\ b = frame[n + 1]
      /\ data_out' = Append(Tail(data_out), b)
      /\ n' = IF Good THEN n + 1 ELSE 0
  BY <1>1 DEF Shift, RxInv
<1>3. /\ SrLen \in Nat \ {0} /\ FrameLen \in Nat \ {0} /\ FrameLen <= SrLen
      /\ n \in 0..FrameLen /\ data_out \in [1..SrLen -> {0, 1}]
  BY RxAssumption DEF RxInv
<1>4. data_out' \in [1..SrLen -> {0, 1}]
      /\ \A k \in 1..SrLen : data_out'[k] = IF k = SrLen THEN b ELSE data_out[k + 1]
  <2> DEFINE d == Append(Tail(data_out), b)
  <2>1. /\ d \in [1..SrLen -> {0, 1}]
        /\ \A k \in 1..SrLen : d[k] = IF k = SrLen THEN b ELSE data_out[k + 1]
    <3>1. b \in {0, 1} /\ SrLen \in Nat \ {0} /\ data_out \in [1..SrLen -> {0, 1}]
      BY <1>3
    <3> QED
      BY <3>1, ShiftIn, SMTT(30)
  <2>2. data_out' = d
    BY <1>2
  <2> HIDE DEF d
  <2> QED
    BY <2>1, <2>2
<1>5. n' \in 0..FrameLen
  BY <1>2, <1>3
<1>6. ASSUME Good PROVE data_out' = Shifted(frame, n + 1)
  <2>1. data_out = FrameIn(SrLen, frame, n) /\ n \in 0..(SrLen - 1) /\ b = frame[n + 1]
    BY <1>2, <1>3, <1>6 DEF RxInv, Shifted
  <2>2. b \in {0, 1} /\ SrLen \in Nat \ {0} /\ data_out \in [1..SrLen -> {0, 1}]
    BY <1>3
  <2>3. Append(Tail(data_out), b) = FrameIn(SrLen, frame, n + 1)
    BY <2>1, <2>2, FrameShifts
  <2>4. data_out' = Append(Tail(data_out), b)
    BY <1>2
  <2> QED
    BY <2>3, <2>4 DEF Shifted
<1>7. Good' <=> Good
  BY <1>2 DEF Good
<1> QED
  BY <1>2, <1>4, <1>5, <1>6, <1>7 DEF RxInv, Shifted

LEMMA RxFinish ==
    ASSUME RxInv, Finish
    PROVE  RxInv' /\ status' /\ frame' = frame
<1>1. /\ status = FALSE /\ status' = TRUE /\ n' = 0
      /\ data_out' = data_out /\ frame' = frame
      /\ Good => n = FrameLen
  BY DEF Finish, RxInv
<1>2. 0 \in 0..FrameLen
  BY RxAssumption
<1>3. Good' => data_out' = Shifted(frame', FrameLen)
  BY <1>1 DEF RxInv, Good, Shifted
<1> QED
  BY <1>1, <1>2, <1>3 DEF RxInv, Shifted

LEMMA RxReset ==
    ASSUME status' = TRUE, data_out' = Zeros, frame' = NoFrame, n' = 0
    PROVE  RxInv'
BY ZerosTyped, RxAssumption DEF RxInv, Good

-----------------------------------------------------------------------------
(***************************************************************************)
(* The program's part.                                                     *)
(***************************************************************************)
ProgramOK ==
    /\ payload \in [1..SrLen -> {0, 1}]
    /\ pc \in Lines
    /\ bits_set \in BOOLEAN /\ divisor_set \in BOOLEAN /\ edge \in BOOLEAN /\ paced \in BOOLEAN
    /\ i \in Nat
    /\ fifo \in 0..FifoDepth
    /\ digits \in Seq({0, 1})
    /\ shown \in Nat /\ starts \in Nat /\ pending \in Nat

\* Out of the first clear an edge is a frame's.
EdgeInv == pc \in {"ready", "poll"} /\ edge => pending > 0

\* A frame of a sender that waits for its report is under way only while main
\* polls idly.
PacedInv == paced /\ ~status => pc = "poll" /\ ~edge /\ pending = 0

Inv == RxInv /\ ProgramOK /\ EdgeInv /\ PacedInv /\ ReportsTheFrame

LEMMA InvInit == NiosInit => Inv
<1> SUFFICES ASSUME NiosInit PROVE Inv
  OBVIOUS
<1>1. RxInv
  BY ZerosTyped, RxAssumption DEF NiosInit, Init, RxInv, Good
<1>2. ProgramOK
  <2>1. edge \in BOOLEAN
    BY Lab3Assumption, Zenon DEF NiosInit
  <2>2. 0 \in 0..FifoDepth
    BY Lab3Assumption
  <2> QED
    <3>1. /\ pc = "write_bits" /\ bits_set = FALSE /\ divisor_set = FALSE /\ payload = Zeros
          /\ i = 0 /\ fifo = 0 /\ digits = <<>> /\ shown = 0 /\ starts = 0
          /\ pending = 0 /\ paced = TRUE
      BY DEF NiosInit
    <3>2. <<>> \in Seq({0, 1})
      OBVIOUS
    <3> QED
      BY <2>1, <2>2, <3>1, <3>2, ZerosTyped DEF ProgramOK, Lines
<1>3. EdgeInv /\ PacedInv /\ ReportsTheFrame
  BY DEF NiosInit, Init, EdgeInv, PacedInv, ReportsTheFrame
<1> QED
  BY <1>1, <1>2, <1>3 DEF Inv

LEMMA KeptByLine ==
    ASSUME Inv, LineStarts \/ BitArrives \/ FrameEnds
    PROVE  Inv'
<1> USE DEF Inv
<1>1. CASE LineStarts
  <2>1. PICK f \in Frames \union {NoFrame} : Start(f)
    BY <1>1 DEF LineStarts, Begin
  <2>2. RxInv' /\ ~status'
    BY <2>1, RxStart
  <2>3. /\ pc' = pc /\ bits_set' = bits_set /\ divisor_set' = divisor_set /\ edge' = edge
        /\ payload' = payload /\ i' = i /\ fifo' = fifo /\ digits' = digits
        /\ shown' = shown /\ pending' = pending /\ starts' = starts + 1
        /\ paced' = (paced /\ pc = "poll" /\ ~edge /\ pending = 0)
    BY <1>1 DEF LineStarts, program
  <2>4. ProgramOK'
    BY <2>3 DEF ProgramOK
  <2>5. EdgeInv' /\ PacedInv' /\ ReportsTheFrame'
    BY <2>3 DEF EdgeInv, PacedInv, ReportsTheFrame
  <2> QED
    BY <2>2, <2>4, <2>5
<1>2. CASE BitArrives
  <2>1. RxInv' /\ status' = status /\ frame' = frame
    BY <1>2, RxArrive DEF BitArrives
  <2>2. UNCHANGED <<program, history>>
    BY <1>2 DEF BitArrives
  <2>3. ProgramOK'
    BY <2>2 DEF program, history, ProgramOK
  <2>4. EdgeInv' /\ PacedInv' /\ ReportsTheFrame'
    BY <2>1, <2>2 DEF program, history, EdgeInv, PacedInv, ReportsTheFrame, Good, Padded
  <2> QED
    BY <2>1, <2>3, <2>4
<1>3. CASE FrameEnds
  <2>1. RxInv' /\ status' /\ frame' = frame
    BY <1>3, RxFinish DEF FrameEnds
  <2>2. /\ pc' = pc /\ bits_set' = bits_set /\ divisor_set' = divisor_set
        /\ edge' = (edge \/ EdgeCapture)
        /\ payload' = payload /\ i' = i /\ fifo' = fifo /\ digits' = digits
        /\ shown' = shown /\ starts' = starts /\ paced' = paced
        /\ pending' = IF pc \in {"ready", "poll"} THEN pending + 1 ELSE pending
    BY <1>3 DEF FrameEnds, Listening
  <2>3. ProgramOK'
    BY <2>2, Lab3Assumption DEF ProgramOK
  <2>4. EdgeInv'
    BY <2>2 DEF EdgeInv, ProgramOK
  <2>5. PacedInv' /\ ReportsTheFrame'
    BY <2>1, <2>2 DEF PacedInv, ReportsTheFrame, Good, Padded
  <2> QED
    BY <2>1, <2>3, <2>4, <2>5
<1> QED
  BY <1>1, <1>2, <1>3

LEMMA KeptByMain ==
    ASSUME Inv, Main \/ HostReads
    PROVE  Inv'
<1> USE DEF Inv
<1>1. FifoDepth \in Nat /\ SrLen \in Nat \ {0}
  BY Lab3Assumption, RxAssumption
<1>2. RxInv' /\ UNCHANGED rxVars
  <2>1. UNCHANGED rxVars
    BY DEF Main, HostReads, WriteBits, WriteDivisor, ClearFirst, PutReady, Poll, PutRx,
           ReadPayload, PutDigit, PutNewline, Clear
  <2> QED
    BY <2>1 DEF rxVars, RxInv, Good, Shifted
<1> USE DEF history, Goto
<1>3. CASE WriteBits \/ WriteDivisor
  <2>1. ProgramOK'
    BY <1>3 DEF ProgramOK, WriteBits, WriteDivisor, Lines
  <2>2. EdgeInv' /\ PacedInv' /\ ReportsTheFrame'
    BY <1>2, <1>3 DEF EdgeInv, PacedInv, ReportsTheFrame, WriteBits, WriteDivisor, rxVars
  <2> QED
    BY <1>2, <2>1, <2>2
<1>4. CASE ClearFirst \/ Clear
  <2>1. ProgramOK'
    BY <1>4 DEF ProgramOK, ClearFirst, Clear, Lines
  <2>2. EdgeInv' /\ PacedInv' /\ ReportsTheFrame'
    BY <1>2, <1>4 DEF EdgeInv, PacedInv, ReportsTheFrame, ClearFirst, Clear, rxVars
  <2> QED
    BY <1>2, <2>1, <2>2
<1>5. CASE PutReady \/ PutRx \/ PutNewline
  <2>1. ProgramOK'
    BY <1>1, <1>5 DEF ProgramOK, PutReady, PutRx, PutNewline, Put, Lines
  <2>2. EdgeInv' /\ PacedInv' /\ ReportsTheFrame'
    BY <1>2, <1>5 DEF EdgeInv, PacedInv, ReportsTheFrame, PutReady, PutRx, PutNewline,
                      Put, rxVars
  <2> QED
    BY <1>2, <2>1, <2>2
<1>6. CASE Poll
  <2>1. ProgramOK'
    BY <1>6 DEF ProgramOK, Poll, Lines
  <2>2. EdgeInv' /\ PacedInv' /\ ReportsTheFrame'
    BY <1>2, <1>6 DEF EdgeInv, PacedInv, ReportsTheFrame, Poll, rxVars
  <2> QED
    BY <1>2, <2>1, <2>2
<1>7. CASE ReadPayload
  <2>1. ProgramOK'
    BY <1>7 DEF ProgramOK, ReadPayload, Lines, RxInv
  <2>2. EdgeInv' /\ PacedInv'
    BY <1>2, <1>7 DEF EdgeInv, PacedInv, ReadPayload, rxVars
  <2>3. ReportsTheFrame'
    <3>1. paced /\ Good => payload' = Shifted(frame, FrameLen)
      BY <1>7 DEF ReadPayload, PacedInv, RxInv
    <3>2. Shifted(frame, FrameLen) = Padded(frame)
      BY DEF Shifted, FrameIn, Padded
    <3>3. Padded(frame)' = Padded(frame) /\ (Good' <=> Good) /\ paced' = paced
      BY <1>2, <1>7 DEF Padded, Good, rxVars, ReadPayload
    <3> QED
      BY <3>1, <3>2, <3>3 DEF ReportsTheFrame
  <2> QED
    BY <1>2, <2>1, <2>2, <2>3
<1>8. CASE PutDigit
  <2>1. payload' \in [1..SrLen -> {0, 1}]
    BY <1>1, <1>8, ShiftZeroIn DEF PutDigit, ProgramOK
  <2>2. digits' \in Seq({0, 1})
    <3>1. payload[SrLen] \in {0, 1}
      BY <1>1 DEF ProgramOK
    <3> QED
      BY <1>8, <3>1, AppendProperties DEF PutDigit, ProgramOK
  <2>3. fifo' \in 0..FifoDepth /\ shown' \in Nat
    BY <1>1, <1>8 DEF PutDigit, ProgramOK
  <2>4. pc' \in {"digit", "newline"} /\ i' \in Nat /\ (pc' = "digit" => i' # 0)
    BY <1>8 DEF PutDigit, ProgramOK
  <2>5. UNCHANGED <<bits_set, divisor_set, edge, starts, pending, paced>>
    BY <1>8 DEF PutDigit
  <2>6. ProgramOK'
    BY <2>1, <2>2, <2>3, <2>4, <2>5 DEF ProgramOK, Lines
  <2>7. EdgeInv' /\ PacedInv' /\ ReportsTheFrame'
    BY <1>2, <1>8, <2>4, <2>5 DEF EdgeInv, PacedInv, ReportsTheFrame, rxVars, PutDigit
  <2> QED
    BY <1>2, <2>6, <2>7
<1>9. CASE HostReads
  <2>1. ProgramOK'
    BY <1>1, <1>9 DEF ProgramOK, HostReads
  <2>2. EdgeInv' /\ PacedInv' /\ ReportsTheFrame'
    BY <1>2, <1>9 DEF EdgeInv, PacedInv, ReportsTheFrame, HostReads, rxVars, Good, Padded
  <2> QED
    BY <1>2, <2>1, <2>2
<1> QED
  BY <1>3, <1>4, <1>5, <1>6, <1>7, <1>8, <1>9 DEF Main

LEMMA InvNext == Inv /\ [NiosNext]_niosVars => Inv'
<1> SUFFICES ASSUME Inv, [NiosNext]_niosVars PROVE Inv'
  OBVIOUS
<1>1. CASE BoardReset
  <2>1. RxInv'
    BY <1>1, RxReset DEF BoardReset, Reset
  <2>2. ProgramOK'
    <3>1. edge' \in BOOLEAN
      BY <1>1, Lab3Assumption, Zenon DEF BoardReset
    <3>2. 0 \in 0..FifoDepth
      BY Lab3Assumption
    <3> QED
      <4>1. /\ pc' = "write_bits" /\ bits_set' = FALSE /\ divisor_set' = FALSE
            /\ payload' = Zeros /\ i' = 0 /\ fifo' = 0 /\ digits' = <<>> /\ shown' = 0
            /\ starts' = 0 /\ pending' = 0 /\ paced' = TRUE
        BY <1>1 DEF BoardReset
      <4>2. <<>> \in Seq({0, 1})
        OBVIOUS
      <4> QED
        BY <3>1, <3>2, <4>1, <4>2, ZerosTyped DEF ProgramOK, Lines
  <2>3. EdgeInv' /\ PacedInv' /\ ReportsTheFrame'
    BY <1>1 DEF BoardReset, Reset, EdgeInv, PacedInv, ReportsTheFrame
  <2> QED
    BY <2>1, <2>2, <2>3 DEF Inv
<1>2. CASE UNCHANGED niosVars
  <2> USE <1>2 DEF niosVars, rxVars, program, history
  <2>1. RxInv'
    BY DEF Inv, RxInv, Good, Shifted
  <2>2. ProgramOK' /\ EdgeInv' /\ PacedInv'
    BY DEF Inv, ProgramOK, EdgeInv, PacedInv
  <2>3. ReportsTheFrame'
    BY DEF Inv, ReportsTheFrame, Good, Padded
  <2> QED
    BY <2>1, <2>2, <2>3 DEF Inv
<1> QED
  BY <1>1, <1>2, KeptByLine, KeptByMain DEF NiosNext

LEMMA InvAlways == NiosSpec => []Inv
BY InvInit, InvNext, PTL DEF NiosSpec

-----------------------------------------------------------------------------
\* Every register and history variable keeps its type; the FIFO of the JTAG
\* UART never overflows.
THEOREM NiosTyping == NiosSpec => []NiosTypeOK
<1>1. Inv => NiosTypeOK
  BY DEF Inv, RxInv, ProgramOK, NiosTypeOK
<1> QED
  BY <1>1, InvAlways, PTL

\* The program reports nothing but frames: the edge of reset, and the edge of
\* a frame reported before, make no report.
THEOREM NoPhantoms == NiosSpec => []NoPhantomReport
<1>1. Inv => NoPhantomReport
  BY DEF Inv, EdgeInv, NoPhantomReport
<1> QED
  BY <1>1, InvAlways, PTL

\* A sender that waits for its report has the frame read that it sent.
THEOREM Reports == NiosSpec => []ReportsTheFrame
<1>1. Inv => ReportsTheFrame
  BY DEF Inv
<1> QED
  BY <1>1, InvAlways, PTL

\* The receiver in the system is a UartRx, whatever program and reset do: with
\* what UartPeripheral implements of it, the theorems above are about the
\* hardware of lab3_nios.vhd.
THEOREM ReceiverInside == NiosSpec => Spec
<1>1. NiosInit => Init
  BY DEF NiosInit
<1>2. [NiosNext]_niosVars => [Next]_rxVars
  <2>1. LineStarts => Begin
    <3>1. Start(NoFrame) => Begin
      BY DEF Begin
    <3> QED
      BY <3>1 DEF LineStarts
  <2>2. BitArrives => Arrive
    BY DEF BitArrives
  <2>3. FrameEnds => Finish
    BY DEF FrameEnds
  <2>4. Main => UNCHANGED rxVars
    BY DEF Main, WriteBits, WriteDivisor, ClearFirst, PutReady, Poll, PutRx, ReadPayload,
           PutDigit, PutNewline, Clear
  <2>5. HostReads \/ UNCHANGED niosVars => UNCHANGED rxVars
    BY DEF HostReads, niosVars
  <2>6. BoardReset => Reset
    BY DEF BoardReset
  <2> QED
    BY <2>1, <2>2, <2>3, <2>4, <2>5, <2>6 DEF NiosNext, Next
<1> QED
  BY <1>1, <1>2, PTL DEF NiosSpec, Spec
=============================================================================
