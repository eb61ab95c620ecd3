------------------------ MODULE UartPeripheral_proofs ------------------------
(***************************************************************************)
(* What the receiver of Lab3 promises, for every divisor, every length of  *)
(* the frames and of the shift register, and every bit time of a sender.   *)
(***************************************************************************)
EXTENDS UartPeripheral, SequenceTheorems, TLAPS

-----------------------------------------------------------------------------
(***************************************************************************)
(* Bit times and bit periods are multiplied by bit positions, so the facts *)
(* about products that the proofs need are stated here once.               *)
(***************************************************************************)
LEMMA Monotone ==
    ASSUME NEW t \in Nat, NEW j \in Int, NEW k \in Int, j <= k
    PROVE  j * t <= k * t
<1>1. k - j \in Nat /\ (k - j) * t = k * t - j * t
  OBVIOUS
<1>2. \A x \in Nat, y \in Nat : x * y >= 0
  OBVIOUS
<1>3. (k - j) * t >= 0
  BY <1>1, <1>2
<1>4. j * t \in Int /\ k * t \in Int
  OBVIOUS
<1> QED
  BY <1>1, <1>3, <1>4

\* The bit on the line at a time that lies within the bit after the j-th.
LEMMA Place ==
    ASSUME NEW t \in Nat \ {0}, NEW a \in Nat, NEW j \in Nat, NEW l \in 1..t,
           j * t <= a * t - l, a * t - l < (j + 1) * t
    PROVE  a = j + 1
<1>1. a * t \in Int /\ j * t \in Int /\ (j + 1) * t = j * t + t /\ (j + 2) * t = j * t + 2 * t
  OBVIOUS
<1>2. CASE a <= j
  <2>1. a * t <= j * t
    BY <1>2, Monotone
  <2> QED
    BY <1>1, <2>1
<1>3. CASE j + 2 <= a
  <2>1. (j + 2) * t <= a * t
    BY <1>3, Monotone
  <2> QED
    BY <1>1, <2>1
<1> QED
  BY <1>2, <1>3

-----------------------------------------------------------------------------
(***************************************************************************)
(* Shift registers, as sequences of a fixed length with the oldest bit     *)
(* first.                                                                  *)
(***************************************************************************)

\* One shift: the oldest bit leaves, the new one comes in behind.
LEMMA ShiftIn ==
    ASSUME NEW L \in Nat \ {0}, NEW d \in [1..L -> {0, 1}], NEW b \in {0, 1}
    PROVE  /\ Append(Tail(d), b) \in [1..L -> {0, 1}]
           /\ \A k \in 1..L : Append(Tail(d), b)[k] = IF k = L THEN b ELSE d[k + 1]
<1>1. d \in Seq({0, 1}) /\ Len(d) = L /\ d # << >>
  OBVIOUS
<1> DEFINE t == Tail(d)
           a == Append(t, b)
<1>2. t \in Seq({0, 1}) /\ Len(t) = L - 1 /\ \A k \in 1..(L - 1) : t[k] = d[k + 1]
  BY <1>1, HeadTailProperties
<1> HIDE DEF t
<1>3. a \in Seq({0, 1}) /\ Len(a) = Len(t) + 1 /\ a[Len(t) + 1] = b
      /\ \A k \in 1..Len(t) : a[k] = t[k]
  BY <1>2, AppendProperties
<1> HIDE DEF a
<1>4. a \in [1..L -> {0, 1}]
  BY <1>2, <1>3, LenProperties
<1>5. \A k \in 1..L : a[k] = IF k = L THEN b ELSE d[k + 1]
  BY <1>2, <1>3
<1> QED
  BY <1>4, <1>5 DEF a, t

\* A register of length L with the first m bits of a frame in, behind zeros.
FrameIn(L, f, m) == [k \in 1..L |-> IF k <= L - m THEN 0 ELSE f[k - (L - m)]]

LEMMA FrameShifts ==
    ASSUME NEW L \in Nat \ {0}, NEW m \in 0..(L - 1), NEW f, NEW b \in {0, 1}, b = f[m + 1],
           NEW d \in [1..L -> {0, 1}], d = FrameIn(L, f, m)
    PROVE  Append(Tail(d), b) = FrameIn(L, f, m + 1)
<1>0. /\ Append(Tail(d), b) \in [1..L -> {0, 1}]
      /\ \A k \in 1..L : Append(Tail(d), b)[k] = IF k = L THEN b ELSE d[k + 1]
  <2>1. L \in Nat \ {0} /\ d \in [1..L -> {0, 1}] /\ b \in {0, 1}
    OBVIOUS
  <2> QED
    BY <2>1, ShiftIn, Z3
<1> DEFINE a == Append(Tail(d), b)
<1>1. /\ a \in [1..L -> {0, 1}]
      /\ \A k \in 1..L : a[k] = IF k = L THEN b ELSE d[k + 1]
  BY <1>0
<1>2. \A k \in 1..L : d[k] = IF k <= L - m THEN 0 ELSE f[k - (L - m)]
  BY DEF FrameIn
<1> HIDE DEF a
<1>3. ASSUME NEW k \in 1..L
      PROVE  a[k] = IF k <= L - (m + 1) THEN 0 ELSE f[k - (L - (m + 1))]
  <2>1. CASE k = L
    <3>1. ~(k <= L - (m + 1)) /\ k - (L - (m + 1)) = m + 1
      BY <2>1
    <3> QED
      BY <1>1, <2>1, <3>1
  <2>2. CASE k # L
    <3>1. k + 1 \in 1..L /\ a[k] = d[k + 1]
      BY <1>1, <2>2
    <3>2. /\ (k + 1 <= L - m) <=> (k <= L - (m + 1))
          /\ (k + 1) - (L - m) = k - (L - (m + 1))
      OBVIOUS
    <3> QED
      BY <1>2, <3>1, <3>2
  <2> QED
    BY <2>1, <2>2
<1>4. a = [k \in 1..L |-> a[k]]
  BY <1>1
<1> QED
  BY <1>3, <1>4 DEF FrameIn, a

\* Read back from the end, the bits that are in.
LEMMA FrameTail ==
    ASSUME NEW L \in Nat \ {0}, NEW F \in Nat, F <= L, NEW m \in 0..F,
           NEW f \in [1..F -> {0, 1}], NEW d \in [1..L -> {0, 1}], d = FrameIn(L, f, m)
    PROVE  SubSeq(d, L - m + 1, L) = SubSeq(f, 1, m)
<1> DEFINE a == SubSeq(d, L - m + 1, L)
           b == SubSeq(f, 1, m)
<1>1. m \in Nat /\ m <= L /\ L - m + 1 \in Int /\ L \in Int /\ 1 \in Int /\ m \in Int
  OBVIOUS
<1>2. \A k \in (L - m + 1)..L : d[k] \in {0, 1}
  BY <1>1
<1>3. \A k \in 1..m : f[k] \in {0, 1}
  OBVIOUS
<1>4. /\ a \in Seq({0, 1})
      /\ Len(a) = IF L - m + 1 <= L THEN L - (L - m + 1) + 1 ELSE 0
      /\ \A k \in 1..(L - (L - m + 1) + 1) : a[k] = d[(L - m + 1) + k - 1]
  BY <1>1, <1>2, SubSeqProperties
<1>5. /\ b \in Seq({0, 1})
      /\ Len(b) = IF 1 <= m THEN m - 1 + 1 ELSE 0
      /\ \A k \in 1..(m - 1 + 1) : b[k] = f[1 + k - 1]
  BY <1>1, <1>3, SubSeqProperties
<1> HIDE DEF a, b
<1>6. Len(a) = m /\ Len(b) = m
  BY <1>1, <1>4, <1>5
<1>7. ASSUME NEW k \in 1..m PROVE a[k] = b[k]
  <2>1. k \in 1..(L - (L - m + 1) + 1) /\ k \in 1..(m - 1 + 1) /\ 1 + k - 1 = k
        /\ (L - m + 1) + k - 1 = (L - m) + k
    BY <1>1
  <2>2. a[k] = d[(L - m) + k] /\ b[k] = f[k]
    BY <1>4, <1>5, <2>1
  <2>3. (L - m) + k \in 1..L /\ ~((L - m) + k <= L - m) /\ ((L - m) + k) - (L - m) = k
    BY <1>1
  <2>4. d[(L - m) + k] = f[k]
    BY <2>3 DEF FrameIn
  <2> QED
    BY <2>2, <2>4
<1>8. a = b
  BY <1>4, <1>5, <1>6, <1>7, SeqEqual
<1> QED
  BY <1>8 DEF a, b

-----------------------------------------------------------------------------
(***************************************************************************)
(* Arithmetic.                                                             *)
(***************************************************************************)
LEMMA Sizes ==
    /\ DivMod \in Nat \ {0} /\ BitsMod \in Nat \ {0} /\ SrLen \in Nat \ {0}
    /\ Divisor \in Nat \ {0} /\ Divisor < DivMod
    /\ FrameLen \in Nat /\ FrameLen >= 3 /\ FrameLen <= SrLen
    /\ BitsPerData = FrameLen - 1 /\ BitsPerData \in Nat \ {0} /\ BitsPerData < BitsMod
    /\ Period = 2 * (Divisor + 1) /\ Period \in Nat
    /\ BitTimes \subseteq Nat \ {0}
BY UartAssumption DEF FrameLen, BitsPerData, Period

\* The tolerance, at the sample of a bit and after the last one.
LEMMA Tolerances ==
    ASSUME NEW t \in Nat \ {0}, InTolerance(t), NEW j \in 0..(FrameLen - 1),
           NEW x \in Int, x <= Divisor
    PROVE  /\ j * t <= Divisor + 2 + j * Period
           /\ Divisor + 3 + j * Period < (j + 1) * t
           /\ x + 3 + j * Period < FrameLen * t
<1>1. FrameLen \in Nat /\ FrameLen >= 3 /\ Period \in Nat /\ Divisor \in Nat
  BY Sizes
<1>2. \A k \in 0..(FrameLen - 1) :
        k * t <= Divisor + 2 + k * Period /\ Divisor + 3 + k * Period < (k + 1) * t
  BY DEF InTolerance
<1>3. FrameLen - 1 \in 0..(FrameLen - 1)
      /\ (FrameLen - 1) + 1 = FrameLen
  BY <1>1
<1>4. Divisor + 3 + (FrameLen - 1) * Period < FrameLen * t
  BY <1>2, <1>3
<1>5. j * Period <= (FrameLen - 1) * Period
  BY <1>1, Monotone
<1>6. /\ j * Period \in Int /\ (FrameLen - 1) * Period \in Int /\ FrameLen * t \in Int
  BY <1>1
<1>7. x + 3 + j * Period < FrameLen * t
  BY <1>1, <1>4, <1>5, <1>6
<1> QED
  BY <1>2, <1>7

-----------------------------------------------------------------------------
(***************************************************************************)
(* The far end.                                                            *)
(***************************************************************************)
LEMMA FrameFacts ==
    /\ \A f \in Frames : f \in [1..FrameLen -> {0, 1}] /\ f[1] = 0 /\ f[FrameLen] = 1
    /\ NoFrame \notin Frames
    /\ NoFrame \in [1..FrameLen -> {0, 1}]
<1>1. FrameLen \in Nat /\ 1 \in 1..FrameLen /\ 2 + DataBits <= FrameLen /\ 2 + DataBits \in Nat
  BY UartAssumption, Sizes DEF FrameLen
<1>2. FrameLen \in (2 + DataBits)..FrameLen
  BY <1>1
<1> QED
  BY <1>1, <1>2 DEF Frames, NoFrame

\* What a sender can be at.
Sender(x) ==
    /\ x \in [at : 0..FrameLen, left : Nat, time : {0} \union BitTimes,
              frame : Frames \union {NoFrame}]
    /\ x.at = 0 => x.left = 0
    /\ x.at # 0 => x.frame \in Frames /\ x.time \in BitTimes /\ x.left \in 1..x.time

LEMMA SilentSender == Sender(Silent)
BY Sizes DEF Sender, Silent

LEMMA Line ==
    ASSUME Sender(tx)
    PROVE  /\ uart_line \in {0, 1}
           /\ uart_line = 0 => tx.at # 0 /\ tx.at # FrameLen
           /\ tx.at # 0 => uart_line = tx.frame[tx.at]
<1>1. tx.at \in 0..FrameLen /\ FrameLen \in Nat
  BY Sizes DEF Sender
<1>2. CASE tx.at = 0
  BY <1>2, Sizes DEF uart_line
<1>3. CASE tx.at # 0
  <2>1. tx.frame \in Frames /\ tx.at \in 1..FrameLen
    BY <1>1, <1>3 DEF Sender
  <2>2. uart_line = tx.frame[tx.at]
    BY <1>3 DEF uart_line
  <2>3. \A f \in Frames, k \in 1..FrameLen : f[k] \in {0, 1} /\ (f[k] = 0 => k # FrameLen)
    <3>1. ASSUME NEW f \in Frames
          PROVE  f \in [1..FrameLen -> {0, 1}] /\ f[FrameLen] = 1
      BY FrameFacts
    <3>2. \A f \in [1..FrameLen -> {0, 1}], k \in 1..FrameLen : f[k] \in {0, 1}
      OBVIOUS
    <3>3. ASSUME NEW f \in Frames, NEW k \in 1..FrameLen
          PROVE  f[k] \in {0, 1} /\ (f[k] = 0 => k # FrameLen)
      BY <3>1, <3>2
    <3> QED
      BY <3>3
  <2> QED
    BY <1>3, <2>1, <2>2, <2>3
<1> QED
  BY <1>2, <1>3

\* Clocks since the start of the frame on the line.
Age == tx.at * tx.time - tx.left

\* The line ages by one with each clock, until the last bit is over.
LEMMA LineAges ==
    ASSUME Sender(tx), Transmit
    PROVE  /\ Sender(tx')
           /\ tx.at = 0 \/ (tx.at = FrameLen /\ tx.left = 1) =>
                tx'.at = 0 \/ (tx'.at = 1 /\ tx'.left = tx'.time)
           /\ tx.at # 0 /\ ~(tx.at = FrameLen /\ tx.left = 1) =>
                /\ tx'.at # 0 /\ tx'.frame = tx.frame /\ tx'.time = tx.time
                /\ Age' = Age + 1
                /\ tx.left > 1 => tx'.at = tx.at /\ tx'.left = tx.left - 1
<1>1. /\ tx \in [at : 0..FrameLen, left : Nat, time : {0} \union BitTimes,
                 frame : Frames \union {NoFrame}]
      /\ tx.at = 0 => tx.left = 0
      /\ tx.at # 0 => tx.frame \in Frames /\ tx.time \in BitTimes /\ tx.left \in 1..tx.time
  BY DEF Sender
<1>2. FrameLen \in Nat /\ FrameLen >= 3 /\ BitTimes \subseteq Nat \ {0}
  BY Sizes
<1>3. CASE tx.left > 1 /\ tx' = [tx EXCEPT !.left = @ - 1]
  <2>1. tx'.at = tx.at /\ tx'.left = tx.left - 1 /\ tx'.time = tx.time /\ tx'.frame = tx.frame
    BY <1>1, <1>3
  <2>2. tx.at # 0 /\ tx.left - 1 \in 1..tx.time
    BY <1>1, <1>2, <1>3
  <2>3. tx' \in [at : 0..FrameLen, left : Nat, time : {0} \union BitTimes,
                 frame : Frames \union {NoFrame}]
    BY <1>1, <1>2, <1>3
  <2>4. Sender(tx')
    BY <1>1, <2>1, <2>2, <2>3 DEF Sender
  <2>5. Age' = Age + 1
    <3>1. tx.at \in Nat /\ tx.time \in Nat /\ tx.left \in Nat
      <4>1. tx.time \in BitTimes /\ tx.left \in Nat /\ tx.at \in 0..FrameLen
        BY <1>1, <2>2
      <4>2. tx.at \in Nat
        BY <1>2, <4>1
      <4>3. tx.time \in Nat
        BY <1>2, <4>1
      <4> QED
        BY <4>1, <4>2, <4>3
    <3>2. Age' = tx'.at * tx'.time - tx'.left
      BY DEF Age
    <3>3. Age' = tx.at * tx.time - (tx.left - 1)
      BY <2>1, <3>2
    <3>4. tx.at * tx.time \in Nat
      BY <3>1
    <3> QED
      BY <3>1, <3>3, <3>4 DEF Age
  <2> QED
    BY <1>3, <2>1, <2>2, <2>4, <2>5
<1>4. CASE tx.left = 1 /\ tx.at < FrameLen /\ tx' = [tx EXCEPT !.at = @ + 1, !.left = tx.time]
  <2>1. /\ tx'.at = tx.at + 1 /\ tx'.left = tx.time
        /\ tx'.time = tx.time /\ tx'.frame = tx.frame
    BY <1>1, <1>4
  <2>2. tx.at # 0 /\ tx.time \in Nat \ {0} /\ tx.time \in 1..tx.time
    BY <1>1, <1>2, <1>4
  <2>3. tx' \in [at : 0..FrameLen, left : Nat, time : {0} \union BitTimes,
                 frame : Frames \union {NoFrame}]
    <3>1. tx.at + 1 \in 0..FrameLen /\ tx.time \in Nat
      BY <1>1, <1>2, <1>4, <2>2
    <3>2. tx' = [at |-> tx.at + 1, left |-> tx.time, time |-> tx.time, frame |-> tx.frame]
      BY <1>1, <1>4
    <3>3. tx.time \in {0} \union BitTimes /\ tx.frame \in Frames \union {NoFrame}
      BY <1>1
    <3> QED
      BY <3>1, <3>2, <3>3
  <2>4. Sender(tx')
    BY <1>1, <1>2, <2>1, <2>2, <2>3 DEF Sender
  <2>5. Age' = Age + 1
    BY <1>1, <1>2, <1>4, <2>1, <2>2 DEF Age
  <2> QED
    BY <1>1, <1>2, <1>4, <2>1, <2>2, <2>4, <2>5
<1>5. CASE /\ tx.left <= 1 /\ tx.at \in {0, FrameLen}
           /\ \/ tx' = Silent
              \/ \E f \in Frames, t \in BitTimes : tx' = StartFrame(f, t)
  <2>1. CASE tx' = Silent
    BY <1>1, <1>2, <1>5, <2>1, SilentSender DEF Silent
  <2>2. CASE \E f \in Frames, t \in BitTimes : tx' = StartFrame(f, t)
    <3>1. PICK f \in Frames, t \in BitTimes : tx' = StartFrame(f, t)
      BY <2>2
    <3>2. /\ tx'.at = 1 /\ tx'.left = t /\ tx'.time = t /\ tx'.frame = f
          /\ tx' \in [at : 0..FrameLen, left : Nat, time : {0} \union BitTimes,
                      frame : Frames \union {NoFrame}]
      BY <1>2, <3>1 DEF StartFrame
    <3>3. t \in 1..t
      BY <1>2
    <3>4. Sender(tx')
      BY <3>2, <3>3 DEF Sender
    <3> QED
      BY <1>1, <1>2, <1>5, <3>2, <3>4
  <2> QED
    BY <1>5, <2>1, <2>2
<1> QED
  BY <1>3, <1>4, <1>5 DEF Transmit

-----------------------------------------------------------------------------
(***************************************************************************)
(* The registers.                                                          *)
(***************************************************************************)
RegistersOK ==
    /\ divisor \in {0, Divisor} /\ bits_per_data \in {0, BitsPerData}
    /\ current_state \in States
    /\ c16 \in 0..(DivMod - 1) /\ c4 \in 0..(BitsMod - 1)
    /\ tc16 \in BOOLEAN /\ uart_clock \in BOOLEAN /\ tc_char \in BOOLEAN /\ calm \in BOOLEAN
    /\ sr \in [1..SrLen -> {0, 1}]
    /\ Sender(tx) /\ Sender(heard)

\* What the clears and the restarts of the counters leave.
ClockInv ==
    /\ tc16 => c16 = 0
    /\ current_state = "CLEAR_CLOCK" =>
          ~tc16 /\ ~uart_clock /\ c16 = 0 /\ c4 = 0 /\ ~tc_char /\ sr = Zeros
    /\ current_state = "UART_DATA" /\ tc_char => tc16

LEMMA ZerosTyped == Zeros \in [1..SrLen -> {0, 1}]
BY DEF Zeros

LEMMA CountTyped ==
    ASSUME NEW m \in Nat \ {0}, NEW x \in 0..(m - 1), NEW e
    PROVE  Counted(x, e, m) \in 0..(m - 1)
BY DEF Counted

\* One clock of the receiver while it counts.
LEMMA CountingStep ==
    ASSUME RegistersOK, Counting
    PROVE  /\ c16' \in 0..(DivMod - 1) /\ c4' \in 0..(BitsMod - 1)
           /\ tc16' \in BOOLEAN /\ uart_clock' \in BOOLEAN /\ tc_char' \in BOOLEAN
           /\ sr' \in [1..SrLen -> {0, 1}]
           /\ tc16' => c16' = 0
           /\ tc_char' /\ ~tc_char => tc16'
           /\ UartClockRises => tc16' /\ ~tc16
<1> USE DEF RegistersOK
<1>1. c16' \in 0..(DivMod - 1) /\ tc16' = (c16 = divisor) /\ (tc16' => c16' = 0)
  <2>1. c16' = Counted(c16, divisor, DivMod) /\ tc16' = Matches(c16, divisor)
    BY DEF Counting
  <2> QED
    BY <2>1, CountTyped, Sizes DEF Counted, Matches
<1>2. uart_clock' \in BOOLEAN
  BY DEF Counting
<1>3. UartClockRises => tc16' /\ ~tc16
  BY <1>1 DEF UartClockRises, Toggles, Matches
<1>4. CASE UartClockRises
  <2>1. c4' = Counted(c4, bits_per_data, BitsMod) /\ tc_char' = Matches(c4, bits_per_data)
    BY <1>4 DEF Counting
  <2>2. c4' \in 0..(BitsMod - 1) /\ tc_char' \in BOOLEAN
    BY <2>1, CountTyped, Sizes DEF Matches
  <2>3. sr' \in [1..SrLen -> {0, 1}]
    <3>1. uart_line \in {0, 1} /\ SrLen \in Nat \ {0} /\ sr \in [1..SrLen -> {0, 1}]
      BY Line, Sizes
    <3>2. Append(Tail(sr), uart_line) \in [1..SrLen -> {0, 1}]
      <4>1. \A b \in {0, 1} : Append(Tail(sr), b) \in [1..SrLen -> {0, 1}]
        BY <3>1, ShiftIn
      <4> QED
        BY <3>1, <4>1
    <3> QED
      BY <1>4, <3>1, <3>2 DEF Counting
  <2> QED
    BY <1>1, <1>2, <1>3, <1>4, <2>2, <2>3
<1>5. CASE ~UartClockRises
  <2>1. c4' = c4 /\ tc_char' = tc_char /\ sr' = sr
    BY <1>5 DEF Counting
  <2> QED
    BY <1>1, <1>2, <1>5, <2>1
<1> QED
  BY <1>4, <1>5

\* The FSM, step by step: what it does to the registers.
LEMMA Steps ==
    ASSUME RegistersOK, Clock
    PROVE  \/ /\ current_state = "UART_IDLE" /\ current_state' = "UART_IDLE"
              /\ uart_line = 1 /\ Counting /\ heard' = heard
           \/ /\ current_state = "UART_IDLE" /\ current_state' = "CLEAR_CLOCK"
              /\ uart_line = 0 /\ Cleared /\ heard' = IF calm THEN tx ELSE Silent
           \/ /\ current_state = "CLEAR_CLOCK" /\ current_state' = "UART_DATA"
              /\ Cleared /\ heard' = heard
           \/ /\ current_state = "UART_DATA" /\ current_state' = "UART_DATA"
              /\ ~tc_char /\ Counting /\ heard' = heard
           \/ /\ current_state = "UART_DATA" /\ current_state' = "UART_IDLE"
              /\ tc_char /\ Counting /\ heard' = heard
<1>1. /\ current_state' = next_state
      /\ IF "CLEAR_CLOCK" \in {current_state, next_state} THEN Cleared ELSE Counting
      /\ heard' = IF next_state # "CLEAR_CLOCK" THEN heard ELSE IF calm THEN tx ELSE Silent
  BY DEF Clock, Receive
<1>2. uart_line \in {0, 1} /\ tc_char \in BOOLEAN
  BY Line DEF RegistersOK
<1>3. CASE current_state = "UART_IDLE"
  BY <1>1, <1>2, <1>3 DEF next_state
<1>4. CASE current_state = "CLEAR_CLOCK"
  BY <1>1, <1>4 DEF next_state
<1>5. CASE current_state = "UART_DATA"
  BY <1>1, <1>2, <1>5 DEF next_state
<1> QED
  BY <1>3, <1>4, <1>5 DEF RegistersOK, States

LEMMA RegistersNext ==
    ASSUME RegistersOK, ClockInv, Clock
    PROVE  RegistersOK' /\ ClockInv'
<1>1. Sender(tx')
  BY LineAges DEF RegistersOK, Clock
<1>2. calm' \in BOOLEAN /\ divisor' = divisor /\ bits_per_data' = bits_per_data
  BY DEF Clock, Trust, config
<1>3. Sender(heard')
  BY Steps, SilentSender DEF RegistersOK
<1>4. CASE Cleared
  <2>1. /\ c16' = 0 /\ tc16' = FALSE /\ uart_clock' = FALSE /\ c4' = 0
        /\ tc_char' = FALSE /\ sr' = Zeros
    BY <1>4 DEF Cleared
  <2>2. 0 \in 0..(DivMod - 1) /\ 0 \in 0..(BitsMod - 1)
    BY Sizes
  <2>3. current_state' \in States
    BY Steps DEF States
  <2>4. RegistersOK'
    BY <1>1, <1>2, <1>3, <2>1, <2>2, <2>3, ZerosTyped DEF RegistersOK
  <2> QED
    BY <2>1, <2>4 DEF ClockInv
<1>5. CASE Counting /\ current_state' # "CLEAR_CLOCK"
  <2>1. current_state' \in States
    BY Steps DEF States
  <2>2. RegistersOK'
    BY <1>1, <1>2, <1>3, <1>5, <2>1, CountingStep DEF RegistersOK
  <2>3. current_state' = "UART_DATA" => ~tc_char
    BY <1>5, Steps DEF ClockInv
  <2> QED
    BY <1>5, <2>2, <2>3, CountingStep DEF ClockInv
<1> QED
  BY <1>4, <1>5, Steps

-----------------------------------------------------------------------------
(***************************************************************************)
(* A receiver in step.                                                     *)
(***************************************************************************)

\* How much of the start bit was over when the FSM saw it: nothing, or the one
\* clock it took to leave the frame before.
Lag == heard.time - heard.left

\* Clocks since the bit clock last fell, or until it does.
Phase == IF uart_clock THEN c16 - (Divisor + 1) ELSE c16

\* Where the line is when a receiver in step waits, and when it is about to.
Gap == tx.at \in {0, FrameLen} \/ (tx.at = 1 /\ tx.left >= tx.time - 1)
LeavesFrame == tx.at \in {0, FrameLen} \/ (tx.at = 1 /\ tx.left = tx.time)

CalmInv ==
    calm => /\ Configured
            /\ tx.at # 0 => InTolerance(tx.time)
            /\ waiting => Gap
            /\ ~waiting => InStep

Follows == tx.at # 0 /\ tx.frame = heard.frame /\ tx.time = heard.time /\ InTolerance(tx.time)

Received(m) == sr = FrameIn(SrLen, heard.frame, m)

\* In step the age of the frame on the line tells the position of the receiver.
StepInv ==
    InStep =>
        /\ Configured /\ heard.at = 1 /\ Lag \in {0, 1}
        /\ current_state = "CLEAR_CLOCK" => Follows /\ tx.at = 1 /\ Age = Lag + 1
        /\ current_state = "UART_DATA" /\ ~tc_char =>
              /\ Follows /\ c4 \in 0..BitsPerData /\ c16 <= Divisor
              /\ Age = Lag + 2 + c4 * Period + Phase
              /\ Received(c4)
        /\ current_state = "UART_DATA" /\ tc_char => LeavesFrame /\ Received(FrameLen)
        /\ waiting => Received(FrameLen)

LEMMA LineFacts ==
    ASSUME RegistersOK, tx.at # 0
    PROVE  /\ tx.at \in 1..FrameLen /\ tx.at \in Nat
           /\ tx.time \in Nat \ {0} /\ tx.left \in 1..tx.time /\ tx.left \in Nat
           /\ tx.frame \in Frames
<1>1. tx.at \in 0..FrameLen /\ tx.frame \in Frames /\ tx.time \in BitTimes /\ tx.left \in 1..tx.time
  BY DEF RegistersOK, Sender
<1>2. FrameLen \in Nat /\ BitTimes \subseteq Nat \ {0}
  BY Sizes
<1>3. tx.at \in 1..FrameLen /\ tx.at \in Nat
  BY <1>1, <1>2
<1>4. tx.time \in Nat \ {0}
  BY <1>1, <1>2
<1>5. tx.left \in Nat
  BY <1>1, <1>4
<1> QED
  BY <1>1, <1>3, <1>4, <1>5

LEMMA BitTimeLong ==
    ASSUME NEW t \in Nat \ {0}, InTolerance(t)
    PROVE  t > Divisor + 3
<1>1. 0 \in 0..(FrameLen - 1) /\ Divisor \in Nat /\ Period \in Nat
  BY Sizes
<1>2. \A k \in 0..(FrameLen - 1) : Divisor + 3 + k * Period < (k + 1) * t
  BY DEF InTolerance
<1>3. Divisor + 3 + 0 * Period < (0 + 1) * t
  BY <1>1, <1>2
<1>4. 0 * Period = 0 /\ (0 + 1) * t = t
  BY <1>1
<1> QED
  BY <1>1, <1>3, <1>4

\* On a quiet line, or one whose last bit is on it, the line stays in the gap.
LEMMA GapNext ==
    ASSUME RegistersOK, Clock, tx.at \in {0, FrameLen}
    PROVE  tx'.at \in {0, FrameLen} \/ (tx'.at = 1 /\ tx'.left = tx'.time)
<1>1. Sender(tx) /\ Transmit
  BY DEF RegistersOK, Clock
<1>2. CASE tx.at = 0 \/ tx.left = 1
  BY <1>1, <1>2, LineAges
<1>3. CASE tx.at = FrameLen /\ tx.at # 0 /\ tx.left # 1
  <2>1. tx.left > 1
    BY <1>3, LineFacts
  <2> QED
    BY <1>1, <1>3, <2>1, LineAges
<1> QED
  BY <1>2, <1>3

LEMMA CalmNext ==
    ASSUME RegistersOK, CalmInv, StepInv, Clock
    PROVE  CalmInv'
<1> SUFFICES ASSUME calm'
             PROVE  /\ Configured'
                    /\ tx'.at # 0 => InTolerance(tx'.time)
                    /\ waiting' => Gap'
                    /\ ~waiting' => InStep'
  BY DEF CalmInv
<1>1. /\ calm \/ (Configured /\ waiting /\ tx.at = 0)
      /\ tx'.at = 0 \/ InTolerance(tx'.time)
  BY DEF Clock, Trust
<1>2. Configured'
  BY <1>1 DEF Clock, config, Configured, CalmInv
<1>3. ASSUME tx.at \in {0, FrameLen} PROVE Gap'
  <2>1. tx'.at \in {0, FrameLen} \/ (tx'.at = 1 /\ tx'.left = tx'.time)
    BY <1>3, GapNext
  <2>2. tx'.at # 0 => tx'.time \in Nat
    <3>1. Sender(tx')
      BY LineAges DEF RegistersOK, Clock
    <3>2. tx'.at # 0 => tx'.time \in BitTimes
      BY <3>1 DEF Sender
    <3> QED
      BY <3>2, Sizes
  <2>3. tx'.at = 1 /\ tx'.left = tx'.time => tx'.left >= tx'.time - 1
    BY <2>2
  <2> QED
    BY <2>1, <2>3 DEF Gap
<1>4. ASSUME waiting' PROVE Gap'
  <2>1. CASE waiting
    <3>1. uart_line = 1
      BY <1>4, <2>1, Steps DEF waiting
    <3>2. tx.at # 1
      <4>1. ASSUME tx.at = 1 PROVE FALSE
        <5>1. tx.frame \in Frames /\ uart_line = tx.frame[1]
          BY <4>1, LineFacts, Line DEF RegistersOK
        <5>2. \A f \in Frames : f[1] = 0
          BY FrameFacts
        <5> QED
          BY <3>1, <5>1, <5>2
      <4> QED
        BY <4>1
    <3> QED
      BY <1>1, <1>3, <2>1, <3>2 DEF CalmInv, Gap
  <2>2. CASE ~waiting
    <3>1. calm /\ InStep /\ (tx.at # 0 => InTolerance(tx.time))
      BY <1>1, <2>2 DEF CalmInv
    <3>2. current_state = "UART_DATA" /\ tc_char
      BY <1>4, <2>2, Steps DEF waiting
    <3>3. LeavesFrame
      BY <3>1, <3>2 DEF StepInv
    <3>4. CASE tx.at = 1 /\ tx.left = tx.time
      <4>1. tx.time \in Nat \ {0} /\ tx.time > Divisor + 3 /\ FrameLen >= 3 /\ Divisor \in Nat
        BY <3>1, <3>4, LineFacts, BitTimeLong, Sizes
      <4>2. tx.left > 1 /\ tx.at # FrameLen
        BY <3>4, <4>1
      <4>3. tx'.at = 1 /\ tx'.left = tx.time - 1 /\ tx'.time = tx.time
        BY <3>4, <4>2, LineAges DEF RegistersOK, Clock
      <4>4. tx'.left >= tx'.time - 1
        BY <4>1, <4>3
      <4> QED
        BY <4>3, <4>4 DEF Gap
    <3> QED
      BY <1>3, <3>3, <3>4 DEF LeavesFrame
  <2> QED
    BY <2>1, <2>2
<1>5. ASSUME ~waiting' PROVE InStep'
  <2>1. CASE waiting
    <3>1. uart_line = 0 /\ heard' = IF calm THEN tx ELSE Silent
      BY <1>5, <2>1, Steps DEF waiting
    <3>2. tx.at # 0
      BY <3>1, Line DEF RegistersOK
    <3> QED
      BY <1>1, <3>1, <3>2 DEF InStep
  <2>2. CASE ~waiting
    <3>1. heard' = heard
      BY <2>2, Steps DEF waiting
    <3> QED
      BY <1>1, <2>2, <3>1 DEF CalmInv, InStep
  <2> QED
    BY <2>1, <2>2
<1> QED
  BY <1>1, <1>2, <1>4, <1>5

\* The FSM sees a start bit.
LEMMA StepStart ==
    ASSUME RegistersOK, CalmInv, Clock, calm,
           current_state = "UART_IDLE", uart_line = 0, heard' = tx,
           current_state' = "CLEAR_CLOCK"
    PROVE  StepInv'
<1>1. tx.at # 0 /\ tx.at # FrameLen
  BY Line DEF RegistersOK
<1>2. Configured /\ InTolerance(tx.time) /\ tx.at = 1 /\ tx.left >= tx.time - 1
  BY <1>1 DEF CalmInv, waiting, Gap
<1>3. /\ tx.time \in Nat \ {0} /\ tx.left \in 1..tx.time /\ tx.left \in Nat
      /\ Divisor \in Nat /\ FrameLen >= 3
  BY <1>1, LineFacts, Sizes
<1>4. tx.left > 1
  BY <1>2, <1>3, BitTimeLong
<1>5. /\ tx'.at = 1 /\ tx'.frame = tx.frame /\ tx'.time = tx.time /\ Age' = Age + 1
  BY <1>1, <1>2, <1>4, LineAges DEF RegistersOK, Clock
<1>6. Age = tx.time - tx.left
  BY <1>2, <1>3 DEF Age
<1>7. Lag' = tx.time - tx.left /\ heard'.at = 1 /\ heard'.frame = tx.frame /\ heard'.time = tx.time
  BY <1>2 DEF Lag
<1>8. Lag' \in {0, 1} /\ Age' = Lag' + 1
  BY <1>2, <1>3, <1>5, <1>6, <1>7
<1>9. Configured'
  BY <1>2 DEF Clock, config, Configured
<1>10. Follows'
  BY <1>2, <1>5, <1>7 DEF Follows
<1> QED
  BY <1>5, <1>7, <1>8, <1>9, <1>10 DEF StepInv, waiting

\* The clock that leaves CLEAR_CLOCK.
LEMMA StepClear ==
    ASSUME RegistersOK, StepInv, Clock, InStep, Cleared,
           current_state = "CLEAR_CLOCK", current_state' = "UART_DATA", heard' = heard
    PROVE  StepInv'
<1>1. /\ Configured /\ heard.at = 1 /\ Lag \in {0, 1} /\ Follows /\ tx.at = 1
      /\ Age = Lag + 1
  BY DEF StepInv
<1>2. /\ tx.time \in Nat \ {0} /\ tx.left \in 1..tx.time /\ tx.left \in Nat
      /\ tx.time > Divisor + 3 /\ Divisor \in Nat /\ FrameLen >= 3 /\ Period \in Nat
  BY <1>1, LineFacts, BitTimeLong, Sizes DEF Follows
<1>3. Age = tx.time - tx.left
  BY <1>1, <1>2 DEF Age
<1>4. tx.left > 1
  BY <1>1, <1>2, <1>3
<1>5. /\ tx'.at = 1 /\ tx'.frame = tx.frame /\ tx'.time = tx.time /\ Age' = Age + 1
  BY <1>1, <1>2, <1>4, LineAges DEF RegistersOK, Clock
<1>6. /\ c16' = 0 /\ c4' = 0 /\ uart_clock' = FALSE /\ tc_char' = FALSE /\ sr' = Zeros
  BY DEF Cleared
<1>7. Lag' = Lag /\ Phase' = 0
  BY <1>6 DEF Lag, Phase
<1>8. Age' = Lag' + 2 + c4' * Period + Phase'
  BY <1>1, <1>2, <1>5, <1>6, <1>7
<1>9. Received(c4)'
  <2>1. SrLen \in Nat
    BY Sizes
  <2>2. \A k \in 1..SrLen : k <= SrLen - 0
    BY <2>1
  <2> QED
    BY <1>6, <2>2 DEF Received, FrameIn, Zeros
<1>10. Configured' /\ Follows'
  BY <1>1, <1>5 DEF Clock, config, Configured, Follows
<1>11. c4' \in 0..BitsPerData /\ c16' <= Divisor
  BY <1>6, Sizes
<1> QED
  BY <1>1, <1>6, <1>7, <1>8, <1>9, <1>10, <1>11 DEF StepInv, waiting

\* What a receiver in step is at in the middle of a frame.
LEMMA DataFacts ==
    ASSUME RegistersOK, ClockInv, StepInv, InStep,
           current_state = "UART_DATA", ~tc_char
    PROVE  /\ Configured /\ heard.at = 1 /\ Lag \in {0, 1} /\ Follows
           /\ c4 \in 0..(FrameLen - 1) /\ c16 \in 0..Divisor
           /\ tx.time \in Nat \ {0} /\ tx.left \in 1..tx.time /\ tx.left \in Nat /\ tx.at \in Nat
           /\ tx.at \in 1..FrameLen
           /\ c4 * Period \in Nat /\ tx.at * tx.time \in Nat
           /\ Age = Lag + 2 + c4 * Period + Phase
           /\ Toggles <=> c16 = Divisor
           /\ ~Toggles => c16 + 1 \in 0..Divisor /\ c16 + 1 < DivMod
<1>1. /\ Configured /\ heard.at = 1 /\ Lag \in {0, 1} /\ Follows
      /\ c4 \in 0..BitsPerData /\ c16 <= Divisor
      /\ Age = Lag + 2 + c4 * Period + Phase
  BY DEF StepInv
<1>2. c4 \in 0..(FrameLen - 1) /\ c16 \in 0..Divisor
  BY <1>1, Sizes DEF RegistersOK
<1>3. /\ tx.time \in Nat \ {0} /\ tx.left \in 1..tx.time /\ tx.left \in Nat
      /\ tx.at \in Nat /\ tx.at \in 1..FrameLen
  BY <1>1, LineFacts DEF Follows
<1>4. c4 * Period \in Nat /\ tx.at * tx.time \in Nat
  <2>1. c4 \in Nat /\ Period \in Nat
    BY <1>2, Sizes
  <2> QED
    BY <1>3, <2>1
<1>5. Toggles <=> c16 = Divisor
  <2>1. tc16 => c16 # Divisor
    BY Sizes DEF ClockInv
  <2>2. divisor = Divisor
    BY <1>1 DEF Configured
  <2> QED
    BY <2>1, <2>2 DEF Toggles, Matches
<1>6. ~Toggles => c16 + 1 \in 0..Divisor /\ c16 + 1 < DivMod
  BY <1>2, <1>5, Sizes
<1> QED
  BY <1>1, <1>2, <1>3, <1>4, <1>5, <1>6

\* Between two samples.
LEMMA StepBetween ==
    ASSUME RegistersOK, ClockInv, StepInv, Clock, InStep, Counting, ~UartClockRises,
           current_state = "UART_DATA", current_state' = "UART_DATA", ~tc_char, heard' = heard
    PROVE  StepInv'
<1>1. /\ c16' = Counted(c16, divisor, DivMod)
      /\ uart_clock' = IF Toggles THEN ~uart_clock ELSE uart_clock
      /\ c4' = c4 /\ tc_char' = tc_char /\ sr' = sr
  BY DEF Counting
<1>2. c4 \in 0..(FrameLen - 1) /\ c16 \in 0..Divisor /\ Divisor \in Nat /\ divisor = Divisor
      /\ uart_clock \in BOOLEAN /\ Period \in Nat /\ DivMod \in Nat \ {0} /\ FrameLen \in Nat
  BY DataFacts, Sizes DEF Configured, RegistersOK
<1>3. c16' \in 0..Divisor /\ Phase' = Phase + 1 /\ Phase \in Int /\ Phase + 1 <= Divisor
  <2>1. CASE Toggles
    <3>1. uart_clock /\ c16 = Divisor
      BY <2>1, DataFacts DEF UartClockRises
    <3>2. c16' = 0 /\ ~uart_clock'
      BY <1>1, <1>2, <2>1, <3>1 DEF Counted, Matches
    <3> QED
      BY <1>2, <3>1, <3>2 DEF Phase
  <2>2. CASE ~Toggles
    <3>1. c16 # Divisor /\ c16 + 1 \in 0..Divisor /\ c16 + 1 < DivMod
      BY <2>2, DataFacts
    <3>2. c16' = (c16 + 1) % DivMod
      BY <1>1, <1>2, <3>1 DEF Counted, Matches
    <3>3. c16' = c16 + 1 /\ uart_clock' = uart_clock
      BY <1>1, <1>2, <2>2, <3>1, <3>2
    <3> QED
      BY <1>2, <3>1, <3>3 DEF Phase
  <2> QED
    BY <2>1, <2>2
<1>4. ~(tx.at = FrameLen /\ tx.left = 1)
  <2>1. Age + 1 < FrameLen * tx.time
    <3>1. (Phase + 1) + 3 + c4 * Period < FrameLen * tx.time
      <4>1. tx.time \in Nat \ {0} /\ InTolerance(tx.time) /\ Phase + 1 \in Int
        BY <1>3, DataFacts DEF Follows
      <4> QED
        BY <1>2, <1>3, <4>1, Tolerances
    <3>2. FrameLen * tx.time \in Int /\ c4 * Period \in Nat /\ Lag \in {0, 1}
          /\ Age = Lag + 2 + c4 * Period + Phase
      BY <1>2, DataFacts
    <3> QED
      BY <1>3, <3>1, <3>2
  <2>2. Age = tx.at * tx.time - tx.left /\ tx.at * tx.time \in Nat /\ tx.left \in Nat
    BY DataFacts DEF Age
  <2> QED
    BY <2>1, <2>2
<1>5. tx'.at # 0 /\ tx'.frame = tx.frame /\ tx'.time = tx.time /\ Age' = Age + 1
  BY <1>4, LineAges, DataFacts DEF RegistersOK, Clock, Follows
<1>6. Lag' = Lag
  BY DEF Lag
<1>7. Age' = Lag' + 2 + c4' * Period + Phase'
  <2>1. Age = Lag + 2 + c4 * Period + Phase /\ c4 * Period \in Nat /\ Lag \in {0, 1}
    BY DataFacts
  <2> QED
    BY <1>1, <1>3, <1>5, <1>6, <2>1
<1>8. Configured' /\ Follows'
  BY <1>5, DataFacts DEF Clock, config, Configured, Follows
<1>9. Received(c4)'
  BY <1>1 DEF StepInv, Received
<1>10. c4' \in 0..BitsPerData /\ c16' <= Divisor
  BY <1>1, <1>2, <1>3 DEF StepInv
<1> QED
  BY <1>1, <1>6, <1>7, <1>8, <1>9, <1>10, DataFacts DEF StepInv, waiting

\* A sample.
LEMMA StepSample ==
    ASSUME RegistersOK, ClockInv, StepInv, Clock, InStep, Counting, UartClockRises,
           current_state = "UART_DATA", current_state' = "UART_DATA", ~tc_char, heard' = heard
    PROVE  /\ StepInv'
           /\ uart_line = heard.frame[c4 + 1]
<1>1. /\ c16' = Counted(c16, divisor, DivMod)
      /\ uart_clock' = ~uart_clock
      /\ c4' = Counted(c4, bits_per_data, BitsMod)
      /\ tc_char' = Matches(c4, bits_per_data)
      /\ sr' = Append(Tail(sr), uart_line)
  BY DEF Counting, UartClockRises, shift_enable
<1>2. /\ c4 \in 0..(FrameLen - 1) /\ c4 \in Nat /\ c16 = Divisor
      /\ divisor = Divisor /\ bits_per_data = FrameLen - 1
      /\ Divisor \in Nat /\ Period \in Nat /\ Period = 2 * (Divisor + 1)
      /\ FrameLen \in Nat /\ FrameLen >= 3 /\ FrameLen <= SrLen /\ SrLen \in Nat \ {0}
      /\ BitsPerData = FrameLen - 1 /\ FrameLen - 1 < BitsMod /\ BitsMod \in Nat \ {0}
      /\ ~uart_clock
  BY DataFacts, Sizes DEF Configured, UartClockRises
<1>3. Phase = Divisor /\ c16' = 0 /\ uart_clock' /\ Phase' = 0 - (Divisor + 1)
  BY <1>1, <1>2 DEF Phase, Counted, Matches
<1>4. tx.at = c4 + 1
  <2>1. c4 * tx.time <= Divisor + 2 + c4 * Period
        /\ Divisor + 3 + c4 * Period < (c4 + 1) * tx.time
    <3>1. tx.time \in Nat \ {0} /\ InTolerance(tx.time) /\ Divisor \in Int /\ Divisor <= Divisor
      BY <1>2, DataFacts DEF Follows
    <3> QED
      BY <1>2, <3>1, Tolerances
  <2>2. Age = Lag + 2 + c4 * Period + Divisor /\ Lag \in {0, 1} /\ c4 * Period \in Nat
    BY <1>3, DataFacts
  <2>3. c4 * tx.time \in Int /\ (c4 + 1) * tx.time \in Int
    BY <1>2, DataFacts
  <2>4. c4 * tx.time <= Age /\ Age < (c4 + 1) * tx.time
    BY <1>2, <2>1, <2>2, <2>3
  <2>5. c4 * tx.time <= tx.at * tx.time - tx.left
        /\ tx.at * tx.time - tx.left < (c4 + 1) * tx.time
    BY <2>4 DEF Age
  <2> QED
    BY <1>2, <2>5, DataFacts, Place
<1>5. uart_line = heard.frame[c4 + 1] /\ uart_line \in {0, 1}
  BY <1>4, Line, DataFacts DEF RegistersOK, Follows
<1>6. sr' = FrameIn(SrLen, heard.frame, c4 + 1)
  <2>1. c4 \in 0..(SrLen - 1) /\ sr \in [1..SrLen -> {0, 1}]
        /\ sr = FrameIn(SrLen, heard.frame, c4)
    BY <1>2 DEF RegistersOK, StepInv, Received
  <2> QED
    BY <1>1, <1>2, <1>5, <2>1, FrameShifts
<1>7. Lag' = Lag /\ Configured'
  BY DataFacts DEF Lag, Clock, config, Configured
<1>8. CASE c4 = FrameLen - 1
  <2>1. tc_char' /\ c4' = 0
    BY <1>1, <1>2, <1>8 DEF Matches, Counted
  <2>2. LeavesFrame'
    <3>1. tx.at = FrameLen
      BY <1>2, <1>4, <1>8
    <3> QED
      BY <3>1, GapNext DEF LeavesFrame
  <2>3. Received(FrameLen)'
    <3>1. c4 + 1 = FrameLen
      BY <1>2, <1>8
    <3> QED
      BY <1>6, <3>1 DEF Received
  <2>4. StepInv'
    BY <1>7, <2>1, <2>2, <2>3, DataFacts DEF StepInv, waiting
  <2> QED
    BY <1>5, <2>4
<1>9. CASE c4 # FrameLen - 1
  <2>1. c4 + 1 \in 0..(FrameLen - 1) /\ c4 + 1 < BitsMod
    BY <1>2, <1>9
  <2>2. c4' = (c4 + 1) % BitsMod
    BY <1>1, <1>2, <1>9 DEF Counted, Matches
  <2>3. ~tc_char' /\ c4' = c4 + 1
    <3>1. ~tc_char'
      BY <1>1, <1>2, <1>9 DEF Matches
    <3>2. c4 + 1 \in 0..(BitsMod - 1)
      BY <1>2, <2>1
    <3>3. (c4 + 1) % BitsMod = c4 + 1
      BY <1>2, <3>2
    <3> QED
      BY <2>2, <3>1, <3>3
  <2>4. tx'.at # 0 /\ tx'.frame = tx.frame /\ tx'.time = tx.time /\ Age' = Age + 1
    <3>1. tx.at # FrameLen
      BY <1>2, <1>4, <1>9
    <3> QED
      BY <3>1, LineAges, DataFacts DEF RegistersOK, Clock, Follows
  <2>5. Age' = Lag' + 2 + c4' * Period + Phase'
    <3>1. Age = Lag + 2 + c4 * Period + Divisor /\ c4 * Period \in Nat /\ Lag \in {0, 1}
      BY <1>3, DataFacts
    <3>2. c4' * Period = c4 * Period + Period
      BY <1>2, <2>3
    <3>3. Age' = Lag + 3 + c4 * Period + Divisor
      BY <1>2, <2>4, <3>1
    <3> QED
      BY <1>2, <1>3, <1>7, <3>1, <3>2, <3>3
  <2>6. Follows' /\ c16' <= Divisor /\ c4' \in 0..BitsPerData /\ Received(c4)'
    BY <1>2, <1>3, <1>6, <2>1, <2>3, <2>4, DataFacts DEF Follows, Received
  <2>7. StepInv'
    BY <1>7, <2>3, <2>5, <2>6, DataFacts DEF StepInv, waiting
  <2> QED
    BY <1>5, <2>7
<1> QED
  BY <1>8, <1>9

\* After the last sample the register holds still.
LEMMA StepWaits ==
    ASSUME RegistersOK, ClockInv, StepInv, Clock, InStep, Counting, heard' = heard,
           current_state' = "UART_IDLE",
           current_state = "UART_IDLE" \/ (current_state = "UART_DATA" /\ tc_char)
    PROVE  StepInv' /\ sr' = sr
<1>1. Received(FrameLen) /\ Configured /\ heard.at = 1 /\ Lag \in {0, 1}
  BY DEF StepInv, waiting
<1>2. sr' = sr
  <2>1. CASE current_state = "UART_IDLE"
    BY <2>1 DEF Counting, shift_enable
  <2>2. CASE current_state = "UART_DATA" /\ tc_char
    <3>1. ~UartClockRises
      BY <2>2 DEF ClockInv, UartClockRises, Toggles
    <3> QED
      BY <3>1 DEF Counting
  <2> QED
    BY <2>1, <2>2
<1>3. Received(FrameLen)' /\ Configured' /\ Lag' = Lag
  BY <1>1, <1>2 DEF Received, Clock, config, Configured, Lag
<1> QED
  BY <1>1, <1>2, <1>3 DEF StepInv, waiting

LEMMA StepNext ==
    ASSUME RegistersOK, ClockInv, CalmInv, StepInv, Clock
    PROVE  StepInv'
<1>1. CASE heard' = Silent
  BY <1>1 DEF StepInv, InStep, Silent
<1>2. CASE heard' = heard /\ ~InStep
  BY <1>2 DEF StepInv, InStep
<1> QED
  BY <1>1, <1>2, Steps, StepStart, StepClear, StepBetween, StepSample, StepWaits

-----------------------------------------------------------------------------
(***************************************************************************)
(* The invariant, and the theorems.                                        *)
(***************************************************************************)
Inv == RegistersOK /\ ClockInv /\ CalmInv /\ StepInv

LEMMA InvInit == Init => Inv
<1> SUFFICES ASSUME Init PROVE Inv
  OBVIOUS
<1>1. RegistersOK
  <2>1. 0 \in 0..(DivMod - 1) /\ 0 \in 0..(BitsMod - 1)
    BY Sizes
  <2> QED
    BY <2>1, SilentSender, ZerosTyped DEF Init, RegistersOK, States
<1>2. ClockInv /\ CalmInv /\ StepInv
  BY DEF Init, ClockInv, CalmInv, StepInv, InStep, Silent
<1> QED
  BY <1>1, <1>2 DEF Inv

\* The program's writes come before a receiver can be in step.
LEMMA KeptByWrites ==
    ASSUME Inv, WriteBits \/ WriteDivisor
    PROVE  Inv' /\ UNCHANGED <<fsm, tx, heard, calm>>
<1>1. UNCHANGED <<fsm, tx, heard, calm>>
  BY DEF WriteBits, WriteDivisor
<1>2. divisor' \in {0, Divisor} /\ bits_per_data' \in {0, BitsPerData}
  BY DEF WriteBits, WriteDivisor, Inv, RegistersOK
<1>3. RegistersOK'
  BY <1>1, <1>2 DEF fsm, Inv, RegistersOK
<1>4. ClockInv'
  BY <1>1 DEF fsm, Inv, ClockInv
<1>5. ~Configured
  BY Sizes DEF WriteBits, WriteDivisor, Configured
<1>6. ~calm /\ ~InStep
  BY <1>5 DEF Inv, CalmInv, StepInv
<1>7. CalmInv' /\ StepInv'
  BY <1>1, <1>6 DEF CalmInv, StepInv, InStep
<1> QED
  BY <1>1, <1>3, <1>4, <1>7 DEF Inv

LEMMA KeptByReset == Inv /\ Reset => Inv'
<1> SUFFICES ASSUME Inv, Reset PROVE Inv'
  OBVIOUS
<1>1. RegistersOK'
  <2>1. 0 \in 0..(DivMod - 1) /\ 0 \in 0..(BitsMod - 1)
    BY Sizes
  <2>2. Sender(tx') /\ Sender(heard') /\ uart_clock' \in BOOLEAN
    BY SilentSender DEF Reset, Inv, RegistersOK
  <2> QED
    BY <2>1, <2>2, ZerosTyped DEF Reset, RegistersOK, States
<1>2. ClockInv' /\ CalmInv' /\ StepInv'
  BY DEF Reset, ClockInv, CalmInv, StepInv, InStep, Silent
<1> QED
  BY <1>1, <1>2 DEF Inv

LEMMA InvNext == Inv /\ [Next]_vars => Inv'
<1> SUFFICES ASSUME Inv, [Next]_vars PROVE Inv'
  OBVIOUS
<1>1. CASE Clock
  BY <1>1, RegistersNext, CalmNext, StepNext DEF Inv
<1>2. CASE WriteBits \/ WriteDivisor
  BY <1>2, KeptByWrites
<1>3. CASE Reset
  BY <1>3, KeptByReset
<1>4. CASE UNCHANGED vars
  <2> USE <1>4 DEF vars, config, fsm
  <2>1. RegistersOK' /\ ClockInv'
    BY DEF Inv, RegistersOK, ClockInv
  <2>2. CalmInv'
    BY DEF Inv, CalmInv, Configured, waiting, Gap, InStep
  <2>3. StepInv'
    BY DEF Inv, StepInv, InStep, Configured, Lag, Follows, Age, Phase, Received,
           LeavesFrame, waiting
  <2> QED
    BY <2>1, <2>2, <2>3 DEF Inv
<1> QED
  BY <1>1, <1>2, <1>3, <1>4 DEF Next

LEMMA InvAlways == Spec => []Inv
BY InvInit, InvNext, PTL DEF Spec

\* Every register of the receiver keeps to its width, whatever comes.
THEOREM Typing == Spec => []TypeOK
<1>1. Inv => TypeOK
  BY DEF Inv, RegistersOK, Sender, TypeOK
<1> QED
  BY <1>1, InvAlways, PTL

\* A receiver in step starts on start bits and on nothing else.
THEOREM Starts == Spec => []StartsOnStartBit
<1>1. Inv => StartsOnStartBit
  BY DEF Inv, CalmInv, StepInv, Follows, waiting, StartsOnStartBit
<1> QED
  BY <1>1, InvAlways, PTL

\* For every bit time within the tolerance each bit is taken while the sender
\* is at that bit.
THEOREM Samples == Spec => []SamplesInTheirBits
<1>1. ASSUME Inv, calm, current_state = "UART_DATA", NEW k \in 0..FrameLen, c4 = k, ~tc_char
      PROVE  SubSeq(sr, SrLen - k + 1, SrLen) = SubSeq(tx.frame, 1, k)
  <2>1. sr = FrameIn(SrLen, tx.frame, k) /\ tx.frame \in Frames
    BY <1>1, LineFacts DEF Inv, CalmInv, StepInv, Follows, Received, waiting
  <2>2. tx.frame \in [1..FrameLen -> {0, 1}]
    BY <2>1, FrameFacts
  <2>3. SrLen \in Nat \ {0} /\ FrameLen <= SrLen /\ FrameLen \in Nat /\ k \in 0..FrameLen
    BY <1>1, Sizes
  <2>4. sr \in [1..SrLen -> {0, 1}]
    BY <1>1 DEF Inv, RegistersOK
  <2> QED
    BY <2>1, <2>2, <2>3, <2>4, FrameTail
<1>2. Inv => SamplesInTheirBits
  BY <1>1 DEF SamplesInTheirBits
<1> QED
  BY <1>2, InvAlways, PTL

\* While the receiver waits, the shift register is the frame received last.
THEOREM Captures == Spec => []FrameCaptured
<1>1. Inv => FrameCaptured
  BY DEF Inv, StepInv, InStep, Received, FrameIn, FrameCaptured
<1> QED
  BY <1>1, InvAlways, PTL

-----------------------------------------------------------------------------
(***************************************************************************)
(* The refinement.                                                         *)
(***************************************************************************)
\* What UartRx calls frame and n.
RxFrame == IF InStep THEN heard.frame ELSE NoFrame
RxN == IF waiting \/ ~InStep THEN 0 ELSE IF tc_char THEN FrameLen ELSE c4

\* In step with a frame, or with nothing.
LEMMA GoodInStep == Inv => (RxFrame # NoFrame <=> InStep)
<1> SUFFICES ASSUME Inv PROVE InStep => heard.frame # NoFrame
  BY DEF RxFrame
<1>1. Sender(heard)
  BY DEF Inv, RegistersOK
<1> QED
  BY <1>1, FrameFacts DEF InStep, Sender

\* A step of the receiver is a start, a shift, the end of a frame, or nothing
\* the processor could see.
LEMMA RxSteps ==
    ASSUME Inv, Clock
    PROVE  \/ Rx!Begin \/ Rx!Arrive \/ Rx!Finish \/ UNCHANGED Rx!rxVars
<1> USE DEF Inv
<1>1. CASE /\ current_state = "UART_IDLE" /\ current_state' = "UART_IDLE"
           /\ Counting /\ heard' = heard
  <2>1. sr' = sr
    BY <1>1 DEF Counting, shift_enable
  <2> QED
    BY <1>1, <2>1 DEF Rx!rxVars, waiting, InStep
<1>2. CASE /\ current_state = "UART_IDLE" /\ current_state' = "CLEAR_CLOCK"
           /\ uart_line = 0 /\ Cleared /\ heard' = IF calm THEN tx ELSE Silent
  <2>1. waiting /\ ~waiting' /\ sr' = Zeros /\ c4' = 0 /\ ~tc_char'
    BY <1>2 DEF waiting, Cleared
  <2>2. RxFrame' \in Frames \union {NoFrame} /\ RxN' = 0
    <3>1. Sender(heard')
      BY RegistersNext DEF RegistersOK
    <3> QED
      BY <2>1, <3>1 DEF Sender, RxFrame, RxN
  <2>3. Rx!Start(RxFrame')
    BY <2>1, <2>2 DEF Rx!Start, Rx!Zeros, Zeros, RxFrame, RxN, waiting
  <2> QED
    BY <2>2, <2>3 DEF Rx!Begin
<1>3. CASE /\ current_state = "CLEAR_CLOCK" /\ current_state' = "UART_DATA"
           /\ Cleared /\ heard' = heard
  <2>1. sr' = sr /\ c4' = c4 /\ tc_char' = FALSE /\ tc_char = FALSE
    BY <1>3 DEF Cleared, ClockInv, RegistersOK
  <2> QED
    BY <1>3, <2>1 DEF Rx!rxVars, waiting, InStep
<1>4. CASE /\ current_state = "UART_DATA" /\ current_state' = "UART_DATA"
           /\ ~tc_char /\ Counting /\ heard' = heard /\ ~UartClockRises
  <2>1. sr' = sr /\ c4' = c4 /\ tc_char' = tc_char
    BY <1>4 DEF Counting
  <2> QED
    BY <1>4, <2>1 DEF Rx!rxVars, waiting, InStep
<1>5. CASE /\ current_state = "UART_DATA" /\ current_state' = "UART_DATA"
           /\ ~tc_char /\ Counting /\ heard' = heard /\ UartClockRises
  <2>1. sr' = Append(Tail(sr), uart_line) /\ uart_line \in {0, 1}
    BY <1>5, Line DEF Counting, shift_enable, RegistersOK
  <2>2. ~waiting /\ ~waiting' /\ waiting' = waiting /\ InStep' = InStep /\ RxFrame' = RxFrame
    BY <1>5 DEF waiting, InStep, RxFrame
  <2>3. CASE ~InStep
    <3>1. RxFrame = NoFrame /\ RxN = 0 /\ RxN' = 0
      BY <2>2, <2>3 DEF RxFrame, RxN
    <3>2. Rx!Shift(uart_line)
      BY <2>1, <2>2, <3>1 DEF Rx!Shift, Rx!Good, RxFrame, RxN
    <3> QED
      BY <2>1, <3>2 DEF Rx!Arrive
  <2>4. CASE InStep
    <3>1. uart_line = heard.frame[c4 + 1] /\ c4 \in 0..(FrameLen - 1)
      BY <1>5, <2>4, StepSample, DataFacts
    <3>2. RxN = c4 /\ RxN' = c4 + 1 /\ c4 < FrameLen
      <4>1. bits_per_data = FrameLen - 1 /\ BitsMod \in Nat \ {0} /\ FrameLen \in Nat
            /\ FrameLen - 1 < BitsMod
        BY <1>5, <2>4, DataFacts, Sizes DEF Configured
      <4>2. c4' = Counted(c4, bits_per_data, BitsMod) /\ tc_char' = Matches(c4, bits_per_data)
        BY <1>5 DEF Counting
      <4>3. c4 = FrameLen - 1 => tc_char'
        BY <4>1, <4>2 DEF Matches
      <4>4. c4 # FrameLen - 1 => ~tc_char' /\ c4' = c4 + 1
        <5>1. c4 # FrameLen - 1 => c4 + 1 \in 0..(BitsMod - 1)
          BY <3>1, <4>1
        <5>2. c4 # FrameLen - 1 => (c4 + 1) % BitsMod = c4 + 1
          BY <3>1, <4>1, <5>1
        <5> QED
          BY <4>1, <4>2, <5>2 DEF Matches, Counted
      <4>5. RxN = c4
        BY <1>5, <2>2, <2>4 DEF RxN
      <4>6. RxN' = IF tc_char' THEN FrameLen ELSE c4'
        BY <2>2, <2>4 DEF RxN
      <4>7. CASE c4 = FrameLen - 1
        BY <3>1, <4>1, <4>3, <4>5, <4>6, <4>7
      <4>8. CASE c4 # FrameLen - 1
        BY <3>1, <4>1, <4>4, <4>5, <4>6, <4>8
      <4> QED
        BY <4>7, <4>8
    <3>3. RxFrame = heard.frame /\ RxFrame # NoFrame
      BY <2>4, GoodInStep DEF RxFrame
    <3>4. Rx!Shift(uart_line)
      <4>1. uart_line = RxFrame[RxN + 1] /\ RxN < FrameLen /\ RxN' = RxN + 1
        BY <3>1, <3>2, <3>3
      <4> QED
        BY <2>1, <2>2, <3>3, <4>1 DEF Rx!Shift, Rx!Good, RxFrame, RxN
    <3> QED
      BY <2>1, <3>4 DEF Rx!Arrive
  <2> QED
    BY <2>3, <2>4
<1>6. CASE /\ current_state = "UART_DATA" /\ current_state' = "UART_IDLE"
           /\ tc_char /\ Counting /\ heard' = heard
  <2>1. sr' = sr
    <3>1. ~UartClockRises
      BY <1>6 DEF ClockInv, UartClockRises, Toggles
    <3> QED
      BY <1>6, <3>1 DEF Counting
  <2>2. ~waiting /\ waiting' = TRUE /\ RxFrame' = RxFrame /\ RxN' = 0
    BY <1>6 DEF waiting, RxFrame, RxN, InStep
  <2>3. RxFrame # NoFrame => RxN = FrameLen
    BY <1>6, <2>2, GoodInStep DEF RxN
  <2>4. Rx!Finish
    BY <2>1, <2>2, <2>3 DEF Rx!Finish, Rx!Good, RxFrame, RxN
  <2> QED
    BY <2>4
<1> QED
  BY <1>1, <1>2, <1>3, <1>4, <1>5, <1>6, Steps

\* To the processor the receiver is UartRx: it implements that specification,
\* the fairness of it apart.
THEOREM Implements == Spec => Rx!Spec
<1>1. Init => Rx!Init
  BY DEF Init, Rx!Init, Rx!Zeros, Zeros, waiting, InStep, Silent
<1>2. Inv /\ [Next]_vars => [Rx!Next]_Rx!rxVars
  <2> SUFFICES ASSUME Inv, [Next]_vars PROVE [Rx!Next]_Rx!rxVars
    OBVIOUS
  <2>1. CASE Clock
    BY <2>1, RxSteps DEF Rx!Next
  <2>2. CASE WriteBits \/ WriteDivisor
    BY <2>2, KeptByWrites DEF fsm, Rx!rxVars, waiting, InStep
  <2>3. CASE Reset
    BY <2>3 DEF Reset, Rx!Next, Rx!Reset, Rx!Zeros, Zeros, waiting, InStep, Silent
  <2>4. CASE UNCHANGED vars
    BY <2>4 DEF vars, config, fsm, Rx!rxVars, waiting, InStep
  <2> QED
    BY <2>1, <2>2, <2>3, <2>4 DEF Next
<1> QED
  BY <1>1, <1>2, InvAlways, PTL DEF Spec, Rx!Spec

\* A receiver the processor has not set up yet is in step with nothing it
\* starts on: that is what the system of Lab3 takes a start before main.c:24 for.
THEOREM NotBeforeSetUp ==
    Spec => [][waiting /\ ~waiting' /\ ~Configured => RxFrame' = NoFrame]_vars
<1>1. Inv /\ [Next]_vars => (waiting /\ ~waiting' /\ ~Configured => RxFrame' = NoFrame)
  <2> SUFFICES ASSUME Inv, [Next]_vars, waiting, ~waiting', ~Configured
               PROVE  RxFrame' = NoFrame
    OBVIOUS
  <2>1. CASE Clock
    <3>1. heard' = IF calm THEN tx ELSE Silent
      BY <2>1, Steps DEF Inv, waiting
    <3>2. ~calm
      BY DEF Inv, CalmInv
    <3>3. heard'.at = 0
      BY <3>1, <3>2 DEF Silent
    <3> QED
      BY <3>3 DEF RxFrame, InStep
  <2>2. CASE WriteBits \/ WriteDivisor \/ Reset \/ UNCHANGED vars
    BY <2>2 DEF WriteBits, WriteDivisor, Reset, vars, fsm, waiting
  <2> QED
    BY <2>1, <2>2 DEF Next
<1> QED
  BY <1>1, InvAlways, PTL DEF Spec
=============================================================================
