-------------------------- MODULE JtagUart_proofs --------------------------
(***************************************************************************)
(* What the driver of the JTAG UART promises for every size of its buffers *)
(* and FIFOs, every time-out and every session.                            *)
(***************************************************************************)
EXTENDS JtagUart, SequenceTheorems, TLAPS

-----------------------------------------------------------------------------
(***************************************************************************)
(* Arithmetic of the ring.                                                 *)
(***************************************************************************)

LEMMA ModRange ==
    ASSUME NEW a \in Int, NEW n \in Nat \ {0}
    PROVE  a % n \in 0..(n - 1)
OBVIOUS

\* The pointer after i, which is never i itself.
LEMMA NextSlot ==
    ASSUME NEW i \in Index
    PROVE  /\ (i + 1) % BufLen \in Index
           /\ (i + 1) % BufLen # i
<1>1. BufLen \in Nat \ {0} /\ BufLen >= 2
  BY JtagUartAssumption
<1>2. CASE i + 1 = BufLen
  <2>1. (i + 1) % BufLen = 0
    BY <1>1, <1>2
  <2> QED
    BY <1>1, <1>2, <2>1 DEF Index
<1>3. CASE i + 1 # BufLen
  <2>1. (i + 1) % BufLen = i + 1
    BY <1>1, <1>3 DEF Index
  <2> QED
    BY <1>1, <1>3, <2>1 DEF Index
<1> QED
  BY <1>2, <1>3

\* What write copies fits between the pointer and the end of the buffer.
LEMMA RoomFits ==
    ASSUME NEW i \in Index, NEW o \in Index
    PROVE  room(i, o) \in 0..(BufLen - i)
BY JtagUartAssumption DEF Index, room

\* What read copies lies between its pointer and the end of the buffer.
LEMMA FilledFits ==
    ASSUME NEW i \in Index, NEW o \in Index
    PROVE  /\ filled(i, o) \in 0..(BufLen - o)
           /\ filled(i, o) = 0 <=> i = o
BY JtagUartAssumption DEF Index, filled

LEMMA SmallerFits ==
    ASSUME NEW a \in Nat, NEW b \in Nat
    PROVE  /\ Smaller(a, b) \in Nat
           /\ Smaller(a, b) <= a /\ Smaller(a, b) <= b
BY DEF Smaller

-----------------------------------------------------------------------------
(***************************************************************************)
(* Typing.                                                                 *)
(***************************************************************************)

LEMMA Constants ==
    /\ BufLen \in Nat \ {0} /\ BufLen >= 2
    /\ FifoLen \in Nat \ {0}
    /\ WriteThreshold \in 0..(FifoLen - 1) /\ ReadThreshold \in 0..(FifoLen - 1)
    /\ IntMax \in Nat /\ IntMax >= 4
    /\ DefaultTimeout \in 2..(IntMax - 2)
    /\ Timeouts \subseteq 0..IntMax
    /\ MaxCount \in Nat \ {0}
    /\ ByteMod \in Nat \ {0}
    /\ 0 \in Index /\ 0 \in Byte
BY JtagUartAssumption DEF Index, Byte

LEMMA CallTypes ==
    TypeOK => /\ call.pc \in {"idle", "close"} \cup Writing \cup Reading
              /\ call.count \in 0..MaxCount
              /\ call.nonblock \in BOOLEAN /\ call.moved \in BOOLEAN
              /\ call.in \in Index /\ call.out \in Index
BY DEF TypeOK

\* What a read copies is at most what it was asked for, and in one piece.
LEMMA CopyFits ==
    TypeOK => CopyLen \in Nat /\ CopyLen <= call.count /\ CopyLen <= BufLen - call.out
<1> SUFFICES ASSUME TypeOK
             PROVE  CopyLen \in Nat /\ CopyLen <= call.count /\ CopyLen <= BufLen - call.out
  OBVIOUS
<1> DEFINE f == filled(call.in, call.out)
<1>1. call.in \in Index /\ call.out \in Index /\ call.count \in 0..MaxCount
  BY CallTypes
<1>2. f \in 0..(BufLen - call.out)
  BY <1>1, FilledFits
<1>3. BufLen \in Nat /\ call.out \in Nat /\ call.count \in Nat
  BY <1>1, Constants DEF Index
<1> HIDE DEF f
<1>4. f \in Nat /\ f <= BufLen - call.out
  BY <1>2, <1>3
<1>5. Smaller(f, call.count) \in Nat /\ Smaller(f, call.count) <= f
      /\ Smaller(f, call.count) <= call.count
  BY <1>3, <1>4, SmallerFits
<1>6. CopyLen = Smaller(f, call.count)
  BY DEF CopyLen, f
<1> QED
  BY <1>3, <1>4, <1>5, <1>6

LEMMA OffTyped ==
    Off \in [pc: {"off", "control", "receive", "received", "transmit"},
            wi: BOOLEAN, ravail: BOOLEAN, space: 0..FifoLen]
<1>1. 0 \in 0..FifoLen
  BY Constants
<1> QED
  BY <1>1 DEF Off

LEMMA InitTyped == Init => TypeOK
<1> SUFFICES ASSUME Init PROVE TypeOK
  OBVIOUS
<1>1. NoCall \in [pc: {"idle", "close"} \cup Writing \cup Reading,
                  count: 0..MaxCount, nonblock: BOOLEAN, moved: BOOLEAN,
                  in: Index, out: Index]
  BY Constants DEF NoCall
<1>2. Off \in [pc: {"off", "control", "receive", "received", "transmit"},
               wi: BOOLEAN, ravail: BOOLEAN, space: 0..FifoLen]
  BY OffTyped
<1>3. << >> \in Seq(Byte) /\ Len(<< >>) = 0 /\ Len(<< >>) <= FifoLen
  BY EmptySeq, Constants
<1>4. timeout \in 2..IntMax /\ host_inactive \in 0..(IntMax - 2)
  BY Constants DEF Init
<1>5. irq_enable \subseteq {RE, WE}
  BY DEF Init
<1>6. tx_buf \in [Index -> Byte] /\ rx_buf \in [Index -> Byte]
  BY Constants DEF Init
<1> QED
  BY <1>1, <1>2, <1>3, <1>4, <1>5, <1>6, Constants DEF Init, TypeOK

\* The steps of the program keep the types.
LEMMA ProgramTyped == TypeOK /\ Program => TypeOK'
<1> SUFFICES ASSUME TypeOK, Program PROVE TypeOK'
  OBVIOUS
<1> DEFINE CallType == [pc: {"idle", "close"} \cup Writing \cup Reading,
                        count: 0..MaxCount, nonblock: BOOLEAN, moved: BOOLEAN,
                        in: Index, out: Index]
<1> DEFINE CallParts ==
        /\ call' \in CallType
        /\ irq_enable' \subseteq {RE, WE}
        /\ tx_in' \in Index /\ tx_buf' \in [Index -> Byte] /\ next_written' \in Byte
        /\ rx_out' \in Index /\ got' \in Seq(Byte)
        /\ timeout' \in 2..IntMax
<1>1. NoCall \in CallType
  BY Constants DEF NoCall
<1>2. /\ call \in CallType
      /\ irq_enable \subseteq {RE, WE}
      /\ tx_in \in Index /\ tx_out \in Index /\ tx_buf \in [Index -> Byte]
      /\ rx_in \in Index /\ rx_out \in Index /\ rx_buf \in [Index -> Byte]
      /\ next_written \in Byte /\ got \in Seq(Byte) /\ timeout \in 2..IntMax
  BY DEF TypeOK
<1>3. SUFFICES CallParts
  <2>1. /\ session' = session /\ wfifo' = wfifo /\ rfifo' = rfifo
        /\ pause_irq' = pause_irq /\ ac' = ac
        /\ tx_out' = tx_out /\ rx_in' = rx_in /\ rx_buf' = rx_buf
        /\ host_inactive' = host_inactive /\ handler' = handler
        /\ attached' = attached /\ next_given' = next_given /\ taken' = taken
    BY DEF Program, device, filledByHandler, host
  <2> QED
    BY <2>1 DEF TypeOK
<1>4. ASSUME NEW name, NEW label \in {"close"} \cup Writing \cup Reading, Enter(name, label)
      PROVE  CallParts
  <2>1. call' \in CallType
    BY <1>2, <1>1, <1>4 DEF Enter, NoCall
  <2> QED
    BY <1>2, <2>1, <1>4 DEF Enter, transmit, receive
<1>5. CASE WriteCall
  <2>1. "w_look" \in {"close"} \cup Writing \cup Reading
    BY DEF Writing
  <2> QED
    BY <1>2, <1>4, <1>5, <2>1 DEF WriteCall
<1>6. CASE WriteLook
  BY <1>2, <1>6 DEF WriteLook, transmit, receive, Writing
<1>7. CASE WritePut
  <2> DEFINE n == Smaller(room(call.in, call.out), call.count)
  <2>1. n \in Nat /\ n <= call.count
    <3>1. room(call.in, call.out) \in Nat /\ call.count \in Nat
      <4>1. call.in \in Index /\ call.out \in Index /\ call.count \in 0..MaxCount
        BY CallTypes
      <4>2. room(call.in, call.out) \in 0..(BufLen - call.in)
        BY <4>1, RoomFits
      <4>3. call.in \in Nat
        BY <4>1 DEF Index
      <4> QED
        BY <4>1, <4>2, <4>3, Constants
    <3> QED
      BY <3>1, SmallerFits
  <2> HIDE DEF n
  <2>2. call' \in CallType
    <3>1. call.count - n \in 0..MaxCount
      BY <2>1, CallTypes, Constants
    <3>2. call' = [call EXCEPT !.pc = "w_look", !.count = @ - n, !.moved = TRUE,
                       !.in = 0, !.out = 0]
      BY <1>7 DEF WritePut, n
    <3> QED
      BY <1>2, <3>1, <3>2, Constants DEF Writing
  <2>3. tx_in' \in Index /\ next_written' \in Byte
    <3>1. call.in + n \in Int /\ next_written + n \in Int
      BY <1>2, <2>1, CallTypes DEF Index, Byte
    <3>2. (call.in + n) % BufLen \in Index /\ (next_written + n) % ByteMod \in Byte
      BY <3>1, ModRange, Constants DEF Index, Byte
    <3> QED
      BY <1>7, <3>2 DEF WritePut, n
  <2>4. tx_buf' \in [Index -> Byte]
    <3> SUFFICES ASSUME NEW i \in Index
                 PROVE  (IF i \in call.in..(call.in + n - 1)
                         THEN (next_written + i - call.in) % ByteMod ELSE tx_buf[i]) \in Byte
      BY <1>2, <1>7 DEF WritePut, n
    <3>1. next_written + i - call.in \in Int
      BY <1>2, CallTypes, Constants DEF Index, Byte
    <3> QED
      BY <1>2, <3>1, ModRange, Constants DEF Byte
  <2> QED
    BY <1>2, <1>7, <2>2, <2>3, <2>4 DEF WritePut, receive
<1>8. CASE WriteKick
  BY <1>1, <1>2, <1>8 DEF WriteKick, Return, GoTo, transmit, receive, Writing
<1>9. CASE WriteSpinEnds
  BY <1>2, <1>9 DEF WriteSpinEnds, GoTo, transmit, receive, Writing
<1>10. CASE WriteTest
  BY <1>1, <1>2, <1>10, Constants DEF WriteTest, Return, transmit, receive, Writing
<1>11. CASE ReadCall
  <2>1. "r_look" \in {"close"} \cup Writing \cup Reading
    BY DEF Reading
  <2> QED
    BY <1>2, <1>4, <1>11, <2>1 DEF ReadCall
<1>12. CASE ReadLook
  BY <1>1, <1>2, <1>12 DEF ReadLook, Return, transmit, receive, Reading
<1>13. CopyLen \in Nat /\ CopyLen <= call.count /\ CopyLen <= BufLen - call.out
  BY CopyFits
<1>14. CASE ReadCopy
  <2>1. ASSUME NEW k \in 1..CopyLen
        PROVE  rx_buf[call.out + k - 1] \in Byte
    <3>1. call.out \in 0..(BufLen - 1)
      BY CallTypes DEF Index
    <3>2. call.out + k - 1 \in Index
      BY <1>13, <3>1, Constants DEF Index
    <3> QED
      BY <1>2, <3>2
  <2>2. got' = [k \in 1..CopyLen |-> rx_buf[call.out + k - 1]]
    BY <1>14 DEF ReadCopy
  <2>3. got' \in [1..CopyLen -> Byte]
    BY <2>1, <2>2
  <2>4. got' \in Seq(Byte)
    BY <1>13, <2>3, SeqDef
  <2> QED
    BY <1>2, <1>14, <2>4 DEF ReadCopy, GoTo, transmit, Reading
<1>15. CASE ReadAdvance
  <2>1. rx_out' \in Index
    <3>1. call.out + CopyLen \in Int
      BY <1>13, CallTypes DEF Index
    <3>2. (call.out + CopyLen) % BufLen \in Index
      BY <3>1, ModRange, Constants DEF Index
    <3> QED
      BY <1>15, <3>2 DEF ReadAdvance
  <2>2. call' \in CallType
    <3> DEFINE pc == IF call.count > CopyLen THEN "r_look" ELSE "r_enable"
    <3>1. pc \in {"idle", "close"} \cup Writing \cup Reading
      BY DEF Reading
    <3>2. call.count - CopyLen \in 0..MaxCount /\ 0 \in Index
      BY <1>13, CallTypes, Constants DEF Index
    <3>3. call' = [call EXCEPT !.count = @ - CopyLen, !.moved = TRUE, !.in = 0, !.out = 0,
                       !.pc = pc]
      BY <1>15 DEF ReadAdvance
    <3> HIDE DEF pc
    <3> QED
      BY <1>2, <3>1, <3>2, <3>3
  <2> QED
    BY <1>2, <1>15, <2>1, <2>2 DEF ReadAdvance, transmit
<1>16. CASE ReadSpinEnds
  BY <1>2, <1>16 DEF ReadSpinEnds, GoTo, transmit, receive, Reading
<1>17. CASE ReadTest
  BY <1>1, <1>2, <1>17, Constants DEF ReadTest, Return, transmit, receive, Reading
<1>18. CASE ReadEnable
  BY <1>2, <1>1, <1>18 DEF ReadEnable, Return, transmit, receive
<1>19. CASE CloseCall
  BY <1>2, <1>4, <1>19 DEF CloseCall
<1>20. CASE CloseEnds
  BY <1>2, <1>1, <1>20 DEF CloseEnds, Return, transmit, receive
<1>21. CASE SetTimeout
  BY <1>2, <1>21, Constants DEF SetTimeout, transmit, receive
<1> QED
  BY <1>5, <1>6, <1>7, <1>8, <1>9, <1>10, <1>11, <1>12, <1>14, <1>15, <1>16, <1>17,
     <1>18, <1>19, <1>20, <1>21 DEF Program

\* What the host may type in a clock fits in the FIFO.
LEMMA TypedFits ==
    ASSUME TypeOK, NEW typed \in Typed
    PROVE  /\ typed \in Seq(Byte) /\ Len(typed) \in {0, 1}
           /\ typed # << >> => Len(rfifo) < FifoLen
           /\ (next_given + Len(typed)) % ByteMod \in Byte
<1>1. next_given \in Byte
  BY DEF TypeOK
<1>2. typed = << >> \/ typed = <<next_given>>
  BY DEF Typed
<1>3. typed \in Seq(Byte) /\ Len(typed) \in {0, 1}
  <2>1. << >> \in Seq(Byte) /\ Len(<< >>) = 0
    BY EmptySeq
  <2>2. <<next_given>> \in Seq(Byte) /\ Len(<<next_given>>) = 1
    BY <1>1
  <2> QED
    BY <1>2, <2>1, <2>2
<1>4. typed # << >> => Len(rfifo) < FifoLen
  BY DEF Typed
<1>5. (next_given + Len(typed)) % ByteMod \in Byte
  <2>1. next_given + Len(typed) \in Int
    BY <1>1, <1>3, Constants DEF Byte
  <2> QED
    BY <2>1, ModRange, Constants DEF Byte
<1> QED
  BY <1>3, <1>4, <1>5

\* Reading the data register takes the first byte, if there is one.
LEMMA ReadDataTyped ==
    ASSUME TypeOK, NEW typed \in Typed, ReadData(typed)
    PROVE  /\ rfifo' \in Seq(Byte) /\ Len(rfifo') <= FifoLen
           /\ pause_irq' = FALSE /\ ac' \in BOOLEAN /\ next_given' \in Byte
<1> DEFINE rest == IF rfifo = << >> THEN << >> ELSE Tail(rfifo)
<1>1. rfifo \in Seq(Byte) /\ Len(rfifo) <= FifoLen /\ ac \in BOOLEAN
  BY DEF TypeOK
<1>2. rest \in Seq(Byte) /\ Len(rest) \in Nat /\ Len(rest) <= Len(rfifo)
  <2>1. CASE rfifo = << >>
    BY <1>1, <2>1, EmptySeq
  <2>2. CASE rfifo # << >>
    <3>1. Tail(rfifo) \in Seq(Byte) /\ Len(Tail(rfifo)) = Len(rfifo) - 1
      BY <1>1, <2>2, HeadTailProperties
    <3>2. Len(rfifo) \in Nat \ {0}
      BY <1>1, <2>2, EmptySeq
    <3> QED
      BY <2>2, <3>1, <3>2
  <2> QED
    BY <2>1, <2>2
<1>3. rfifo' = rest \o typed
  BY DEF ReadData
<1> HIDE DEF rest
<1>4. typed \in Seq(Byte) /\ Len(typed) \in {0, 1}
      /\ (typed # << >> => Len(rfifo) < FifoLen)
  BY TypedFits
<1>5. rest \o typed \in Seq(Byte) /\ Len(rest \o typed) = Len(rest) + Len(typed)
  BY <1>2, <1>4, ConcatProperties
<1>6. Len(rfifo) \in Nat /\ FifoLen \in Nat
  BY <1>1, LenProperties, Constants
<1>7. typed = << >> => Len(typed) = 0
  BY EmptySeq
<1>8. Len(rfifo') <= FifoLen
  BY <1>1, <1>2, <1>3, <1>4, <1>5, <1>6, <1>7
<1>9. next_given' \in Byte
  BY TypedFits DEF ReadData, Arrive
<1> QED
  BY <1>1, <1>3, <1>5, <1>8, <1>9 DEF ReadData, Arrive

\* A byte more is in the transmit FIFO only where there was room for it.
LEMMA WriteDataTyped ==
    ASSUME TypeOK, NEW b \in Byte, WriteData(b)
    PROVE  /\ wfifo' \in Seq(Byte) /\ Len(wfifo') <= FifoLen
           /\ Len(wfifo') <= Len(wfifo) + 1
<1>1. wfifo \in Seq(Byte) /\ Len(wfifo) <= FifoLen /\ Len(wfifo) \in Nat
  BY LenProperties DEF TypeOK
<1>2. Append(wfifo, b) \in Seq(Byte) /\ Len(Append(wfifo, b)) = Len(wfifo) + 1
  BY <1>1, AppendProperties
<1> QED
  BY <1>1, <1>2, Constants DEF WriteData

\* The steps of the handler keep the types.
LEMMA HandlerTyped == TypeOK /\ Handler => TypeOK'
<1> SUFFICES ASSUME TypeOK, Handler PROVE TypeOK'
  OBVIOUS
<1> DEFINE HandlerType ==
        [pc: {"off", "control", "receive", "received", "transmit"},
         wi: BOOLEAN, ravail: BOOLEAN, space: 0..FifoLen]
<1> DEFINE HandlerParts ==
        /\ handler' \in HandlerType
        /\ wfifo' \in Seq(Byte) /\ Len(wfifo') <= FifoLen
        /\ rfifo' \in Seq(Byte) /\ Len(rfifo') <= FifoLen
        /\ pause_irq' \in BOOLEAN /\ ac' \in BOOLEAN
        /\ irq_enable' \subseteq {RE, WE}
        /\ tx_out' \in Index /\ rx_in' \in Index /\ rx_buf' \in [Index -> Byte]
        /\ next_given' \in Byte
<1>1. /\ handler \in HandlerType
      /\ wfifo \in Seq(Byte) /\ Len(wfifo) <= FifoLen
      /\ rfifo \in Seq(Byte) /\ Len(rfifo) <= FifoLen
      /\ pause_irq \in BOOLEAN /\ ac \in BOOLEAN
      /\ irq_enable \subseteq {RE, WE}
      /\ tx_out \in Index /\ rx_in \in Index /\ rx_buf \in [Index -> Byte]
      /\ tx_buf \in [Index -> Byte] /\ next_given \in Byte
  BY DEF TypeOK
<1>2. SUFFICES HandlerParts
  <2>1. /\ session' = session /\ tx_in' = tx_in /\ tx_buf' = tx_buf
        /\ next_written' = next_written /\ rx_out' = rx_out /\ got' = got
        /\ timeout' = timeout /\ host_inactive' = host_inactive
        /\ call' = call /\ attached' = attached /\ taken' = taken
    BY DEF Handler, transmit, receive
  <2> QED
    BY <2>1 DEF TypeOK
<1>3. handler.space \in 0..FifoLen /\ handler.wi \in BOOLEAN
  BY <1>1
<1>4. CASE Interrupt
  <2>1. handler' \in HandlerType
    BY <1>4, OffTyped DEF Interrupt
  <2> QED
    BY <1>1, <1>4, <2>1 DEF Interrupt, device, filledByHandler
<1>5. CASE HandleControl
  <2>1. FifoLen - Len(wfifo) \in 0..FifoLen
    BY <1>1, LenProperties, Constants
  <2>2. ipen_AF \in BOOLEAN /\ ipen_AE \in BOOLEAN
    BY DEF ipen_AF, ipen_AE
  <2>3. Off \in HandlerType
    BY OffTyped
  <2>4. handler' \in HandlerType
    BY <1>5, <2>1, <2>2, <2>3, Constants DEF HandleControl
  <2> QED
    BY <1>1, <1>5, <2>4 DEF HandleControl, device, filledByHandler
<1>6. CASE HandleReceive
  <2>1. PICK typed \in Typed :
            /\ ReadData(typed)
            /\ handler' = [handler EXCEPT !.ravail = rfifo' # << >>,
                                !.pc = IF rfifo = << >> THEN "received" ELSE "receive"]
    BY <1>6 DEF HandleReceive
  <2>2. handler' \in HandlerType
    BY <1>1, <2>1
  <2>3. /\ rfifo' \in Seq(Byte) /\ Len(rfifo') <= FifoLen
        /\ pause_irq' = FALSE /\ ac' \in BOOLEAN /\ next_given' \in Byte
    BY <2>1, ReadDataTyped
  <2>4. rx_in' \in Index /\ rx_buf' \in [Index -> Byte]
    <3>1. CASE rfifo = << >>
      BY <1>1, <1>6, <3>1 DEF HandleReceive
    <3>2. CASE rfifo # << >>
      <4>1. Head(rfifo) \in Byte
        BY <1>1, <3>2, HeadTailProperties
      <4>2. (rx_in + 1) % BufLen \in Index
        BY <1>1, NextSlot
      <4> QED
        BY <1>1, <1>6, <3>2, <4>1, <4>2 DEF HandleReceive
    <3> QED
      BY <3>1, <3>2
  <2>5. wfifo' = wfifo /\ irq_enable' = irq_enable /\ tx_out' = tx_out
    BY <1>6 DEF HandleReceive
  <2> QED
    BY <1>1, <2>2, <2>3, <2>4, <2>5
<1>7. CASE HandleFull
  BY <1>1, <1>7 DEF HandleFull, device, filledByHandler
<1>8. CASE HandleReceived
  BY <1>1, <1>8 DEF HandleReceived, device, filledByHandler
<1>9. CASE HandleTransmit
  <2>1. handler' \in HandlerType
    <3>1. handler.space - 1 \in 0..FifoLen
      BY <1>3, <1>9, Constants DEF HandleTransmit
    <3>2. handler' = [handler EXCEPT !.space = handler.space - 1]
      BY <1>9 DEF HandleTransmit
    <3> QED
      BY <1>1, <3>1, <3>2
  <2>2. tx_buf[tx_out] \in Byte /\ (tx_out + 1) % BufLen \in Index
    BY <1>1, NextSlot
  <2>3. wfifo' \in Seq(Byte) /\ Len(wfifo') <= FifoLen
    BY <1>9, <2>2, WriteDataTyped DEF HandleTransmit
  <2> QED
    BY <1>1, <1>9, <2>1, <2>2, <2>3 DEF HandleTransmit
<1>10. CASE HandleTransmitted
  <2>1. handler' \in HandlerType
    BY <1>10, OffTyped DEF HandleTransmitted
  <2> QED
    BY <1>1, <1>10, <2>1 DEF HandleTransmitted, device, filledByHandler
<1> QED
  BY <1>4, <1>5, <1>6, <1>7, <1>8, <1>9, <1>10 DEF Handler

\* The time without a host is counted up to its limit.
LEMMA AlarmTyped == TypeOK /\ Alarm => TypeOK'
<1> SUFFICES ASSUME TypeOK, Alarm PROVE TypeOK'
  OBVIOUS
<1>1. host_inactive' \in 0..(IntMax - 2) /\ ac' \in BOOLEAN
  <2>1. host_inactive \in 0..(IntMax - 2) /\ IntMax \in Nat /\ IntMax >= 4
    BY Constants DEF TypeOK
  <2>2. \/ host_inactive' = 0
        \/ host_inactive < IntMax - 2 /\ host_inactive' = host_inactive + 1
        \/ host_inactive' = host_inactive
    BY DEF Alarm
  <2>3. host_inactive' \in 0..(IntMax - 2)
    BY <2>1, <2>2
  <2>4. ac' \in BOOLEAN
    BY DEF Alarm
  <2> QED
    BY <2>3, <2>4
<1>2. /\ session' = session /\ wfifo' = wfifo /\ rfifo' = rfifo
      /\ pause_irq' = pause_irq /\ irq_enable' = irq_enable
      /\ tx_in' = tx_in /\ tx_buf' = tx_buf /\ next_written' = next_written
      /\ rx_out' = rx_out /\ got' = got
      /\ tx_out' = tx_out /\ rx_in' = rx_in /\ rx_buf' = rx_buf
      /\ timeout' = timeout /\ call' = call /\ handler' = handler
      /\ attached' = attached /\ next_given' = next_given /\ taken' = taken
  BY DEF Alarm, transmit, receive, filledByHandler, host
<1> QED
  BY <1>1, <1>2 DEF TypeOK

\* What the host does keeps the types.
LEMMA HostTyped == TypeOK /\ Host => TypeOK'
<1> SUFFICES ASSUME TypeOK, Host PROVE TypeOK'
  OBVIOUS
<1> DEFINE HostParts ==
        /\ wfifo' \in Seq(Byte) /\ Len(wfifo') <= FifoLen
        /\ rfifo' \in Seq(Byte) /\ Len(rfifo') <= FifoLen
        /\ pause_irq' \in BOOLEAN /\ ac' \in BOOLEAN
        /\ attached' \in BOOLEAN /\ next_given' \in Byte /\ taken' \in Seq(Byte)
<1>1. /\ wfifo \in Seq(Byte) /\ Len(wfifo) <= FifoLen
      /\ rfifo \in Seq(Byte) /\ Len(rfifo) <= FifoLen
      /\ pause_irq \in BOOLEAN /\ ac \in BOOLEAN
      /\ attached \in BOOLEAN /\ next_given \in Byte /\ taken \in Seq(Byte)
  BY DEF TypeOK
<1>2. SUFFICES HostParts
  <2>1. /\ session' = session /\ irq_enable' = irq_enable
        /\ tx_in' = tx_in /\ tx_buf' = tx_buf /\ next_written' = next_written
        /\ rx_out' = rx_out /\ got' = got
        /\ tx_out' = tx_out /\ rx_in' = rx_in /\ rx_buf' = rx_buf
        /\ timeout' = timeout /\ host_inactive' = host_inactive
        /\ call' = call /\ handler' = handler
    BY DEF Host, transmit, receive, filledByHandler
  <2> QED
    BY <2>1 DEF TypeOK
<1>3. CASE HostGive
  <2>1. PICK typed \in Typed \ {<< >>} : rfifo' = rfifo \o typed /\ Arrive(typed)
    BY <1>3 DEF HostGive
  <2>2. typed \in Seq(Byte) /\ Len(typed) \in {0, 1} /\ Len(rfifo) < FifoLen
        /\ next_given' \in Byte /\ ac' \in BOOLEAN
    BY <1>1, <2>1, TypedFits DEF Arrive
  <2>3. rfifo' \in Seq(Byte) /\ Len(rfifo') = Len(rfifo) + Len(typed)
    BY <1>1, <2>1, <2>2, ConcatProperties
  <2>4. Len(rfifo) \in Nat /\ FifoLen \in Nat
    BY <1>1, LenProperties, Constants
  <2>5. Len(rfifo') <= FifoLen
    <3>1. Len(typed) <= 1 /\ Len(typed) \in Nat
      BY <2>2
    <3> HIDE DEF HostParts
    <3> QED
      BY <2>2, <2>3, <2>4, <3>1
  <2> QED
    BY <1>1, <1>3, <2>2, <2>3, <2>5 DEF HostGive
<1>4. CASE HostPause
  BY <1>1, <1>4 DEF HostPause, host
<1>5. CASE HostTake
  <2>1. /\ Head(wfifo) \in Byte /\ Tail(wfifo) \in Seq(Byte)
        /\ Len(Tail(wfifo)) = Len(wfifo) - 1
    BY <1>1, <1>5, HeadTailProperties DEF HostTake
  <2>2. Len(wfifo) \in Nat /\ FifoLen \in Nat
    BY <1>1, LenProperties, Constants
  <2>3. wfifo' \in Seq(Byte) /\ Len(wfifo') <= FifoLen
    BY <1>1, <1>5, <2>1, <2>2 DEF HostTake
  <2>4. taken' \in Seq(Byte)
    BY <1>5, <2>1 DEF HostTake
  <2> QED
    BY <1>1, <1>5, <2>3, <2>4 DEF HostTake
<1>6. CASE HostLeaves
  BY <1>1, <1>6 DEF HostLeaves, device
<1> QED
  BY <1>3, <1>4, <1>5, <1>6 DEF Host

\* Every variable of the driver and the device keeps its type, for every size
\* of the buffers and the FIFOs; the time without a host stays below INT_MAX - 1
\* (altera_avalon_jtag_uart_init.c:218).
THEOREM Typing == Spec => []TypeOK
<1>1. TypeOK /\ [Next]_vars => TypeOK'
  <2> SUFFICES ASSUME TypeOK, [Next]_vars PROVE TypeOK'
    OBVIOUS
  <2>1. CASE UNCHANGED vars
    BY <2>1 DEF TypeOK, vars, device, transmit, receive, filledByHandler, host
  <2> QED
    BY <2>1, ProgramTyped, HandlerTyped, AlarmTyped, HostTyped DEF Next
<1> QED
  BY <1>1, InitTyped, PTL DEF Spec

-----------------------------------------------------------------------------
(***************************************************************************)
(* Interrupts.  NoLostWakeup is not inductive: that the handler has a      *)
(* reason to disable RE rests on what it saw when it began.                *)
(***************************************************************************)

Sending == call.moved /\ call.pc \in {"w_look", "w_put", "w_kick"}
Draining == call.moved /\ call.pc \in {"r_look", "r_enable"}

SendWakes == tx_in # tx_out => WE \in irq_enable \/ Sending
ReceiveWakes == RE \notin irq_enable => rx_in # rx_out \/ Draining

\* The host pauses only after it has given something.
PauseMeansData == pause_irq => rfifo # << >>

\* The handler receives because there is something to receive, and it has
\* found the buffer filled where it leaves data behind.
HandlerHasReason ==
    /\ handler.pc = "receive" => rx_in # rx_out \/ rfifo # << >>
    /\ handler.pc = "received" /\ handler.ravail => rx_in # rx_out

WakeInv == SendWakes /\ ReceiveWakes /\ PauseMeansData /\ HandlerHasReason

LEMMA InitWakes == Init => WakeInv
BY DEF Init, WakeInv, SendWakes, ReceiveWakes, PauseMeansData, HandlerHasReason, Off

\* The program sets the interrupt again before its call ends.
LEMMA ProgramWakes == TypeOK /\ WakeInv /\ Program => WakeInv'
<1> SUFFICES ASSUME TypeOK, WakeInv, Program PROVE WakeInv'
  OBVIOUS
<1>1. /\ rfifo' = rfifo /\ pause_irq' = pause_irq /\ rx_in' = rx_in
      /\ tx_out' = tx_out /\ handler = Off /\ handler' = Off
  BY DEF Program, device, filledByHandler
<1>2. PauseMeansData' /\ HandlerHasReason'
  BY <1>1 DEF WakeInv, PauseMeansData, HandlerHasReason, Off
<1>3. SUFFICES SendWakes' /\ ReceiveWakes'
  BY <1>2 DEF WakeInv
<1>4. SendWakes /\ ReceiveWakes
  BY DEF WakeInv
<1>5. NoCall.moved = FALSE /\ NoCall.pc = "idle"
  BY DEF NoCall
<1>6. call \in [pc: {"idle", "close"} \cup Writing \cup Reading,
                count: 0..MaxCount, nonblock: BOOLEAN, moved: BOOLEAN,
                in: Index, out: Index]
      /\ irq_enable \subseteq {RE, WE} /\ rx_in \in Index /\ rx_out \in Index
  BY DEF TypeOK
<1> USE DEF SendWakes, ReceiveWakes, Sending, Draining
<1>7. ASSUME NEW name, NEW label, Enter(name, label)
      PROVE  SendWakes' /\ ReceiveWakes'
  BY <1>1, <1>4, <1>5, <1>7 DEF Enter, transmit, receive, NoCall
<1>8. CASE WriteCall \/ ReadCall \/ CloseCall
  BY <1>7, <1>8 DEF WriteCall, ReadCall, CloseCall
<1>9. CASE WriteLook
  BY <1>1, <1>4, <1>6, <1>9 DEF WriteLook, transmit, receive
<1>10. CASE WritePut
  BY <1>1, <1>4, <1>6, <1>10 DEF WritePut, receive
<1>11. CASE WriteKick
  BY <1>1, <1>4, <1>6, <1>11 DEF WriteKick, Return, GoTo, transmit, receive, NoCall, RE, WE
<1>12. CASE WriteSpinEnds
  BY <1>1, <1>4, <1>6, <1>12 DEF WriteSpinEnds, GoTo, transmit, receive
<1>13. CASE WriteTest
  BY <1>1, <1>4, <1>6, <1>13 DEF WriteTest, Return, transmit, receive, NoCall
<1>14. CASE ReadLook
  <2>1. filled(rx_in, rx_out) = 0 <=> rx_in = rx_out
    BY <1>6, FilledFits
  <2>2. filled(rx_in, rx_out) > 0 => rx_in # rx_out
    BY <2>1
  <2> QED
    BY <1>1, <1>4, <1>6, <1>14, <2>1, <2>2 DEF ReadLook, Return, transmit, receive, NoCall
<1>15. CASE ReadCopy
  BY <1>1, <1>4, <1>6, <1>15 DEF ReadCopy, GoTo, transmit
<1>16. CASE ReadAdvance
  BY <1>1, <1>4, <1>6, <1>16 DEF ReadAdvance, transmit
<1>17. CASE ReadSpinEnds
  BY <1>1, <1>4, <1>6, <1>17 DEF ReadSpinEnds, GoTo, transmit, receive
<1>18. CASE ReadTest
  BY <1>1, <1>4, <1>6, <1>18 DEF ReadTest, Return, transmit, receive, NoCall
<1>19. CASE ReadEnable
  BY <1>1, <1>4, <1>6, <1>19 DEF ReadEnable, Return, transmit, receive, NoCall, RE, WE
<1>20. CASE CloseEnds
  BY <1>1, <1>4, <1>6, <1>20 DEF CloseEnds, Return, transmit, receive, NoCall
<1>21. CASE SetTimeout
  BY <1>1, <1>4, <1>6, <1>21 DEF SetTimeout, transmit, receive
<1> QED
  BY <1>8, <1>9, <1>10, <1>11, <1>12, <1>13, <1>14, <1>15, <1>16, <1>17, <1>18,
     <1>19, <1>20, <1>21 DEF Program

\* The handler disables an interrupt only where nothing waits for it.
LEMMA HandlerWakes == TypeOK /\ WakeInv /\ Handler => WakeInv'
<1> SUFFICES ASSUME TypeOK, WakeInv, Handler PROVE WakeInv'
  OBVIOUS
<1>1. tx_in' = tx_in /\ rx_out' = rx_out /\ call' = call
  BY DEF Handler, transmit, receive
<1>2. SendWakes /\ ReceiveWakes /\ PauseMeansData /\ HandlerHasReason
  BY DEF WakeInv
<1>3. /\ handler \in [pc: {"off", "control", "receive", "received", "transmit"},
                      wi: BOOLEAN, ravail: BOOLEAN, space: 0..FifoLen]
      /\ irq_enable \subseteq {RE, WE} /\ rx_in \in Index /\ rx_out \in Index
      /\ rfifo \in Seq(Byte)
  BY DEF TypeOK
<1> USE DEF SendWakes, ReceiveWakes, Sending, Draining, PauseMeansData, HandlerHasReason
<1>4. CASE Interrupt
  BY <1>1, <1>2, <1>4 DEF Interrupt, Off, device, filledByHandler, WakeInv
<1>5. CASE HandleControl
  <2>1. ipen_AF => rfifo # << >>
    <3>1. fifo_AF => rfifo # << >>
      <4>1. ASSUME rfifo = << >> PROVE ~fifo_AF
        <5>1. Len(rfifo) = 0
          BY <4>1, EmptySeq
        <5> QED
          BY <5>1, Constants DEF fifo_AF
      <4> QED
        BY <4>1
    <3> QED
      BY <1>2, <3>1 DEF ipen_AF
  <2> QED
    BY <1>1, <1>2, <1>5, <2>1 DEF HandleControl, Off, device, filledByHandler, WakeInv
<1>6. CASE HandleReceive
  <2>1. PICK typed \in Typed :
            /\ ReadData(typed)
            /\ handler' = [handler EXCEPT !.ravail = rfifo' # << >>,
                                !.pc = IF rfifo = << >> THEN "received" ELSE "receive"]
    BY <1>6 DEF HandleReceive
  <2>2. /\ pause_irq' = FALSE /\ irq_enable' = irq_enable /\ tx_out' = tx_out
        /\ rx_in' = rx_in \/ rx_in' # rx_out
        /\ rfifo # << >> => rx_in' # rx_out
        /\ rfifo = << >> => rx_in' = rx_in
    BY <1>6, <2>1 DEF HandleReceive, ReadData
  <2>3. handler'.pc = IF rfifo = << >> THEN "received" ELSE "receive"
    BY <1>3, <2>1
  <2>4. HandlerHasReason'
    BY <1>1, <1>2, <1>6, <2>2, <2>3 DEF HandleReceive
  <2> QED
    BY <1>1, <1>2, <2>2, <2>4 DEF WakeInv
<1>7. CASE HandleFull
  <2>1. rx_in # rx_out
    BY <1>3, <1>7, NextSlot DEF HandleFull
  <2> QED
    BY <1>1, <1>2, <1>3, <1>7, <2>1 DEF HandleFull, device, filledByHandler, WakeInv
<1>8. CASE HandleReceived
  <2>1. handler'.pc \in {"transmit", "control"}
    BY <1>3, <1>8 DEF HandleReceived
  <2> QED
    BY <1>1, <1>2, <1>3, <1>8, <2>1
       DEF HandleReceived, device, filledByHandler, WakeInv, RE, WE
<1>9. CASE HandleTransmit
  <2>1. handler'.pc = "transmit"
    BY <1>3, <1>9 DEF HandleTransmit
  <2> QED
    BY <1>1, <1>2, <1>9, <2>1 DEF HandleTransmit, WakeInv
<1>10. CASE HandleTransmitted
  BY <1>1, <1>2, <1>3, <1>10
     DEF HandleTransmitted, device, filledByHandler, Off, WakeInv, RE, WE
<1> QED
  BY <1>4, <1>5, <1>6, <1>7, <1>8, <1>9, <1>10 DEF Handler

\* The host only adds to what waits for the handler.
LEMMA HostWakes == TypeOK /\ WakeInv /\ Host => WakeInv'
<1> SUFFICES ASSUME TypeOK, WakeInv, Host PROVE WakeInv'
  OBVIOUS
<1>1. /\ irq_enable' = irq_enable /\ tx_in' = tx_in /\ tx_out' = tx_out
      /\ rx_in' = rx_in /\ rx_out' = rx_out /\ call' = call /\ handler' = handler
  BY DEF Host, transmit, receive, filledByHandler
<1>2. PauseMeansData' /\ (rfifo # << >> => rfifo' # << >>)
  <2>1. CASE HostGive
    <3>1. PICK typed \in Typed \ {<< >>} : rfifo' = rfifo \o typed
      BY <2>1 DEF HostGive
    <3>2. rfifo \in Seq(Byte) /\ typed \in Seq(Byte) /\ Len(typed) \in {0, 1}
      BY <3>1, TypedFits DEF TypeOK
    <3>3. rfifo \o typed # << >>
      BY <3>1, <3>2, ConcatSimplifications!concIsEmpty
    <3> QED
      BY <3>1, <3>3 DEF PauseMeansData
  <2>2. CASE HostPause
    BY <2>2 DEF HostPause, WakeInv, PauseMeansData
  <2>3. CASE HostTake
    BY <2>3 DEF HostTake, WakeInv, PauseMeansData
  <2>4. CASE HostLeaves
    BY <2>4 DEF HostLeaves, device, WakeInv, PauseMeansData
  <2> QED
    BY <2>1, <2>2, <2>3, <2>4 DEF Host
<1> QED
  BY <1>1, <1>2 DEF WakeInv, SendWakes, ReceiveWakes, Sending, Draining, HandlerHasReason

LEMMA Waking == Spec => [](TypeOK /\ WakeInv)
<1>1. TypeOK /\ WakeInv /\ [Next]_vars => WakeInv'
  <2> SUFFICES ASSUME TypeOK, WakeInv, [Next]_vars PROVE WakeInv'
    OBVIOUS
  <2>1. CASE UNCHANGED vars
    BY <2>1 DEF WakeInv, SendWakes, ReceiveWakes, Sending, Draining, PauseMeansData,
                HandlerHasReason, vars, device, transmit, receive, filledByHandler, host
  <2>2. CASE Alarm
    BY <2>2 DEF Alarm, WakeInv, SendWakes, ReceiveWakes, Sending, Draining,
                PauseMeansData, HandlerHasReason, transmit, receive, filledByHandler, host
  <2> QED
    BY <2>1, <2>2, ProgramWakes, HandlerWakes, HostWakes DEF Next
<1> QED
  BY <1>1, InitWakes, Typing, PTL DEF Spec

\* An interrupt that is needed is never left disabled
\* (altera_avalon_jtag_uart_init.c:147 and :190 against read.c and write.c).
THEOREM Wakeups == Spec => []NoLostWakeup
<1>1. WakeInv => NoLostWakeup
  BY DEF WakeInv, SendWakes, ReceiveWakes, Sending, Draining, NoLostWakeup
<1> QED
  BY <1>1, Waking, PTL

-----------------------------------------------------------------------------
(***************************************************************************)
(* The transmit FIFO.                                                      *)
(***************************************************************************)

\* The space the handler has read of stays free while it receives first.
SpaceInv ==
    handler.pc \in {"receive", "received", "transmit"} =>
        handler.space <= FifoLen - Len(wfifo)

LEMMA SpaceKept == TypeOK /\ SpaceInv /\ Next => SpaceInv'
<1> SUFFICES ASSUME TypeOK, SpaceInv, Next PROVE SpaceInv'
  OBVIOUS
<1>1. /\ handler \in [pc: {"off", "control", "receive", "received", "transmit"},
                      wi: BOOLEAN, ravail: BOOLEAN, space: 0..FifoLen]
      /\ wfifo \in Seq(Byte) /\ Len(wfifo) \in Nat /\ Len(wfifo) <= FifoLen
      /\ FifoLen \in Nat /\ handler.space \in 0..FifoLen
      /\ tx_buf \in [Index -> Byte] /\ tx_out \in Index
  BY LenProperties, Constants DEF TypeOK
<1>2. CASE Program
  BY <1>2 DEF Program, device, SpaceInv
<1>3. CASE Alarm
  BY <1>3 DEF Alarm, SpaceInv
<1>4. CASE Host
  <2>1. handler' = handler
    BY <1>4 DEF Host
  <2>2. wfifo' = wfifo \/ Len(wfifo') = Len(wfifo) - 1
    <3>1. CASE HostTake
      BY <1>1, <3>1, HeadTailProperties DEF HostTake
    <3>2. CASE HostGive \/ HostPause \/ HostLeaves
      BY <3>2 DEF HostGive, HostPause, HostLeaves, device
    <3> QED
      BY <1>4, <3>1, <3>2 DEF Host
  <2> QED
    BY <1>1, <2>1, <2>2 DEF SpaceInv
<1>5. CASE Interrupt \/ HandleTransmitted
  BY <1>5 DEF Interrupt, HandleTransmitted, Off, SpaceInv
<1>6. CASE HandleControl
  <2>1. wfifo' = wfifo
    BY <1>6 DEF HandleControl, device
  <2>2. handler'.pc = "off" \/ handler'.space <= FifoLen - Len(wfifo)
    BY <1>1, <1>6 DEF HandleControl, Off
  <2> QED
    BY <2>1, <2>2 DEF SpaceInv
<1>7. CASE HandleReceive \/ HandleFull \/ HandleReceived
  <2>1. wfifo' = wfifo
    BY <1>7 DEF HandleReceive, HandleFull, HandleReceived, device
  <2>2. handler.pc \in {"receive", "received"}
    BY <1>7 DEF HandleReceive, HandleFull, HandleReceived
  <2>3. handler'.space = handler.space
    BY <1>1, <1>7 DEF HandleReceive, HandleFull, HandleReceived
  <2> QED
    BY <2>1, <2>2, <2>3 DEF SpaceInv
<1>8. CASE HandleTransmit
  <2>1. Len(wfifo') <= Len(wfifo) + 1 /\ Len(wfifo') \in Nat
    BY <1>1, <1>8, WriteDataTyped, LenProperties DEF HandleTransmit
  <2>2. handler'.space = handler.space - 1
    BY <1>1, <1>8 DEF HandleTransmit
  <2>3. handler.space <= FifoLen - Len(wfifo)
    BY <1>8 DEF HandleTransmit, SpaceInv
  <2> QED
    BY <1>1, <2>1, <2>2, <2>3 DEF SpaceInv
<1> QED
  BY <1>2, <1>3, <1>4, <1>5, <1>6, <1>7, <1>8 DEF Next, Handler

LEMMA Spacing == Spec => []SpaceInv
<1>1. Init => SpaceInv
  BY DEF Init, Off, SpaceInv
<1>2. TypeOK /\ SpaceInv /\ [Next]_vars => SpaceInv'
  BY SpaceKept DEF SpaceInv, vars, device
<1> QED
  BY <1>1, <1>2, Typing, PTL DEF Spec

\* No byte is written to a full FIFO, which would lose it
\* (altera_avalon_jtag_uart_init.c:170).
THEOREM NeverOverflows == Spec => []NoOverflow
<1>1. SpaceInv => NoOverflow
  BY DEF SpaceInv, NoOverflow
<1> QED
  BY <1>1, Spacing, PTL

-----------------------------------------------------------------------------
(***************************************************************************)
(* Sequences, and the channel's two steps.                                 *)
(***************************************************************************)

\* What is appended leaves what was there at its place.
LEMMA PrefixOfConcat ==
    ASSUME NEW S, NEW s \in Seq(S), NEW t \in Seq(S)
    PROVE  /\ Len(s) <= Len(s \o t)
           /\ SubSeq(s, 1, Len(s)) = SubSeq(s \o t, 1, Len(s))
<1>1. /\ s \o t \in Seq(S) /\ Len(s \o t) = Len(s) + Len(t)
      /\ \A i \in 1..(Len(s) + Len(t)) :
            (s \o t)[i] = IF i <= Len(s) THEN s[i] ELSE t[i - Len(s)]
  BY ConcatProperties
<1>2. Len(s) \in Nat /\ Len(t) \in Nat
  BY LenProperties
<1>3. SubSeq(s, 1, Len(s)) = s
  BY SubSeqFull
<1>4. \A i \in 1..Len(s) : (s \o t)[i] = s[i] /\ s[i] \in S
  BY <1>1, <1>2, ElementOfSeq
<1>5. /\ SubSeq(s \o t, 1, Len(s)) \in Seq(S)
      /\ Len(SubSeq(s \o t, 1, Len(s))) = IF 1 <= Len(s) THEN Len(s) - 1 + 1 ELSE 0
      /\ \A i \in 1..(Len(s) - 1 + 1) : SubSeq(s \o t, 1, Len(s))[i] = (s \o t)[1 + i - 1]
  <2>1. \A i \in 1..Len(s) : (s \o t)[i] \in S
    BY <1>4
  <2> QED
    BY <1>2, <2>1, SubSeqProperties
<1>6. Len(SubSeq(s \o t, 1, Len(s))) = Len(s)
  BY <1>2, <1>5
<1>7. \A i \in 1..Len(s) : SubSeq(s \o t, 1, Len(s))[i] = s[i]
  BY <1>2, <1>4, <1>5
<1>8. SubSeq(s \o t, 1, Len(s)) = s
  BY <1>5, <1>6, <1>7, SeqEqual
<1> QED
  BY <1>1, <1>2, <1>3, <1>8

\* A concatenation taken apart again.
LEMMA ConcatParts ==
    ASSUME NEW S, NEW s \in Seq(S), NEW t \in Seq(S), s # << >>
    PROVE  /\ Len(s) \in 1..Len(s \o t)
           /\ SubSeq(s \o t, 1, Len(s)) = s
           /\ SubSeq(s \o t, Len(s) + 1, Len(s \o t)) = t
<1>1. /\ s \o t \in Seq(S) /\ Len(s \o t) = Len(s) + Len(t)
      /\ \A i \in 1..(Len(s) + Len(t)) :
            (s \o t)[i] = IF i <= Len(s) THEN s[i] ELSE t[i - Len(s)]
  BY ConcatProperties
<1>2. Len(s) \in Nat \ {0} /\ Len(t) \in Nat
  BY LenProperties, EmptySeq
<1>3. SubSeq(s \o t, 1, Len(s)) = s
  BY PrefixOfConcat, SubSeqFull
<1> DEFINE rest == SubSeq(s \o t, Len(s) + 1, Len(s) + Len(t))
<1>4. /\ rest \in Seq(S)
      /\ Len(rest) = IF Len(s) + 1 <= Len(s) + Len(t)
                     THEN Len(s) + Len(t) - (Len(s) + 1) + 1 ELSE 0
      /\ \A i \in 1..(Len(s) + Len(t) - (Len(s) + 1) + 1) : rest[i] = (s \o t)[Len(s) + 1 + i - 1]
  <2>1. \A i \in 1..(Len(s) + Len(t)) : (s \o t)[i] \in S
    BY <1>1, ElementOfSeq
  <2>2. \A i \in (Len(s) + 1)..(Len(s) + Len(t)) : (s \o t)[i] \in S
    BY <1>2, <2>1
  <2> QED
    BY <1>2, <2>2, SubSeqProperties
<1> HIDE DEF rest
<1>5. Len(rest) = Len(t)
  BY <1>2, <1>4
<1>6. ASSUME NEW i \in 1..Len(t) PROVE rest[i] = t[i]
  <2>1. rest[i] = (s \o t)[Len(s) + i]
    <3>1. i \in 1..(Len(s) + Len(t) - (Len(s) + 1) + 1)
      BY <1>2
    <3>2. rest[i] = (s \o t)[Len(s) + 1 + i - 1]
      BY <1>4, <3>1
    <3>3. Len(s) + 1 + i - 1 = Len(s) + i
      BY <1>2
    <3> QED
      BY <3>2, <3>3, Zenon
  <2>2. (s \o t)[Len(s) + i] = t[Len(s) + i - Len(s)]
    BY <1>1, <1>2
  <2> QED
    BY <1>2, <2>1, <2>2
<1>7. rest = t
  BY <1>4, <1>5, <1>6, SeqEqual
<1> QED
  BY <1>1, <1>2, <1>3, <1>7 DEF rest

LEMMA Regroup == \A a, b, c \in Seq(Byte) : a \o (b \o c) = (a \o b) \o c
BY ConcatAssociative

LEMMA BytesParted ==
    \A s \in Seq(Byte) \ {<< >>}, t \in Seq(Byte) :
        /\ Len(s) \in 1..Len(s \o t)
        /\ SubSeq(s \o t, 1, Len(s)) = s
        /\ SubSeq(s \o t, Len(s) + 1, Len(s \o t)) = t
BY ConcatParts

\* Bytes appended are a step of the channel, or none.
LEMMA TxPuts ==
    ASSUME TxQueue \in Seq(Byte), NEW t \in Seq(Byte), TxQueue' = TxQueue \o t, taken' = taken
    PROVE  [Tx!Next]_(Tx!channel)
BY PrefixOfConcat DEF Tx!Next, Tx!Put, Tx!IsPrefix, Tx!channel

LEMMA RxPuts ==
    ASSUME RxQueue \in Seq(Byte), NEW t \in Seq(Byte), RxQueue' = RxQueue \o t, got' = got
    PROVE  [Rx!Next]_(Rx!channel)
BY PrefixOfConcat DEF Rx!Next, Rx!Put, Rx!IsPrefix, Rx!channel

\* And so are bytes the receiver takes from the front.
LEMMA TxGets ==
    ASSUME TxQueue' \in Seq(Byte), taken' \in Seq(Byte) \ {<< >>}, TxQueue = taken' \o TxQueue'
    PROVE  [Tx!Next]_(Tx!channel)
<1>1. /\ Len(taken') \in 1..Len(taken' \o TxQueue')
      /\ SubSeq(taken' \o TxQueue', 1, Len(taken')) = taken'
      /\ SubSeq(taken' \o TxQueue', Len(taken') + 1, Len(taken' \o TxQueue')) = TxQueue'
  BY BytesParted, Zenon
<1>2. Tx!Get
  BY <1>1, Zenon DEF Tx!Get
<1> QED
  BY <1>2 DEF Tx!Next

LEMMA RxGets ==
    ASSUME RxQueue' \in Seq(Byte), got' \in Seq(Byte) \ {<< >>}, RxQueue = got' \o RxQueue'
    PROVE  [Rx!Next]_(Rx!channel)
<1>1. /\ Len(got') \in 1..Len(got' \o RxQueue')
      /\ SubSeq(got' \o RxQueue', 1, Len(got')) = got'
      /\ SubSeq(got' \o RxQueue', Len(got') + 1, Len(got' \o RxQueue')) = RxQueue'
  BY BytesParted, Zenon
<1>2. Rx!Get
  BY <1>1, Zenon DEF Rx!Get
<1> QED
  BY <1>2 DEF Rx!Next

-----------------------------------------------------------------------------
(***************************************************************************)
(* The contents of a ring.                                                 *)
(***************************************************************************)

\* The bytes between out and in, and where the k-th of them is.
Held(o, i) == (BufLen + i - o) % BufLen
Slot(o, k) == (o + k - 1) % BufLen

LEMMA Wraps ==
    \A a \in 0..(2 * BufLen - 1) : a % BufLen = IF a < BufLen THEN a ELSE a - BufLen
<1> TAKE a \in 0..(2 * BufLen - 1)
<1>1. BufLen \in Nat \ {0}
  BY Constants
<1>2. CASE a < BufLen
  BY <1>1, <1>2
<1>3. CASE a >= BufLen
  <2>1. (a - BufLen) % BufLen = a - BufLen
    BY <1>1, <1>3
  <2> QED
    BY <1>1, <1>3, <2>1
<1> QED
  BY <1>1, <1>2, <1>3

LEMMA HeldIs ==
    ASSUME NEW o \in Index, NEW i \in Index
    PROVE  /\ Held(o, i) = IF i >= o THEN i - o ELSE BufLen + i - o
           /\ Held(o, i) \in 0..(BufLen - 1)
<1>1. BufLen \in Nat /\ o \in 0..(BufLen - 1) /\ i \in 0..(BufLen - 1)
  BY Constants DEF Index
<1>2. PICK a \in 0..(2 * BufLen - 1) : a = BufLen + i - o
  BY <1>1
<1>3. a % BufLen = IF a < BufLen THEN a ELSE a - BufLen
  BY Wraps
<1>4. Held(o, i) = a % BufLen
  BY <1>2 DEF Held
<1> QED
  BY <1>1, <1>2, <1>3, <1>4

LEMMA HeldRange ==
    ASSUME NEW o \in Index, NEW i \in Index
    PROVE  Held(o, i) \in Nat /\ Held(o, i) < BufLen /\ (Held(o, i) = 0 <=> o = i)
<1>1. BufLen \in Nat /\ o \in 0..(BufLen - 1) /\ i \in 0..(BufLen - 1)
  BY Constants DEF Index
<1>2. Held(o, i) = IF i >= o THEN i - o ELSE BufLen + i - o
  BY HeldIs
<1> QED
  BY <1>1, <1>2

LEMMA SlotIs ==
    ASSUME NEW o \in Index, NEW k \in 1..BufLen
    PROVE  /\ Slot(o, k) = IF o + k - 1 < BufLen THEN o + k - 1 ELSE o + k - 1 - BufLen
           /\ Slot(o, k) \in Index
<1>1. BufLen \in Nat /\ o \in 0..(BufLen - 1)
  BY Constants DEF Index
<1>2. PICK a \in 0..(2 * BufLen - 1) : a = o + k - 1
  BY <1>1
<1>3. a % BufLen = IF a < BufLen THEN a ELSE a - BufLen
  BY Wraps
<1>4. Slot(o, k) = a % BufLen
  BY <1>2 DEF Slot
<1> QED
  BY <1>1, <1>2, <1>3, <1>4 DEF Index

\* A pointer moved by n.
LEMMA MovedIs ==
    ASSUME NEW p \in Index, NEW n \in 0..BufLen
    PROVE  /\ (p + n) % BufLen = IF p + n < BufLen THEN p + n ELSE p + n - BufLen
           /\ (p + n) % BufLen \in Index
<1>1. BufLen \in Nat /\ p \in 0..(BufLen - 1)
  BY Constants DEF Index
<1>2. PICK a \in 0..(2 * BufLen - 1) : a = p + n
  BY <1>1
<1>3. a % BufLen = IF a < BufLen THEN a ELSE a - BufLen
  BY Wraps
<1> QED
  BY <1>1, <1>2, <1>3 DEF Index

LEMMA RingIs ==
    ASSUME NEW buf \in [Index -> Byte], NEW o \in Index, NEW i \in Index
    PROVE  /\ Ring(buf, o, i) \in Seq(Byte)
           /\ Len(Ring(buf, o, i)) = Held(o, i)
           /\ \A k \in 1..Held(o, i) : Ring(buf, o, i)[k] = buf[Slot(o, k)]
           /\ Ring(buf, o, i) = << >> <=> o = i
<1>1. Held(o, i) \in Nat /\ Held(o, i) < BufLen /\ (Held(o, i) = 0 <=> o = i)
  BY HeldRange
<1>2. Ring(buf, o, i) = [k \in 1..Held(o, i) |-> buf[Slot(o, k)]]
  BY DEF Ring, Held, Slot
<1>3. \A k \in 1..Held(o, i) : buf[Slot(o, k)] \in Byte
  BY <1>1, SlotIs, Constants
<1>4. Ring(buf, o, i) \in Seq(Byte) /\ Len(Ring(buf, o, i)) = Held(o, i)
  BY <1>1, <1>2, <1>3
<1>5. \A k \in 1..Held(o, i) : Ring(buf, o, i)[k] = buf[Slot(o, k)]
  BY <1>2
<1>6. Ring(buf, o, i) = << >> <=> Held(o, i) = 0
  BY <1>1, <1>4, EmptySeq
<1> QED
  BY <1>1, <1>4, <1>5, <1>6

\* A pointer out that moves over n bytes leaves the rest where it is.
LEMMA OutMoves ==
    ASSUME NEW o \in Index, NEW i \in Index, NEW n \in 0..Held(o, i)
    PROVE  /\ (o + n) % BufLen \in Index
           /\ Held((o + n) % BufLen, i) = Held(o, i) - n
           /\ \A k \in 1..(Held(o, i) - n) : Slot((o + n) % BufLen, k) = Slot(o, n + k)
<1>1. BufLen \in Nat /\ o \in 0..(BufLen - 1) /\ i \in 0..(BufLen - 1)
  BY Constants DEF Index
<1>2. /\ Held(o, i) = IF i >= o THEN i - o ELSE BufLen + i - o
      /\ Held(o, i) \in 0..(BufLen - 1)
  BY HeldIs
<1>3. n \in 0..BufLen
  BY <1>1, <1>2
<1> DEFINE p == (o + n) % BufLen
<1>4. p = (IF o + n < BufLen THEN o + n ELSE o + n - BufLen) /\ p \in Index
  BY <1>3, MovedIs
<1> HIDE DEF p
<1>5. Held(p, i) = IF i >= p THEN i - p ELSE BufLen + i - p
  BY <1>4, HeldIs
<1>6. Held(p, i) = Held(o, i) - n
  BY <1>1, <1>2, <1>4, <1>5 DEF Index
<1>7. ASSUME NEW k \in 1..(Held(o, i) - n) PROVE Slot(p, k) = Slot(o, n + k)
  <2>1. k \in 1..BufLen /\ n + k \in 1..BufLen
    BY <1>1, <1>2
  <2>2. Slot(p, k) = IF p + k - 1 < BufLen THEN p + k - 1 ELSE p + k - 1 - BufLen
    BY <1>4, <2>1, SlotIs
  <2>3. Slot(o, n + k) = IF o + (n + k) - 1 < BufLen THEN o + (n + k) - 1
                         ELSE o + (n + k) - 1 - BufLen
    BY <2>1, SlotIs
  <2> QED
    BY <1>1, <1>2, <1>4, <2>1, <2>2, <2>3 DEF Index
<1> QED
  BY <1>4, <1>6, <1>7 DEF p

\* A pointer in that moves over n free slots makes them the last of the bytes.
LEMMA InMoves ==
    ASSUME NEW o \in Index, NEW i \in Index, NEW n \in 0..(BufLen - 1 - Held(o, i)),
           i + n <= BufLen
    PROVE  /\ (i + n) % BufLen \in Index
           /\ Held(o, (i + n) % BufLen) = Held(o, i) + n
           /\ \A k \in 1..Held(o, i) : Slot(o, k) \notin i..(i + n - 1)
           /\ \A k \in 1..n : Slot(o, Held(o, i) + k) = i + k - 1
<1>1. BufLen \in Nat /\ o \in 0..(BufLen - 1) /\ i \in 0..(BufLen - 1)
  BY Constants DEF Index
<1>2. /\ Held(o, i) = IF i >= o THEN i - o ELSE BufLen + i - o
      /\ Held(o, i) \in 0..(BufLen - 1)
  BY HeldIs
<1>3. n \in 0..BufLen
  BY <1>1, <1>2
<1> DEFINE p == (i + n) % BufLen
<1>4. p = (IF i + n < BufLen THEN i + n ELSE i + n - BufLen) /\ p \in Index
  BY <1>3, MovedIs
<1> HIDE DEF p
<1>5. Held(o, p) = IF p >= o THEN p - o ELSE BufLen + p - o
  BY <1>4, HeldIs
<1>6. Held(o, p) = Held(o, i) + n
  BY <1>1, <1>2, <1>4, <1>5 DEF Index
<1>7. ASSUME NEW k \in 1..Held(o, i) PROVE Slot(o, k) \notin i..(i + n - 1)
  <2>1. k \in 1..BufLen
    BY <1>1, <1>2
  <2>2. Slot(o, k) = IF o + k - 1 < BufLen THEN o + k - 1 ELSE o + k - 1 - BufLen
    BY <2>1, SlotIs
  <2> QED
    BY <1>1, <1>2, <2>1, <2>2
<1>8. ASSUME NEW k \in 1..n PROVE Slot(o, Held(o, i) + k) = i + k - 1
  <2>1. Held(o, i) + k \in 1..BufLen
    BY <1>1, <1>2
  <2>2. Slot(o, Held(o, i) + k) =
            IF o + (Held(o, i) + k) - 1 < BufLen THEN o + (Held(o, i) + k) - 1
            ELSE o + (Held(o, i) + k) - 1 - BufLen
    BY <2>1, SlotIs
  <2> QED
    BY <1>1, <1>2, <2>1, <2>2
<1> QED
  BY <1>4, <1>6, <1>7, <1>8 DEF p

LEMMA RingParts ==
    \A buf \in [Index -> Byte], o, i \in Index :
        /\ Ring(buf, o, i) \in Seq(Byte) /\ Len(Ring(buf, o, i)) = Held(o, i)
        /\ \A k \in 1..Held(o, i) : Ring(buf, o, i)[k] = buf[Slot(o, k)]
BY RingIs

\* Bytes that lie in one piece from p on.
Piece(buf, p, n) == [k \in 1..n |-> buf[p + k - 1]]

LEMMA PieceIs ==
    ASSUME NEW buf \in [Index -> Byte], NEW p \in Index, NEW n \in Nat, p + n <= BufLen
    PROVE  /\ Piece(buf, p, n) \in Seq(Byte)
           /\ Len(Piece(buf, p, n)) = n
           /\ \A k \in 1..n : Piece(buf, p, n)[k] = buf[p + k - 1]
           /\ n > 0 => Piece(buf, p, n) # << >>
<1>1. \A k \in 1..n : p + k - 1 \in Index
  BY Constants DEF Index
<1>2. \A k \in 1..n : buf[p + k - 1] \in Byte
  BY <1>1
<1>3. Piece(buf, p, n) \in Seq(Byte) /\ Len(Piece(buf, p, n)) = n
  BY <1>2 DEF Piece
<1>4. \A k \in 1..n : Piece(buf, p, n)[k] = buf[p + k - 1]
  BY DEF Piece
<1>5. Len(<< >>) = 0
  OBVIOUS
<1> QED
  BY <1>3, <1>4, <1>5

LEMMA SinglePiece ==
    ASSUME NEW buf \in [Index -> Byte], NEW p \in Index
    PROVE  Piece(buf, p, 1) = <<buf[p]>>
<1>1. p \in Int
  BY Constants DEF Index
<1>2. Piece(buf, p, 1) = [k \in 1..1 |-> buf[p]]
  BY <1>1 DEF Piece
<1> QED
  BY <1>2

\* The first n bytes of a ring, in one piece, and the ring after them.
LEMMA RingTakes ==
    ASSUME NEW buf \in [Index -> Byte], NEW o \in Index, NEW i \in Index,
           NEW n \in 1..Held(o, i), o + n <= BufLen
    PROVE  /\ Piece(buf, o, n) \in Seq(Byte) \ {<< >>}
           /\ Ring(buf, (o + n) % BufLen, i) \in Seq(Byte)
           /\ Ring(buf, o, i) = Piece(buf, o, n) \o Ring(buf, (o + n) % BufLen, i)
<1> DEFINE p == (o + n) % BufLen
           first == Piece(buf, o, n)
           rest == Ring(buf, p, i)
<1>1. BufLen \in Nat /\ o \in 0..(BufLen - 1) /\ Held(o, i) \in 0..(BufLen - 1)
      /\ n \in Nat /\ n >= 1 /\ n \in 0..Held(o, i)
  BY HeldIs, Constants DEF Index
<1>2. /\ p \in Index /\ Held(p, i) = Held(o, i) - n
      /\ \A k \in 1..(Held(o, i) - n) : Slot(p, k) = Slot(o, n + k)
  BY <1>1, OutMoves
<1> HIDE DEF p
<1>3. /\ rest \in Seq(Byte) /\ Len(rest) = Held(o, i) - n
      /\ \A k \in 1..(Held(o, i) - n) : rest[k] = buf[Slot(o, n + k)]
  <2>1. /\ rest \in Seq(Byte) /\ Len(rest) = Held(p, i)
        /\ \A k \in 1..Held(p, i) : rest[k] = buf[Slot(p, k)]
    BY <1>2, RingParts, Zenon
  <2> HIDE DEF rest
  <2> QED
    BY <1>2, <2>1
<1>4. /\ Ring(buf, o, i) \in Seq(Byte) /\ Len(Ring(buf, o, i)) = Held(o, i)
      /\ \A k \in 1..Held(o, i) : Ring(buf, o, i)[k] = buf[Slot(o, k)]
  BY RingParts, Zenon
<1>5. \A k \in 1..n : first[k] = buf[o + k - 1]
  BY <1>1, PieceIs
<1>6. first \in Seq(Byte) /\ Len(first) = n
  BY <1>1, PieceIs
<1>7. first # << >>
  BY <1>1, PieceIs
<1> HIDE DEF first, rest
<1>8. /\ first \o rest \in Seq(Byte) /\ Len(first \o rest) = Held(o, i)
      /\ \A k \in 1..Held(o, i) :
            (first \o rest)[k] = IF k <= n THEN first[k] ELSE rest[k - n]
  <2>1. /\ first \o rest \in Seq(Byte) /\ Len(first \o rest) = Len(first) + Len(rest)
        /\ \A k \in 1..(Len(first) + Len(rest)) :
              (first \o rest)[k] = IF k <= Len(first) THEN first[k] ELSE rest[k - Len(first)]
    BY <1>3, <1>6, ConcatProperties
  <2>2. Len(first) + Len(rest) = Held(o, i)
    BY <1>1, <1>3, <1>6
  <2> QED
    BY <1>6, <2>1, <2>2
<1>9. ASSUME NEW k \in 1..Held(o, i) PROVE Ring(buf, o, i)[k] = (first \o rest)[k]
  <2>1. CASE k <= n
    <3>1. k \in 1..BufLen /\ k \in 1..n /\ o + k - 1 < BufLen
      BY <1>1, <2>1
    <3>2. Slot(o, k) = o + k - 1
      BY <3>1, SlotIs
    <3>3. Ring(buf, o, i)[k] = buf[o + k - 1]
      BY <1>4, <3>2
    <3>4. (first \o rest)[k] = first[k] /\ first[k] = buf[o + k - 1]
      BY <1>5, <1>8, <2>1, <3>1
    <3> QED
      BY <3>3, <3>4
  <2>2. CASE ~(k <= n)
    <3>1. k - n \in 1..(Held(o, i) - n) /\ n + (k - n) = k /\ ~(k <= n)
      BY <1>1, <2>2
    <3>2. rest[k - n] = buf[Slot(o, n + (k - n))]
      BY <1>3, <3>1
    <3>3. (first \o rest)[k] = rest[k - n]
      BY <1>8, <3>1
    <3>4. Ring(buf, o, i)[k] = buf[Slot(o, k)]
      BY <1>4
    <3> QED
      BY <3>1, <3>2, <3>3, <3>4
  <2> QED
    BY <2>1, <2>2
<1>10. Ring(buf, o, i) = first \o rest
  BY <1>4, <1>8, <1>9, SeqEqual
<1> QED
  BY <1>3, <1>6, <1>7, <1>10 DEF first, rest, p

\* Bytes stored in free slots, in one piece, come after all others.
LEMMA RingGrows ==
    ASSUME NEW buf \in [Index -> Byte], NEW now \in [Index -> Byte],
           NEW o \in Index, NEW i \in Index,
           NEW n \in 0..(BufLen - 1 - Held(o, i)), i + n <= BufLen,
           \A j \in Index : j \notin i..(i + n - 1) => now[j] = buf[j]
    PROVE  /\ Piece(now, i, n) \in Seq(Byte)
           /\ Ring(now, o, (i + n) % BufLen) = Ring(buf, o, i) \o Piece(now, i, n)
<1> DEFINE p == (i + n) % BufLen
           last == Piece(now, i, n)
           before == Ring(buf, o, i)
<1>1. BufLen \in Nat /\ i \in 0..(BufLen - 1) /\ Held(o, i) \in 0..(BufLen - 1) /\ n \in Nat
  BY HeldIs, Constants DEF Index
<1>2. /\ p \in Index /\ Held(o, p) = Held(o, i) + n
      /\ \A k \in 1..Held(o, i) : Slot(o, k) \notin i..(i + n - 1)
      /\ \A k \in 1..n : Slot(o, Held(o, i) + k) = i + k - 1
  BY InMoves
<1> HIDE DEF p
<1>3. /\ before \in Seq(Byte) /\ Len(before) = Held(o, i)
      /\ \A k \in 1..Held(o, i) : before[k] = buf[Slot(o, k)]
  BY RingIs
<1>4. /\ Ring(now, o, p) \in Seq(Byte) /\ Len(Ring(now, o, p)) = Held(o, i) + n
      /\ \A k \in 1..(Held(o, i) + n) : Ring(now, o, p)[k] = now[Slot(o, k)]
  BY <1>2, RingIs
<1>5. \A k \in 1..n : last[k] = now[i + k - 1]
  BY <1>1, PieceIs
<1>6. last \in Seq(Byte) /\ Len(last) = n
  BY <1>1, PieceIs
<1> HIDE DEF last, before
<1>7. /\ before \o last \in Seq(Byte) /\ Len(before \o last) = Held(o, i) + n
      /\ \A k \in 1..(Held(o, i) + n) :
            (before \o last)[k] = IF k <= Held(o, i) THEN before[k] ELSE last[k - Held(o, i)]
  <2>1. /\ before \o last \in Seq(Byte) /\ Len(before \o last) = Len(before) + Len(last)
        /\ \A k \in 1..(Len(before) + Len(last)) :
              (before \o last)[k] = IF k <= Len(before) THEN before[k] ELSE last[k - Len(before)]
    BY <1>3, <1>6, ConcatProperties
  <2> QED
    BY <1>3, <1>6, <2>1
<1>8. ASSUME NEW k \in 1..(Held(o, i) + n) PROVE Ring(now, o, p)[k] = (before \o last)[k]
  <2>1. CASE k <= Held(o, i)
    <3>1. k \in 1..Held(o, i) /\ k \in 1..BufLen
      BY <1>1, <2>1
    <3>2. Slot(o, k) \in Index /\ Slot(o, k) \notin i..(i + n - 1)
      BY <1>2, <3>1, SlotIs
    <3> QED
      BY <1>3, <1>4, <1>7, <3>1, <3>2
  <2>2. CASE ~(k <= Held(o, i))
    <3> DEFINE m == k - Held(o, i)
    <3>1. m \in 1..n /\ Held(o, i) + m = k /\ ~(k <= Held(o, i))
      BY <1>1, <2>2
    <3>2. Slot(o, k) = i + m - 1
      BY <1>2, <3>1
    <3>3. Ring(now, o, p)[k] = now[i + m - 1]
      BY <1>4, <3>2
    <3>4. (before \o last)[k] = last[m]
      BY <1>7, <3>1
    <3>5. last[m] = now[i + m - 1]
      BY <1>5, <3>1
    <3> QED
      BY <3>3, <3>4, <3>5
  <2> QED
    BY <2>1, <2>2
<1>9. Ring(now, o, p) = before \o last
  BY <1>4, <1>7, <1>8, SeqEqual
<1> QED
  BY <1>6, <1>9 DEF last, before, p

LEMMA RingGrowsByOne ==
    ASSUME NEW buf \in [Index -> Byte], NEW o \in Index, NEW i \in Index, NEW b \in Byte,
           1 \in 0..(BufLen - 1 - Held(o, i)), i + 1 <= BufLen
    PROVE  Ring([buf EXCEPT ![i] = b], o, (i + 1) % BufLen) = Ring(buf, o, i) \o <<b>>
<1> DEFINE now == [buf EXCEPT ![i] = b]
<1>1. now \in [Index -> Byte] /\ now[i] = b /\ \A j \in Index : j # i => now[j] = buf[j]
  OBVIOUS
<1>2. \A j \in Index : j \notin i..(i + 1 - 1) => now[j] = buf[j]
  BY <1>1, Constants DEF Index
<1> HIDE DEF now
<1>3. Ring(now, o, (i + 1) % BufLen) = Ring(buf, o, i) \o Piece(now, i, 1)
  BY <1>1, <1>2, RingGrows
<1>4. Piece(now, i, 1) = <<b>>
  BY <1>1, SinglePiece
<1> QED
  BY <1>3, <1>4 DEF now

-----------------------------------------------------------------------------
(***************************************************************************)
(* Order.  The program works with copies of the handler's pointers; they   *)
(* only ever err on the safe side.                                         *)
(***************************************************************************)

\* What write takes to be free is free, also after the handler has sent more.
WritesBehind ==
    call.pc = "w_put" =>
        /\ call.in = tx_in
        /\ room(call.in, call.out) < BufLen - Held(tx_out, tx_in)

\* What read takes to be filled is filled, also after the handler has received
\* more; and read goes on only where something is still asked for.
ReadsBehind ==
    /\ call.pc \in {"r_copy", "r_advance"} =>
        /\ call.out = rx_out
        /\ filled(call.in, call.out) \in 1..Held(rx_out, rx_in)
    /\ call.pc \in {"r_look", "r_copy", "r_spin", "r_test"} => call.count > 0

OrderInv == WritesBehind /\ ReadsBehind

LEMMA RoomIsFree ==
    ASSUME NEW i \in Index, NEW o \in Index
    PROVE  room(i, o) < BufLen - Held(o, i)
<1>1. BufLen \in Nat /\ o \in 0..(BufLen - 1) /\ i \in 0..(BufLen - 1)
  BY Constants DEF Index
<1>2. Held(o, i) = IF i >= o THEN i - o ELSE BufLen + i - o
  BY HeldIs
<1> QED
  BY <1>1, <1>2 DEF room

LEMMA FilledIsHeld ==
    ASSUME NEW i \in Index, NEW o \in Index
    PROVE  filled(i, o) \in 0..Held(o, i)
<1>1. BufLen \in Nat /\ o \in 0..(BufLen - 1) /\ i \in 0..(BufLen - 1)
  BY Constants DEF Index
<1>2. Held(o, i) = IF i >= o THEN i - o ELSE BufLen + i - o
  BY HeldIs
<1> QED
  BY <1>1, <1>2 DEF filled

\* A buffer the handler does not find full has a slot left beside the unused one.
LEMMA NotFull ==
    ASSUME NEW i \in Index, NEW o \in Index, (i + 1) % BufLen # o
    PROVE  /\ 1 \in 0..(BufLen - 1 - Held(o, i))
           /\ i + 1 <= BufLen
<1>1. BufLen \in Nat /\ BufLen >= 2 /\ o \in 0..(BufLen - 1) /\ i \in 0..(BufLen - 1)
  BY Constants DEF Index
<1>2. Held(o, i) = IF i >= o THEN i - o ELSE BufLen + i - o
  BY HeldIs
<1>3. 1 \in 0..BufLen
  BY <1>1
<1>4. (i + 1) % BufLen = IF i + 1 < BufLen THEN i + 1 ELSE i + 1 - BufLen
  BY <1>3, MovedIs
<1> QED
  BY <1>1, <1>2, <1>4

LEMMA InitOrder == Init => OrderInv
BY DEF Init, NoCall, OrderInv, WritesBehind, ReadsBehind

LEMMA ProgramOrder == TypeOK /\ OrderInv /\ Program => OrderInv'
<1> SUFFICES ASSUME TypeOK, OrderInv, Program PROVE OrderInv'
  OBVIOUS
<1>1. tx_out' = tx_out /\ rx_in' = rx_in
  BY DEF Program, filledByHandler
<1>2. /\ call \in [pc: {"idle", "close"} \cup Writing \cup Reading,
                   count: 0..MaxCount, nonblock: BOOLEAN, moved: BOOLEAN,
                   in: Index, out: Index]
      /\ tx_in \in Index /\ tx_out \in Index /\ rx_in \in Index /\ rx_out \in Index
  BY DEF TypeOK
<1> USE DEF OrderInv, WritesBehind, ReadsBehind
<1>3. ASSUME NEW name, NEW label \in {"w_look", "r_look", "close"}, Enter(name, label)
      PROVE  OrderInv'
  <2>1. PICK n \in 1..MaxCount, nb \in BOOLEAN :
            call' = [NoCall EXCEPT !.pc = label, !.count = n, !.nonblock = nb]
    BY <1>3 DEF Enter
  <2>2. call'.pc = label /\ call'.count = n /\ n > 0
    BY <2>1, Constants DEF NoCall
  <2> QED
    BY <2>2, <1>3
<1>4. CASE WriteCall \/ ReadCall \/ CloseCall
  BY <1>3, <1>4 DEF WriteCall, ReadCall, CloseCall
<1>5. ASSUME call' = NoCall PROVE OrderInv'
  BY <1>5 DEF NoCall
<1>6. CASE WriteLook
  <2>1. /\ call'.pc \in {"w_put", "w_kick"} /\ call'.in = tx_in /\ call'.out = tx_out
        /\ tx_in' = tx_in
    BY <1>2, <1>6 DEF WriteLook, transmit
  <2>2. room(tx_in, tx_out) < BufLen - Held(tx_out, tx_in)
    BY <1>2, RoomIsFree
  <2>3. WritesBehind'
    BY <1>1, <2>1, <2>2
  <2> QED
    BY <2>1, <2>3
<1>7. CASE WritePut
  BY <1>2, <1>7 DEF WritePut
<1>8. CASE WriteKick
  BY <1>2, <1>5, <1>8 DEF WriteKick, Return, GoTo
<1>9. CASE WriteSpinEnds
  BY <1>2, <1>9 DEF WriteSpinEnds, GoTo
<1>10. CASE WriteTest
  BY <1>2, <1>5, <1>10 DEF WriteTest, Return
<1>11. CASE ReadLook
  <2>1. CASE call' = NoCall
    BY <1>5, <2>1
  <2>2. CASE call' # NoCall
    <3>1. /\ call' = [call EXCEPT !.in = rx_in, !.out = rx_out,
                          !.pc = IF filled(rx_in, rx_out) > 0 THEN "r_copy"
                                 ELSE IF call.moved THEN "r_enable" ELSE "r_spin"]
          /\ rx_out' = rx_out
      BY <1>11, <2>2 DEF ReadLook, Return, receive
    <3>2. /\ call'.in = rx_in /\ call'.out = rx_out /\ call'.count = call.count
          /\ call'.pc \in {"r_copy", "r_enable", "r_spin"}
          /\ call'.pc = "r_copy" => filled(rx_in, rx_out) > 0
      BY <1>2, <3>1
    <3>3. filled(rx_in, rx_out) \in 0..Held(rx_out, rx_in) /\ Held(rx_out, rx_in) \in Nat
      BY <1>2, FilledIsHeld, HeldIs, Constants
    <3>4. call'.pc = "r_copy" => filled(rx_in, rx_out) \in 1..Held(rx_out, rx_in)
      BY <3>2, <3>3
    <3>5. call.count > 0
      BY <1>11 DEF ReadLook
    <3> QED
      BY <1>1, <3>1, <3>2, <3>4, <3>5
  <2> QED
    BY <2>1, <2>2
<1>12. CASE ReadCopy
  <2>1. /\ call' = [call EXCEPT !.pc = "r_advance"] /\ rx_out' = rx_out
        /\ call.pc = "r_copy"
    BY <1>12 DEF ReadCopy, GoTo
  <2>2. call'.pc = "r_advance" /\ call'.in = call.in /\ call'.out = call.out
    BY <1>2, <2>1
  <2> QED
    BY <1>1, <2>1, <2>2
<1>13. CASE ReadAdvance
  <2>1. CopyLen \in Nat /\ CopyLen <= call.count
    BY CopyFits
  <2>2. call'.pc = (IF call.count > CopyLen THEN "r_look" ELSE "r_enable")
        /\ call'.count = call.count - CopyLen
    BY <1>2, <1>13 DEF ReadAdvance
  <2>3. call.count \in Nat
    BY <1>2, Constants
  <2> QED
    BY <2>1, <2>2, <2>3
<1>14. CASE ReadSpinEnds
  BY <1>2, <1>14 DEF ReadSpinEnds, GoTo
<1>15. CASE ReadTest
  BY <1>2, <1>5, <1>15 DEF ReadTest, Return
<1>16. CASE ReadEnable \/ CloseEnds
  BY <1>5, <1>16 DEF ReadEnable, CloseEnds, Return
<1>17. CASE SetTimeout
  BY <1>1, <1>17 DEF SetTimeout, transmit, receive, NoCall
<1> QED
  BY <1>4, <1>6, <1>7, <1>8, <1>9, <1>10, <1>11, <1>12, <1>13, <1>14, <1>15, <1>16,
     <1>17 DEF Program

LEMMA HandlerOrder == TypeOK /\ OrderInv /\ Handler => OrderInv'
<1> SUFFICES ASSUME TypeOK, OrderInv, Handler PROVE OrderInv'
  OBVIOUS
<1>1. call' = call /\ tx_in' = tx_in /\ rx_out' = rx_out
  BY DEF Handler, transmit, receive
<1>2. /\ call.in \in Index /\ call.out \in Index
      /\ tx_in \in Index /\ tx_out \in Index /\ rx_in \in Index /\ rx_out \in Index
  BY DEF TypeOK
<1>3. /\ Held(tx_out, tx_in) \in Nat /\ Held(rx_out, rx_in) \in Nat /\ BufLen \in Nat
      /\ room(call.in, call.out) \in Int
  <2>1. room(call.in, call.out) \in 0..(BufLen - call.in) /\ call.in \in Int
    BY <1>2, RoomFits DEF Index
  <2> QED
    BY <1>2, <2>1, HeldRange, Constants
<1>4. Held(tx_out', tx_in) <= Held(tx_out, tx_in) /\ Held(tx_out', tx_in) \in Int
  <2>1. CASE HandleTransmit
    <3>1. tx_out' = (tx_out + 1) % BufLen /\ tx_out # tx_in
      BY <2>1 DEF HandleTransmit
    <3>2. 1 \in 0..Held(tx_out, tx_in)
      <4>1. Held(tx_out, tx_in) # 0
        BY <1>2, <3>1, HeldRange
      <4> QED
        BY <1>3, <4>1
    <3>3. Held(tx_out', tx_in) = Held(tx_out, tx_in) - 1
      BY <1>2, <3>1, <3>2, OutMoves
    <3> QED
      BY <1>3, <3>3
  <2>2. CASE ~HandleTransmit
    <3>1. tx_out' = tx_out
      BY <2>2 DEF Handler, Interrupt, HandleControl, HandleReceive, HandleFull,
                  HandleReceived, HandleTransmitted, filledByHandler
    <3> QED
      BY <1>3, <3>1
  <2> QED
    BY <2>1, <2>2
<1>5. Held(rx_out, rx_in') >= Held(rx_out, rx_in) /\ Held(rx_out, rx_in') \in Int
  <2>1. CASE HandleReceive /\ rfifo # << >>
    <3>1. rx_in' = (rx_in + 1) % BufLen /\ (rx_in + 1) % BufLen # rx_out
      BY <2>1 DEF HandleReceive
    <3>2. 1 \in 0..(BufLen - 1 - Held(rx_out, rx_in)) /\ rx_in + 1 <= BufLen
      BY <1>2, <3>1, NotFull
    <3>3. Held(rx_out, rx_in') = Held(rx_out, rx_in) + 1
      BY <1>2, <3>1, <3>2, InMoves
    <3> QED
      BY <1>3, <3>3
  <2>2. CASE ~(HandleReceive /\ rfifo # << >>)
    <3>1. rx_in' = rx_in
      BY <2>2 DEF Handler, Interrupt, HandleControl, HandleReceive, HandleFull,
                  HandleReceived, HandleTransmit, HandleTransmitted, filledByHandler
    <3> QED
      BY <1>3, <3>1
  <2> QED
    BY <2>1, <2>2
<1>6. WritesBehind'
  <2> SUFFICES ASSUME call.pc = "w_put"
               PROVE  call.in = tx_in /\ room(call.in, call.out) < BufLen - Held(tx_out', tx_in)
    BY <1>1 DEF WritesBehind
  <2>1. call.in = tx_in /\ room(call.in, call.out) < BufLen - Held(tx_out, tx_in)
    BY DEF OrderInv, WritesBehind
  <2> QED
    BY <1>3, <1>4, <2>1
<1>7. ReadsBehind'
  <2>1. call.pc \in {"r_copy", "r_advance"} =>
            filled(call.in, call.out) \in 1..Held(rx_out, rx_in')
    BY <1>3, <1>5 DEF OrderInv, ReadsBehind
  <2> QED
    BY <1>1, <2>1 DEF OrderInv, ReadsBehind
<1> QED
  BY <1>6, <1>7 DEF OrderInv

LEMMA Ordered == Spec => []OrderInv
<1>1. TypeOK /\ OrderInv /\ [Next]_vars => OrderInv'
  <2> SUFFICES ASSUME TypeOK, OrderInv, [Next]_vars PROVE OrderInv'
    OBVIOUS
  <2>1. CASE UNCHANGED vars \/ Alarm \/ Host
    <3>1. /\ call' = call /\ tx_in' = tx_in /\ tx_out' = tx_out
          /\ rx_in' = rx_in /\ rx_out' = rx_out
      BY <2>1 DEF vars, Alarm, Host, transmit, receive, filledByHandler
    <3> QED
      BY <3>1 DEF OrderInv, WritesBehind, ReadsBehind
  <2> QED
    BY <2>1, ProgramOrder, HandlerOrder DEF Next
<1> QED
  BY <1>1, InitOrder, Typing, PTL DEF Spec

-----------------------------------------------------------------------------
(***************************************************************************)
(* Both directions implement FifoChannel.                                  *)
(***************************************************************************)

\* Where the bytes begin that the program has not got yet.
RxFrom == IF call.pc = "r_advance" THEN (call.out + CopyLen) % BufLen ELSE rx_out

LEMMA RingEmpty == \A buf \in [Index -> Byte], o \in Index : Ring(buf, o, o) = << >>
BY RingIs

LEMMA HeadAndTail ==
    ASSUME NEW S, NEW s \in Seq(S), s # << >>
    PROVE  /\ Head(s) \in S /\ <<Head(s)>> \in Seq(S) /\ Tail(s) \in Seq(S)
           /\ s = <<Head(s)>> \o Tail(s)
<1>1. /\ Head(s) \in S /\ Tail(s) \in Seq(S) /\ Len(Tail(s)) = Len(s) - 1
      /\ \A i \in 1..Len(Tail(s)) : Tail(s)[i] = s[i + 1]
  BY HeadTailProperties
<1>2. Len(s) \in Nat \ {0}
  BY EmptySeq
<1>3. <<Head(s)>> \in Seq(S) /\ Len(<<Head(s)>>) = 1 /\ <<Head(s)>>[1] = Head(s)
  BY <1>1
<1>4. Head(s) = s[1]
  BY <1>2
<1>5. /\ <<Head(s)>> \o Tail(s) \in Seq(S)
      /\ Len(<<Head(s)>> \o Tail(s)) = Len(<<Head(s)>>) + Len(Tail(s))
      /\ \A i \in 1..(Len(<<Head(s)>>) + Len(Tail(s))) :
            (<<Head(s)>> \o Tail(s))[i] =
                IF i <= Len(<<Head(s)>>) THEN <<Head(s)>>[i] ELSE Tail(s)[i - Len(<<Head(s)>>)]
  BY <1>1, <1>3, ConcatProperties
<1>6. Len(<<Head(s)>> \o Tail(s)) = Len(s)
  BY <1>1, <1>2, <1>3, <1>5
<1>7. ASSUME NEW i \in 1..Len(s) PROVE s[i] = (<<Head(s)>> \o Tail(s))[i]
  <2>1. (<<Head(s)>> \o Tail(s))[i] = IF i <= 1 THEN <<Head(s)>>[i] ELSE Tail(s)[i - 1]
    BY <1>1, <1>2, <1>3, <1>5
  <2>2. CASE i = 1
    BY <1>3, <1>4, <2>1, <2>2
  <2>3. CASE i # 1
    <3>1. ~(i <= 1) /\ i - 1 \in 1..Len(Tail(s)) /\ (i - 1) + 1 = i
      BY <1>1, <1>2, <2>3
    <3>2. Tail(s)[i - 1] = s[i]
      BY <1>1, <3>1
    <3> QED
      BY <2>1, <3>1, <3>2
  <2> QED
    BY <2>2, <2>3
<1>8. s = <<Head(s)>> \o Tail(s)
  BY <1>5, <1>6, <1>7, SeqEqual
<1> QED
  BY <1>1, <1>3, <1>8

LEMMA Queues ==
    TypeOK => /\ TxQueue \in Seq(Byte)
              /\ RxFrom \in Index /\ RxQueue = Ring(rx_buf, RxFrom, rx_in) \o rfifo
              /\ RxQueue \in Seq(Byte)
<1> SUFFICES ASSUME TypeOK
             PROVE  /\ TxQueue \in Seq(Byte)
                    /\ RxFrom \in Index /\ RxQueue = Ring(rx_buf, RxFrom, rx_in) \o rfifo
                    /\ RxQueue \in Seq(Byte)
  OBVIOUS
<1>1. /\ wfifo \in Seq(Byte) /\ rfifo \in Seq(Byte)
      /\ tx_in \in Index /\ tx_out \in Index /\ tx_buf \in [Index -> Byte]
      /\ rx_in \in Index /\ rx_out \in Index /\ rx_buf \in [Index -> Byte]
      /\ call.out \in Index
  BY DEF TypeOK
<1>2. RxFrom \in Index
  <2>1. CopyLen \in Nat /\ CopyLen <= BufLen - call.out
    BY CopyFits
  <2>2. CopyLen \in 0..BufLen
    BY <1>1, <2>1, Constants DEF Index
  <2>3. (call.out + CopyLen) % BufLen \in Index
    BY <1>1, <2>2, MovedIs
  <2> QED
    BY <1>1, <2>3 DEF RxFrom
<1>3. Ring(tx_buf, tx_out, tx_in) \in Seq(Byte) /\ Ring(rx_buf, RxFrom, rx_in) \in Seq(Byte)
  BY <1>1, <1>2, RingIs
<1>4. RxQueue = Ring(rx_buf, RxFrom, rx_in) \o rfifo
  BY DEF RxQueue, RxFrom
<1> QED
  BY <1>1, <1>2, <1>3, <1>4, ConcatProperties DEF TxQueue

LEMMA QueuesLater == TypeOK' => TxQueue' \in Seq(Byte) /\ RxQueue' \in Seq(Byte)
<1>1. TypeOK => TxQueue \in Seq(Byte) /\ RxQueue \in Seq(Byte)
  BY Queues
<1>2. (TypeOK => TxQueue \in Seq(Byte) /\ RxQueue \in Seq(Byte))'
  BY <1>1, PTL
<1> QED
  BY <1>2

\* What write puts in comes last.
LEMMA PutFits ==
    TypeOK /\ OrderInv /\ Program /\ WritePut =>
        \E t \in Seq(Byte) : TxQueue' = TxQueue \o t
<1> SUFFICES ASSUME TypeOK, OrderInv, Program, WritePut
             PROVE  \E t \in Seq(Byte) : TxQueue' = TxQueue \o t
  OBVIOUS
<1> DEFINE n == Smaller(room(call.in, call.out), call.count)
           before == Ring(tx_buf, tx_out, tx_in)
           last == Piece(tx_buf', tx_in, n)
<1>1. /\ call.in = tx_in /\ call.in \in Index /\ call.out \in Index /\ tx_in \in Index
      /\ tx_out \in Index /\ tx_buf \in [Index -> Byte] /\ wfifo \in Seq(Byte)
      /\ call.count \in Nat
      /\ room(call.in, call.out) < BufLen - Held(tx_out, tx_in)
  BY Constants DEF TypeOK, WritePut, OrderInv, WritesBehind
<1>2. room(call.in, call.out) \in 0..(BufLen - call.in)
  BY <1>1, RoomFits
<1>3. BufLen \in Nat /\ tx_in \in 0..(BufLen - 1) /\ Held(tx_out, tx_in) \in Nat
  BY <1>1, HeldRange, Constants DEF Index
<1>4. room(call.in, call.out) \in Nat
  BY <1>1, <1>2, <1>3
<1>5. n \in Nat /\ n <= room(call.in, call.out)
  BY <1>1, <1>4, SmallerFits
<1>6. /\ tx_in' = (tx_in + n) % BufLen
      /\ tx_buf' = [i \in Index |->
            IF i \in tx_in..(tx_in + n - 1)
            THEN (next_written + i - tx_in) % ByteMod ELSE tx_buf[i]]
  BY <1>1 DEF WritePut
<1> HIDE DEF n
<1>7. n \in 0..(BufLen - 1 - Held(tx_out, tx_in)) /\ tx_in + n <= BufLen
  BY <1>1, <1>2, <1>3, <1>5
<1>8. \A j \in Index : j \notin tx_in..(tx_in + n - 1) => tx_buf'[j] = tx_buf[j]
  BY <1>6
<1>9. tx_buf' \in [Index -> Byte]
  BY ProgramTyped DEF TypeOK
<1>10. last \in Seq(Byte) /\ Ring(tx_buf', tx_out, (tx_in + n) % BufLen) = before \o last
  <2>1. tx_buf \in [Index -> Byte] /\ tx_in \in Index /\ tx_out \in Index
    BY <1>1
  <2> QED
    BY <1>7, <1>8, <1>9, <2>1, RingGrows
<1>11. before \in Seq(Byte)
  BY <1>1, RingIs
<1>12. wfifo' = wfifo /\ tx_out' = tx_out
  BY DEF Program, device, filledByHandler
<1>13. TxQueue' = wfifo \o (before \o last)
  BY <1>6, <1>10, <1>12 DEF TxQueue
<1>14. TxQueue = wfifo \o before
  BY DEF TxQueue
<1> HIDE DEF before, last
<1>15. wfifo \o (before \o last) = (wfifo \o before) \o last
  <2>1. wfifo \in Seq(Byte) /\ last \in Seq(Byte)
    BY <1>1, <1>10
  <2> QED
    BY <1>11, <2>1, Regroup, Zenon
<1> QED
  BY <1>10, <1>13, <1>14, <1>15

\* What read copies comes first.
LEMMA CopyTakes ==
    TypeOK /\ OrderInv /\ Program /\ ReadCopy =>
        got' \in Seq(Byte) \ {<< >>} /\ RxQueue = got' \o RxQueue'
<1> SUFFICES ASSUME TypeOK, OrderInv, Program, ReadCopy
             PROVE  got' \in Seq(Byte) \ {<< >>} /\ RxQueue = got' \o RxQueue'
  OBVIOUS
<1>1. /\ call.pc = "r_copy" /\ call.out = rx_out /\ call.count > 0
      /\ filled(call.in, call.out) \in 1..Held(rx_out, rx_in)
  BY DEF ReadCopy, OrderInv, ReadsBehind
<1>2. /\ call.in \in Index /\ call.out \in Index /\ rx_in \in Index /\ rx_out \in Index
      /\ rx_buf \in [Index -> Byte] /\ rfifo \in Seq(Byte) /\ call.count \in Nat
      /\ call \in [pc: {"idle", "close"} \cup Writing \cup Reading,
                   count: 0..MaxCount, nonblock: BOOLEAN, moved: BOOLEAN,
                   in: Index, out: Index]
  BY Constants DEF TypeOK
<1>3. Held(rx_out, rx_in) \in Nat
  BY <1>2, HeldRange
<1>4. CopyLen \in 1..Held(rx_out, rx_in)
  <2>1. CopyLen = IF filled(call.in, call.out) < call.count
                  THEN filled(call.in, call.out) ELSE call.count
    BY DEF CopyLen, Smaller
  <2> QED
    BY <1>1, <1>2, <1>3, <2>1
<1>5. rx_out + CopyLen <= BufLen
  <2>1. CopyLen <= BufLen - call.out
    BY CopyFits
  <2> QED
    BY <1>1, <1>2, <1>3, <1>4, <2>1, Constants DEF Index
<1>6. /\ Piece(rx_buf, rx_out, CopyLen) \in Seq(Byte) \ {<< >>}
      /\ Ring(rx_buf, (rx_out + CopyLen) % BufLen, rx_in) \in Seq(Byte)
      /\ Ring(rx_buf, rx_out, rx_in) =
            Piece(rx_buf, rx_out, CopyLen) \o Ring(rx_buf, (rx_out + CopyLen) % BufLen, rx_in)
  BY <1>2, <1>4, <1>5, RingTakes
<1>7. got' = Piece(rx_buf, rx_out, CopyLen)
  BY <1>1 DEF ReadCopy, Piece
<1>8. /\ call'.pc = "r_advance" /\ call'.out = call.out /\ CopyLen' = CopyLen
      /\ rx_in' = rx_in /\ rx_buf' = rx_buf /\ rfifo' = rfifo
  <2>1. call' = [call EXCEPT !.pc = "r_advance"]
    BY DEF ReadCopy, GoTo
  <2>2. call'.in = call.in /\ call'.out = call.out /\ call'.count = call.count
        /\ call'.pc = "r_advance"
    BY <1>2, <2>1
  <2> QED
    BY <2>2 DEF Program, device, filledByHandler, CopyLen
<1>9. RxQueue' = Ring(rx_buf, (rx_out + CopyLen) % BufLen, rx_in) \o rfifo
  BY <1>1, <1>8 DEF RxQueue
<1>10. RxQueue = Ring(rx_buf, rx_out, rx_in) \o rfifo
  BY <1>1 DEF RxQueue
<1>11. RxQueue = got' \o RxQueue'
  <2> DEFINE p == Piece(rx_buf, rx_out, CopyLen)
             r == Ring(rx_buf, (rx_out + CopyLen) % BufLen, rx_in)
  <2>1. p \in Seq(Byte) /\ r \in Seq(Byte) /\ rfifo \in Seq(Byte)
    BY <1>2, <1>6
  <2>2. RxQueue = (p \o r) \o rfifo
    BY <1>6, <1>10
  <2>3. got' \o RxQueue' = p \o (r \o rfifo)
    BY <1>7, <1>9
  <2> HIDE DEF p, r
  <2> QED
    BY <2>1, <2>2, <2>3, Regroup
<1> QED
  BY <1>6, <1>7, <1>11

\* Only the copy hands bytes over; the pointer that follows it does not.
LEMMA ProgramQueues ==
    TypeOK /\ OrderInv /\ Program => [Tx!Next]_(Tx!channel) /\ [Rx!Next]_(Rx!channel)
<1> SUFFICES ASSUME TypeOK, OrderInv, Program
             PROVE  [Tx!Next]_(Tx!channel) /\ [Rx!Next]_(Rx!channel)
  OBVIOUS
<1>1. TypeOK'
  BY ProgramTyped
<1>2. /\ wfifo' = wfifo /\ rfifo' = rfifo /\ tx_out' = tx_out /\ rx_in' = rx_in
      /\ rx_buf' = rx_buf /\ taken' = taken
  BY DEF Program, device, filledByHandler, host
<1>3. call \in [pc: {"idle", "close"} \cup Writing \cup Reading,
                count: 0..MaxCount, nonblock: BOOLEAN, moved: BOOLEAN,
                in: Index, out: Index]
  BY DEF TypeOK
<1>4. [Tx!Next]_(Tx!channel)
  <2>1. CASE WritePut
    BY <1>2, <2>1, PutFits, Queues, TxPuts
  <2>2. CASE ~WritePut
    <3>1. UNCHANGED transmit
      BY <2>2 DEF Program, WriteCall, WriteLook, WriteKick, WriteSpinEnds, WriteTest,
                  ReadCall, ReadLook, ReadCopy, ReadAdvance, ReadSpinEnds, ReadTest,
                  ReadEnable, CloseCall, CloseEnds, SetTimeout, Enter
    <3> QED
      BY <1>2, <3>1 DEF transmit, TxQueue, Tx!channel
  <2> QED
    BY <2>1, <2>2
<1>5. [Rx!Next]_(Rx!channel)
  <2>1. CASE ReadCopy
    <3>1. RxQueue' \in Seq(Byte)
      BY <1>1, QueuesLater
    <3> QED
      BY <2>1, <3>1, CopyTakes, RxGets
  <2>2. CASE ReadAdvance
    <3>1. call'.pc # "r_advance"
      BY <1>3, <2>2 DEF ReadAdvance
    <3>2. RxQueue' = RxQueue /\ got' = got
      BY <1>2, <2>2, <3>1 DEF ReadAdvance, RxQueue
    <3> QED
      BY <3>2 DEF Rx!channel
  <2>3. CASE ~ReadCopy /\ ~ReadAdvance
    <3> DEFINE Idle == UNCHANGED receive /\ call.pc # "r_advance" /\ call'.pc # "r_advance"
    <3> SUFFICES Idle
      BY <1>2 DEF receive, RxQueue, Rx!channel
    <3>1. CASE WriteCall
      BY <3>1 DEF WriteCall, Enter, NoCall
    <3>2. CASE ReadCall
      BY <3>2 DEF ReadCall, Enter, NoCall
    <3>3. CASE CloseCall
      BY <3>3 DEF CloseCall, Enter, NoCall
    <3>4. CASE WriteLook
      BY <1>3, <3>4 DEF WriteLook
    <3>5. CASE WritePut
      BY <1>3, <3>5 DEF WritePut
    <3>6. CASE WriteKick
      BY <1>3, <3>6 DEF WriteKick, Return, GoTo, NoCall
    <3>7. CASE WriteSpinEnds
      BY <1>3, <3>7 DEF WriteSpinEnds, GoTo
    <3>8. CASE WriteTest
      <4>1. call' = NoCall \/ call'.pc = "w_look"
        BY <1>3, <3>8 DEF WriteTest, Return
      <4>2. NoCall.pc = "idle"
        BY DEF NoCall
      <4> QED
        BY <3>8, <4>1, <4>2 DEF WriteTest
    <3>9. CASE ReadLook
      <4>1. call' = NoCall \/ call'.pc \in {"r_copy", "r_enable", "r_spin"}
        BY <1>3, <3>9 DEF ReadLook, Return
      <4> QED
        BY <3>9, <4>1 DEF ReadLook, NoCall
    <3>10. CASE ReadSpinEnds
      BY <1>3, <3>10 DEF ReadSpinEnds, GoTo
    <3>11. CASE ReadTest
      <4>1. call' = NoCall \/ call'.pc = "r_look"
        BY <1>3, <3>11 DEF ReadTest, Return
      <4>2. NoCall.pc = "idle"
        BY DEF NoCall
      <4> QED
        BY <3>11, <4>1, <4>2 DEF ReadTest
    <3>12. CASE ReadEnable
      BY <3>12 DEF ReadEnable, Return, NoCall
    <3>13. CASE CloseEnds
      BY <3>13 DEF CloseEnds, Return, NoCall
    <3>14. CASE SetTimeout
      BY <3>14 DEF SetTimeout, NoCall
    <3> QED
      BY <2>3, <3>1, <3>2, <3>3, <3>4, <3>5, <3>6, <3>7, <3>8, <3>9, <3>10, <3>11, <3>12,
         <3>13, <3>14 DEF Program
  <2> QED
    BY <2>1, <2>2, <2>3
<1> QED
  BY <1>4, <1>5

\* The host fills the FIFO it gives to, and only takes from the other.
LEMMA TypedPuts ==
    ASSUME TypeOK, NEW typed \in Typed, rfifo' = rfifo \o typed,
           UNCHANGED <<call, rx_in, rx_out, rx_buf, got>>
    PROVE  [Rx!Next]_(Rx!channel)
<1> DEFINE ring == Ring(rx_buf, RxFrom, rx_in)
<1>1. RxFrom \in Index /\ RxQueue = ring \o rfifo /\ RxQueue \in Seq(Byte)
  BY Queues
<1>2. rfifo \in Seq(Byte) /\ typed \in Seq(Byte) /\ ring \in Seq(Byte)
  BY <1>1, TypedFits, RingIs DEF TypeOK
<1>3. RxQueue' = ring \o rfifo'
  BY DEF RxQueue, RxFrom, CopyLen
<1> HIDE DEF ring
<1>4. RxQueue' = RxQueue \o typed
  BY <1>1, <1>2, <1>3, Regroup
<1> QED
  BY <1>1, <1>2, <1>4, RxPuts

LEMMA HostQueues ==
    TypeOK /\ Host => [Tx!Next]_(Tx!channel) /\ [Rx!Next]_(Rx!channel)
<1> SUFFICES ASSUME TypeOK, Host
             PROVE  [Tx!Next]_(Tx!channel) /\ [Rx!Next]_(Rx!channel)
  OBVIOUS
<1>1. /\ tx_in' = tx_in /\ tx_out' = tx_out /\ tx_buf' = tx_buf
      /\ UNCHANGED <<call, rx_in, rx_out, rx_buf, got>>
  BY DEF Host, transmit, receive, filledByHandler
<1>2. CASE HostGive
  <2>1. PICK typed \in Typed \ {<< >>} : rfifo' = rfifo \o typed /\ Arrive(typed)
    BY <1>2 DEF HostGive
  <2>2. [Rx!Next]_(Rx!channel)
    BY <1>1, <2>1, TypedPuts
  <2>3. UNCHANGED Tx!channel
    BY <1>1, <1>2 DEF HostGive, TxQueue, Tx!channel
  <2> QED
    BY <2>2, <2>3
<1>3. CASE HostTake
  <2> DEFINE ring == Ring(tx_buf, tx_out, tx_in)
  <2>1. wfifo \in Seq(Byte) /\ wfifo # << >> /\ ring \in Seq(Byte)
    BY <1>3, RingIs DEF TypeOK, HostTake
  <2>2. /\ <<Head(wfifo)>> \in Seq(Byte) /\ Tail(wfifo) \in Seq(Byte)
        /\ wfifo = <<Head(wfifo)>> \o Tail(wfifo)
    BY <2>1, HeadAndTail
  <2>3. wfifo' = Tail(wfifo) /\ taken' = <<Head(wfifo)>>
    BY <1>3 DEF HostTake
  <2>4. TxQueue = wfifo \o ring /\ TxQueue' = Tail(wfifo) \o ring
    BY <1>1, <2>3 DEF TxQueue
  <2> HIDE DEF ring
  <2>5. TxQueue = taken' \o TxQueue'
    BY <2>1, <2>2, <2>3, <2>4, Regroup
  <2>6. TxQueue' \in Seq(Byte)
    BY <2>1, <2>2, <2>4, ConcatProperties
  <2>7. taken' # << >>
    BY <2>3
  <2>8. [Tx!Next]_(Tx!channel)
    BY <2>2, <2>3, <2>5, <2>6, <2>7, TxGets
  <2>9. UNCHANGED Rx!channel
    BY <1>1, <1>3 DEF HostTake, RxQueue, CopyLen, Rx!channel
  <2> QED
    BY <2>8, <2>9
<1>4. CASE HostPause \/ HostLeaves
  <2>1. wfifo' = wfifo /\ rfifo' = rfifo /\ taken' = taken
    BY <1>4 DEF HostPause, HostLeaves, device, host
  <2> QED
    BY <1>1, <2>1 DEF TxQueue, RxQueue, CopyLen, Tx!channel, Rx!channel
<1> QED
  BY <1>2, <1>3, <1>4 DEF Host

\* What the program has taken out already leaves the ring no fuller.
LEMMA RoomToReceive ==
    TypeOK /\ OrderInv /\ (rx_in + 1) % BufLen # rx_out =>
        1 \in 0..(BufLen - 1 - Held(RxFrom, rx_in)) /\ rx_in + 1 <= BufLen
<1> SUFFICES ASSUME TypeOK, OrderInv, (rx_in + 1) % BufLen # rx_out
             PROVE  1 \in 0..(BufLen - 1 - Held(RxFrom, rx_in)) /\ rx_in + 1 <= BufLen
  OBVIOUS
<1>1. /\ rx_in \in Index /\ rx_out \in Index /\ RxFrom \in Index /\ BufLen \in Nat
      /\ Held(rx_out, rx_in) \in Nat /\ Held(RxFrom, rx_in) \in Nat
  BY Queues, HeldRange, Constants DEF TypeOK
<1>2. 1 \in 0..(BufLen - 1 - Held(rx_out, rx_in)) /\ rx_in + 1 <= BufLen
  BY <1>1, NotFull
<1>3. Held(RxFrom, rx_in) <= Held(rx_out, rx_in)
  <2>1. CASE call.pc = "r_advance"
    <3>1. call.out = rx_out /\ filled(call.in, call.out) \in 1..Held(rx_out, rx_in)
          /\ call.count \in Nat
      BY <2>1, Constants DEF OrderInv, ReadsBehind, TypeOK
    <3>2. CopyLen = IF filled(call.in, call.out) < call.count
                    THEN filled(call.in, call.out) ELSE call.count
      BY DEF CopyLen, Smaller
    <3>3. CopyLen \in 0..Held(rx_out, rx_in)
      BY <1>1, <3>1, <3>2
    <3>4. RxFrom = (rx_out + CopyLen) % BufLen
      BY <2>1, <3>1 DEF RxFrom
    <3>5. Held(RxFrom, rx_in) = Held(rx_out, rx_in) - CopyLen
      BY <1>1, <3>3, <3>4, OutMoves
    <3> QED
      BY <1>1, <3>3, <3>5
  <2>2. CASE call.pc # "r_advance"
    BY <1>1, <2>2 DEF RxFrom
  <2> QED
    BY <2>1, <2>2
<1> QED
  BY <1>1, <1>2, <1>3

\* Between the rings and the FIFOs the handler moves bytes, and keeps their order.
LEMMA HandlerQueues ==
    TypeOK /\ OrderInv /\ SpaceInv /\ Handler =>
        [Tx!Next]_(Tx!channel) /\ [Rx!Next]_(Rx!channel)
<1> SUFFICES ASSUME TypeOK, OrderInv, SpaceInv, Handler
             PROVE  [Tx!Next]_(Tx!channel) /\ [Rx!Next]_(Rx!channel)
  OBVIOUS
<1>1. /\ UNCHANGED <<call, rx_out, got>>
      /\ tx_in' = tx_in /\ tx_buf' = tx_buf /\ taken' = taken
  BY DEF Handler, transmit, receive
<1>2. /\ wfifo \in Seq(Byte) /\ rfifo \in Seq(Byte) /\ Len(wfifo) \in Nat
      /\ tx_in \in Index /\ tx_out \in Index /\ tx_buf \in [Index -> Byte]
      /\ rx_in \in Index /\ rx_out \in Index /\ rx_buf \in [Index -> Byte]
      /\ handler.space \in 0..FifoLen /\ FifoLen \in Nat
  BY LenProperties, Constants DEF TypeOK
<1>3. CASE HandleTransmit
  <2> DEFINE b == tx_buf[tx_out]
             rest == Ring(tx_buf, (tx_out + 1) % BufLen, tx_in)
  <2>1. handler.space > 0 /\ handler.space <= FifoLen - Len(wfifo)
    BY <1>3 DEF HandleTransmit, SpaceInv
  <2>2. Len(wfifo) < FifoLen
    BY <1>2, <2>1
  <2>3. wfifo' = Append(wfifo, b) /\ tx_out' = (tx_out + 1) % BufLen /\ tx_out # tx_in
    BY <1>3, <2>2 DEF HandleTransmit, WriteData
  <2>4. 1 \in 1..Held(tx_out, tx_in) /\ tx_out + 1 <= BufLen
    <3>1. Held(tx_out, tx_in) \in Nat /\ Held(tx_out, tx_in) # 0
      BY <1>2, <2>3, HeldRange
    <3>2. tx_out \in 0..(BufLen - 1) /\ BufLen \in Nat
      BY <1>2, Constants DEF Index
    <3> QED
      BY <3>1, <3>2
  <2>5. /\ Piece(tx_buf, tx_out, 1) \in Seq(Byte) /\ rest \in Seq(Byte)
        /\ Ring(tx_buf, tx_out, tx_in) = Piece(tx_buf, tx_out, 1) \o rest
    BY <1>2, <2>4, RingTakes
  <2>6. b \in Byte
    BY <1>2
  <2>7. Piece(tx_buf, tx_out, 1) = <<b>>
    BY <1>2, <2>4, SinglePiece
  <2>8. wfifo' = wfifo \o <<b>>
    BY <1>2, <2>3, <2>6, AppendIsConcat
  <2>9. TxQueue = wfifo \o (<<b>> \o rest) /\ TxQueue' = (wfifo \o <<b>>) \o rest
    BY <1>1, <2>3, <2>5, <2>7, <2>8 DEF TxQueue
  <2> HIDE DEF b, rest
  <2>10. TxQueue' = TxQueue
    BY <1>2, <2>5, <2>7, <2>9, Regroup
  <2>11. UNCHANGED Tx!channel
    BY <1>1, <2>10 DEF Tx!channel
  <2>12. UNCHANGED Rx!channel
    BY <1>1, <1>3 DEF HandleTransmit, RxQueue, CopyLen, Rx!channel
  <2> QED
    BY <2>11, <2>12
<1>4. CASE HandleReceive
  <2>1. PICK typed \in Typed : ReadData(typed)
    BY <1>4 DEF HandleReceive
  <2>2. UNCHANGED Tx!channel
    BY <1>1, <1>4 DEF HandleReceive, TxQueue, Tx!channel
  <2>3. CASE rfifo = << >>
    <3>1. rfifo' = rfifo \o typed /\ UNCHANGED <<call, rx_in, rx_out, rx_buf, got>>
      BY <1>1, <1>4, <2>1, <2>3 DEF HandleReceive, ReadData
    <3> QED
      BY <2>2, <3>1, TypedPuts
  <2>4. CASE rfifo # << >>
    <3> DEFINE ring == Ring(rx_buf, RxFrom, rx_in)
               b == Head(rfifo)
    <3>1. RxFrom \in Index /\ RxQueue = ring \o rfifo /\ RxQueue \in Seq(Byte)
      BY Queues
    <3>2. /\ rx_in' = (rx_in + 1) % BufLen /\ rx_in' # rx_out
          /\ rx_buf' = [rx_buf EXCEPT ![rx_in] = b] /\ rfifo' = Tail(rfifo) \o typed
      BY <1>4, <2>1, <2>4 DEF HandleReceive, ReadData
    <3>3. /\ b \in Byte /\ <<b>> \in Seq(Byte) /\ Tail(rfifo) \in Seq(Byte)
          /\ rfifo = <<b>> \o Tail(rfifo)
      BY <1>2, <2>4, HeadAndTail
    <3>4. ring \in Seq(Byte) /\ typed \in Seq(Byte)
      BY <1>2, <3>1, RingIs, TypedFits
    <3>5. 1 \in 0..(BufLen - 1 - Held(RxFrom, rx_in)) /\ rx_in + 1 <= BufLen
      BY <1>2, <3>2, RoomToReceive
    <3>6. Ring(rx_buf', RxFrom, (rx_in + 1) % BufLen) = ring \o <<b>>
      BY <1>2, <3>1, <3>2, <3>3, <3>5, RingGrowsByOne
    <3>7. RxQueue' = (ring \o <<b>>) \o (Tail(rfifo) \o typed)
      BY <1>1, <3>2, <3>6 DEF RxQueue, RxFrom, CopyLen
    <3> HIDE DEF ring, b
    <3>8. RxQueue' = RxQueue \o typed
      <4>1. ring \o <<b>> \in Seq(Byte)
        BY <3>3, <3>4, ConcatProperties
      <4>2. RxQueue' = ((ring \o <<b>>) \o Tail(rfifo)) \o typed
        BY <3>3, <3>4, <3>7, <4>1, Regroup
      <4>3. (ring \o <<b>>) \o Tail(rfifo) = ring \o (<<b>> \o Tail(rfifo))
        BY <3>3, <3>4, Regroup
      <4> QED
        BY <3>1, <3>3, <4>2, <4>3
    <3> QED
      BY <1>1, <2>2, <3>1, <3>4, <3>8, RxPuts
  <2> QED
    BY <2>3, <2>4
<1>5. CASE Interrupt \/ HandleControl \/ HandleFull \/ HandleReceived \/ HandleTransmitted
  <2>1. UNCHANGED device /\ UNCHANGED filledByHandler
    BY <1>5 DEF Interrupt, HandleControl, HandleFull, HandleReceived, HandleTransmitted
  <2> QED
    BY <1>1, <2>1 DEF device, filledByHandler, TxQueue, RxQueue, CopyLen,
                      Tx!channel, Rx!channel
<1> QED
  BY <1>3, <1>4, <1>5 DEF Handler

\* Both directions deliver every byte once and in order, for every size of the
\* ring buffers and the FIFOs and however program, handler and host interleave
\* (altera_avalon_jtag_uart_init.c, read.c and write.c).
THEOREM Orders == Spec => InOrder
<1>1. Init => Tx!Init /\ Rx!Init
  <2> SUFFICES ASSUME Init PROVE Tx!Init /\ Rx!Init
    OBVIOUS
  <2>1. /\ tx_in = 0 /\ tx_out = 0 /\ rx_in = 0 /\ rx_out = 0 /\ 0 \in Index
        /\ tx_buf \in [Index -> Byte] /\ rx_buf \in [Index -> Byte]
        /\ wfifo = << >> /\ rfifo = << >> /\ taken = << >> /\ got = << >>
        /\ call.pc # "r_advance"
    BY Constants DEF Init, NoCall
  <2>2. Ring(tx_buf, 0, 0) = << >> /\ Ring(rx_buf, 0, 0) = << >>
    BY <2>1, RingEmpty
  <2>3. TxQueue = << >> /\ RxQueue = << >>
    BY <2>1, <2>2 DEF TxQueue, RxQueue
  <2> QED
    BY <2>1, <2>3 DEF Tx!Init, Rx!Init
<1>2. TypeOK /\ OrderInv /\ SpaceInv /\ [Next]_vars
        => [Tx!Next]_(Tx!channel) /\ [Rx!Next]_(Rx!channel)
  <2> SUFFICES ASSUME TypeOK, OrderInv, SpaceInv, [Next]_vars
               PROVE  [Tx!Next]_(Tx!channel) /\ [Rx!Next]_(Rx!channel)
    OBVIOUS
  <2>1. CASE UNCHANGED vars \/ Alarm
    BY <2>1 DEF vars, Alarm, device, transmit, receive, filledByHandler, host,
                TxQueue, RxQueue, CopyLen, Tx!channel, Rx!channel
  <2> QED
    BY <2>1, ProgramQueues, HandlerQueues, HostQueues DEF Next
<1>3. Spec => []SpaceInv
  BY Spacing
<1> QED
  BY <1>1, <1>2, <1>3, Typing, Ordered, PTL DEF Spec, InOrder, Tx!Spec, Rx!Spec
=============================================================================
