------------------------------ MODULE JtagUart ------------------------------
(***************************************************************************)
(* The JTAG UART: the device of jtag_uart_0.vhd with the host behind it,   *)
(* and its interrupt-driven ("fast") driver, altera_avalon_jtag_uart_*.c.  *)
(* One step is one access of the bus, one load or store of a variable two  *)
(* actors share, or one act of the host.                                   *)
(*                                                                         *)
(* The actors: the program in one call of the driver, the interrupt        *)
(* handler, which runs to its end before the program goes on, the alarm's  *)
(* callback, which runs between the two, and the host.                     *)
(*                                                                         *)
(* Shared variables are loaded where and as often as the source does it    *)
(* and stored in its order, also those it does not declare volatile.       *)
(* Bytes are numbered modulo ByteMod in the order they are sent.           *)
(***************************************************************************)
EXTENDS Integers, Sequences

CONSTANTS
    BufLen,         \* ALTERA_AVALON_JTAG_UART_BUF_LEN
    FifoLen,        \* the depth of either FIFO of the device
    WriteThreshold, \* the levels of its interrupts: bytes left to send,
    ReadThreshold,  \* and room left for bytes received
    IntMax,         \* INT_MAX
    DefaultTimeout, \* ALTERA_AVALON_JTAG_UART_DEFAULT_TIMEOUT
    Timeouts,       \* what the program asks TIOCSTIMEOUT for
    MaxCount,       \* the longest read or write
    ByteMod,        \* how many numbers of bytes there are
    Sessions        \* what the program calls and what the host does

Calls == {"write", "read", "close", "ioctl"}
HostActs == {"give", "take", "pause"}

ASSUME JtagUartAssumption ==
    /\ BufLen \in Nat /\ BufLen >= 2
    /\ FifoLen \in Nat \ {0}
    /\ WriteThreshold \in 0..(FifoLen - 1) /\ ReadThreshold \in 0..(FifoLen - 1)
    /\ IntMax \in Nat /\ IntMax >= 4
    /\ DefaultTimeout \in 2..(IntMax - 2)
    /\ Timeouts \subseteq 0..IntMax
    /\ MaxCount \in Nat \ {0}
    /\ ByteMod \in Nat \ {0}
    /\ Sessions \subseteq [calls: SUBSET Calls, host: SUBSET HostActs]

Index == 0..(BufLen - 1)
Byte == 0..(ByteMod - 1)
RE == "RE"
WE == "WE"

VARIABLES
    session,
    \* the device
    wfifo, rfifo, pause_irq, ac,
    \* altera_avalon_jtag_uart_state; irq_enable is what ien_AF and ien_AE are
    irq_enable, tx_in, tx_out, tx_buf, rx_in, rx_out, rx_buf,
    timeout, host_inactive,
    call,       \* the program's call: where it is, its count or space, its
                \* flags, whether ptr has moved, its copies of the pointers
    handler,    \* the interrupt handler: where it is, what it has read
    attached,   \* whether the host is still there
    \* history: the next bytes' numbers, and what was received last
    next_written, next_given, taken, got

device == <<wfifo, rfifo, pause_irq, ac>>
transmit == <<tx_in, tx_buf, next_written>>
receive == <<rx_out, got>>
filledByHandler == <<tx_out, rx_in, rx_buf>>
host == <<attached, next_given, taken>>
vars == <<session, device, irq_enable, transmit, receive, filledByHandler,
          timeout, host_inactive, call, handler, host>>

-----------------------------------------------------------------------------
(* The device. *)

fifo_AE == Len(wfifo) <= WriteThreshold
fifo_AF == FifoLen - Len(rfifo) <= ReadThreshold
ipen_AE == WE \in irq_enable /\ fifo_AE
ipen_AF == RE \in irq_enable /\ (pause_irq \/ fifo_AF)

\* A write of the data register: a full FIFO does not take it.
WriteData(b) ==
    wfifo' = IF Len(wfifo) < FifoLen THEN Append(wfifo, b) ELSE wfifo

\* What the host may put into the FIFO in one clock.
Typed ==
    IF attached /\ "give" \in session.host /\ Len(rfifo) < FifoLen
    THEN {<< >>, <<next_given>>} ELSE {<< >>}

\* The host's activity in a clock; t_pause counts as activity too.
Arrive(typed) ==
    /\ next_given' = (next_given + Len(typed)) % ByteMod
    /\ ac' = (ac \/ typed # << >>)

\* A read of the data register, with what the host puts in meanwhile.
ReadData(typed) ==
    /\ rfifo' = (IF rfifo = << >> THEN << >> ELSE Tail(rfifo)) \o typed
    /\ pause_irq' = FALSE
    /\ Arrive(typed)

-----------------------------------------------------------------------------
(* The ring buffers. *)

Smaller(a, b) == IF a < b THEN a ELSE b

\* Variant to be refuted: with out at the start the last slot is used as well.
roomWhole(i, o) == IF i < o THEN o - 1 - i ELSE BufLen - i

\* What write finds free in one piece.  One slot is never used: the pointers
\* are equal only when the buffer is empty.
room(i, o) ==
    IF i < o THEN o - 1 - i
    ELSE IF o > 0 THEN BufLen - i ELSE BufLen - 1 - i

\* What read finds filled in one piece.
filled(i, o) == IF i >= o THEN i - o ELSE BufLen - o

\* The bytes from o up to i, around the end of the buffer.
Ring(buf, o, i) ==
    [k \in 1..((BufLen + i - o) % BufLen) |-> buf[(o + k - 1) % BufLen]]

-----------------------------------------------------------------------------
NoCall == [pc |-> "idle", count |-> 0, nonblock |-> FALSE, moved |-> FALSE,
           in |-> 0, out |-> 0]

Off == [pc |-> "off", wi |-> FALSE, ravail |-> FALSE, space |-> 0]

\* The reset of the device, altera_avalon_jtag_uart_init, with a host.
\* Where the alarm cannot be set the time-out is INT_MAX.
Init ==
    /\ session \in Sessions
    /\ wfifo = << >> /\ rfifo = << >> /\ pause_irq = FALSE /\ ac = FALSE
    /\ irq_enable = {RE}
    /\ tx_in = 0 /\ tx_out = 0 /\ tx_buf = [i \in Index |-> 0]
    /\ rx_in = 0 /\ rx_out = 0 /\ rx_buf = [i \in Index |-> 0]
    /\ timeout \in {DefaultTimeout, IntMax} /\ host_inactive = 0
    /\ call = NoCall
    /\ handler = Off
    /\ attached = TRUE
    /\ next_written = 0 /\ next_given = 0 /\ taken = << >> /\ got = << >>

-----------------------------------------------------------------------------
(* The program, between two interrupts. *)

GoTo(label) == call' = [call EXCEPT !.pc = label]
Return == call' = NoCall

Enter(name, label) ==
    /\ call = NoCall /\ name \in session.calls
    /\ \E n \in 1..MaxCount, nb \in BOOLEAN :
        call' = [NoCall EXCEPT !.pc = label, !.count = n, !.nonblock = nb]
    /\ UNCHANGED <<irq_enable, transmit, receive, timeout>>

WriteCall == Enter("write", "w_look")

WriteLook ==
    /\ call.pc = "w_look"
    /\ call' = [call EXCEPT !.in = tx_in, !.out = tx_out,
                    !.pc = IF call.count > 0 /\ room(tx_in, tx_out) > 0
                           THEN "w_put" ELSE "w_kick"]
    /\ UNCHANGED <<irq_enable, transmit, receive, timeout>>

\* The copy, and then the pointer that makes it the handler's.
WritePut ==
    LET n == Smaller(room(call.in, call.out), call.count) IN
    /\ call.pc = "w_put"
    /\ tx_buf' = [i \in Index |->
            IF i \in call.in..(call.in + n - 1)
            THEN (next_written + i - call.in) % ByteMod ELSE tx_buf[i]]
    /\ tx_in' = (call.in + n) % BufLen
    /\ next_written' = (next_written + n) % ByteMod
    /\ call' = [call EXCEPT !.pc = "w_look", !.count = @ - n, !.moved = TRUE,
                    !.in = 0, !.out = 0]
    /\ UNCHANGED <<irq_enable, receive, timeout>>

\* WE is set with interrupts disabled: irq_enable and the device agree.
WriteKick ==
    /\ call.pc = "w_kick"
    /\ irq_enable' = irq_enable \cup {WE}
    /\ IF call.count = 0 \/ call.nonblock THEN Return ELSE GoTo("w_spin")
    /\ UNCHANGED <<transmit, receive, timeout>>

\* The host is taken to be there until it has been silent for the time-out.
connected == host_inactive < timeout

\* Variant to be refuted: host_inactive is loaded before the loop only.
WriteSpinEndsHoisted ==
    /\ call.pc = "w_spin" /\ call.out # tx_out
    /\ GoTo("w_test")
    /\ UNCHANGED <<irq_enable, transmit, receive, timeout>>

WriteSpinEnds ==
    /\ call.pc = "w_spin" /\ ~(call.out = tx_out /\ connected)
    /\ GoTo("w_test")
    /\ UNCHANGED <<irq_enable, transmit, receive, timeout>>

WriteTest ==
    /\ call.pc = "w_test"
    /\ IF call.out = tx_out THEN Return
       ELSE call' = [call EXCEPT !.pc = "w_look", !.in = 0, !.out = 0]
    /\ UNCHANGED <<irq_enable, transmit, receive, timeout>>

ReadCall == Enter("read", "r_look")

ReadLook ==
    /\ call.pc = "r_look"
    /\ IF filled(rx_in, rx_out) = 0 /\ ~call.moved /\ call.nonblock THEN Return
       ELSE call' = [call EXCEPT !.in = rx_in, !.out = rx_out,
                        !.pc = IF filled(rx_in, rx_out) > 0 THEN "r_copy"
                               ELSE IF call.moved THEN "r_enable" ELSE "r_spin"]
    /\ UNCHANGED <<irq_enable, transmit, receive, timeout>>

CopyLen == Smaller(filled(call.in, call.out), call.count)

ReadCopy ==
    /\ call.pc = "r_copy"
    /\ got' = [k \in 1..CopyLen |-> rx_buf[call.out + k - 1]]
    /\ GoTo("r_advance")
    /\ UNCHANGED <<irq_enable, transmit, rx_out, timeout>>

\* Only now may the handler use the slots again.
ReadAdvance ==
    /\ call.pc = "r_advance"
    /\ rx_out' = (call.out + CopyLen) % BufLen
    /\ call' = [call EXCEPT !.count = @ - CopyLen, !.moved = TRUE, !.in = 0, !.out = 0,
                    !.pc = IF call.count > CopyLen THEN "r_look" ELSE "r_enable"]
    /\ UNCHANGED <<irq_enable, transmit, got, timeout>>

ReadSpinEnds ==
    /\ call.pc = "r_spin" /\ ~(call.in = rx_in /\ connected)
    /\ GoTo("r_test")
    /\ UNCHANGED <<irq_enable, transmit, receive, timeout>>

ReadTest ==
    /\ call.pc = "r_test"
    /\ IF call.in = rx_in THEN Return
       ELSE call' = [call EXCEPT !.pc = "r_look", !.in = 0, !.out = 0]
    /\ UNCHANGED <<irq_enable, transmit, receive, timeout>>

\* Variant to be refuted: only a read that filled the caller's buffer sets RE.
ReadEnableWhenFull ==
    /\ call.pc = "r_enable"
    /\ irq_enable' = IF call.count = 0 THEN irq_enable \cup {RE} ELSE irq_enable
    /\ Return
    /\ UNCHANGED <<transmit, receive, timeout>>

ReadEnable ==
    /\ call.pc = "r_enable"
    /\ irq_enable' = irq_enable \cup {RE}
    /\ Return
    /\ UNCHANGED <<transmit, receive, timeout>>

CloseCall == Enter("close", "close")

CloseEnds ==
    /\ call.pc = "close"
    /\ tx_out = tx_in \/ ~connected \/ call.nonblock
    /\ Return
    /\ UNCHANGED <<irq_enable, transmit, receive, timeout>>

\* TIOCSTIMEOUT: out of its range, and where there is no alarm, it is for ever.
SetTimeout ==
    /\ call = NoCall /\ "ioctl" \in session.calls
    /\ timeout # IntMax
    /\ \E t \in Timeouts : timeout' = IF t >= 2 /\ t < IntMax THEN t ELSE IntMax - 1
    /\ UNCHANGED <<call, irq_enable, transmit, receive>>

Program ==
    /\ handler = Off
    /\ \/ WriteCall \/ WriteLook \/ WritePut \/ WriteKick \/ WriteSpinEnds \/ WriteTest
       \/ ReadCall \/ ReadLook \/ ReadCopy \/ ReadAdvance \/ ReadSpinEnds
       \/ ReadTest \/ ReadEnable
       \/ CloseCall \/ CloseEnds \/ SetTimeout
    /\ UNCHANGED <<session, device, filledByHandler, host_inactive, handler, host>>

-----------------------------------------------------------------------------
(* The interrupt handler. *)

Interrupt ==
    /\ handler = Off /\ (ipen_AE \/ ipen_AF)
    /\ handler' = [Off EXCEPT !.pc = "control"]
    /\ UNCHANGED <<device, irq_enable, filledByHandler, next_given>>

\* Its loop reads the control register and ends when neither is pending.
HandleControl ==
    /\ handler.pc = "control"
    /\ handler' = IF ~(ipen_AE \/ ipen_AF) THEN Off
                  ELSE [pc |-> IF ipen_AF THEN "receive" ELSE "transmit",
                        wi |-> ipen_AE, ravail |-> ipen_AF,
                        space |-> IF ipen_AE THEN FifoLen - Len(wfifo) ELSE 0]
    /\ UNCHANGED <<device, irq_enable, filledByHandler, next_given>>

\* Bytes are taken out of the FIFO for as long as the buffer has room.
HandleReceive ==
    /\ handler.pc = "receive"
    /\ (rx_in + 1) % BufLen # rx_out
    /\ \E typed \in Typed :
        /\ ReadData(typed)
        /\ handler' = [handler EXCEPT !.ravail = rfifo' # << >>,
                            !.pc = IF rfifo = << >> THEN "received" ELSE "receive"]
    /\ IF rfifo = << >> THEN UNCHANGED <<rx_in, rx_buf>>
       ELSE /\ rx_buf' = [rx_buf EXCEPT ![rx_in] = Head(rfifo)]
            /\ rx_in' = (rx_in + 1) % BufLen
    /\ UNCHANGED <<wfifo, irq_enable, tx_out>>

HandleFull ==
    /\ handler.pc = "receive"
    /\ (rx_in + 1) % BufLen = rx_out
    /\ handler' = [handler EXCEPT !.pc = "received"]
    /\ UNCHANGED <<device, irq_enable, filledByHandler, next_given>>

\* With data left the buffer is taken to be full: no more interrupts for it.
HandleReceived ==
    /\ handler.pc = "received"
    /\ irq_enable' = IF handler.ravail THEN irq_enable \ {RE} ELSE irq_enable
    /\ handler' = [handler EXCEPT !.ravail = FALSE,
                        !.pc = IF handler.wi THEN "transmit" ELSE "control"]
    /\ UNCHANGED <<device, filledByHandler, next_given>>

HandleTransmit ==
    /\ handler.pc = "transmit"
    /\ handler.space > 0 /\ tx_out # tx_in
    /\ WriteData(tx_buf[tx_out])
    /\ tx_out' = (tx_out + 1) % BufLen
    /\ handler' = [handler EXCEPT !.space = @ - 1]
    /\ UNCHANGED <<rfifo, pause_irq, ac, irq_enable, rx_in, rx_buf, next_given>>

\* Variant to be refuted: interrupts end with the space as well.
HandleTransmittedAlways ==
    /\ handler.pc = "transmit"
    /\ ~(handler.space > 0 /\ tx_out # tx_in)
    /\ irq_enable' = irq_enable \ {WE}
    /\ handler' = [Off EXCEPT !.pc = "control"]
    /\ UNCHANGED <<device, filledByHandler, next_given>>

\* With space left there is nothing to send: no more interrupts for it.
HandleTransmitted ==
    /\ handler.pc = "transmit"
    /\ ~(handler.space > 0 /\ tx_out # tx_in)
    /\ irq_enable' = IF handler.space > 0 THEN irq_enable \ {WE} ELSE irq_enable
    /\ handler' = [Off EXCEPT !.pc = "control"]
    /\ UNCHANGED <<device, filledByHandler, next_given>>

Handler ==
    /\ \/ Interrupt \/ HandleControl
       \/ HandleReceive \/ HandleFull \/ HandleReceived
       \/ HandleTransmit \/ HandleTransmitted
    /\ UNCHANGED <<session, transmit, receive, timeout, host_inactive, call,
                   attached, taken>>

-----------------------------------------------------------------------------
(* The alarm, once a second, and the host. *)

\* Variant to be refuted: the time without a host is counted without a limit.
AlarmUncapped ==
    /\ handler = Off /\ timeout # IntMax
    /\ ac' = FALSE
    /\ host_inactive' = IF ac THEN 0 ELSE host_inactive + 1
    /\ UNCHANGED <<session, wfifo, rfifo, pause_irq, irq_enable, transmit, receive,
                   filledByHandler, timeout, call, handler, host>>

\* altera_avalon_jtag_uart_timeout: any activity since the last time?
Alarm ==
    /\ handler = Off /\ timeout # IntMax
    /\ ac' = FALSE
    /\ host_inactive' = IF ac THEN 0
                        ELSE IF host_inactive < IntMax - 2 THEN host_inactive + 1
                        ELSE host_inactive
    /\ UNCHANGED <<session, wfifo, rfifo, pause_irq, irq_enable, transmit, receive,
                   filledByHandler, timeout, call, handler, host>>

HostGive ==
    /\ \E typed \in Typed \ {<< >>} : rfifo' = rfifo \o typed /\ Arrive(typed)
    /\ UNCHANGED <<wfifo, pause_irq, attached, taken>>

\* The host pauses: what it has given is now worth an interrupt.
HostPause ==
    /\ attached /\ "pause" \in session.host
    /\ pause_irq' = (pause_irq \/ rfifo # << >>)
    /\ ac' = TRUE
    /\ UNCHANGED <<wfifo, rfifo, host>>

HostTake ==
    /\ attached /\ "take" \in session.host /\ wfifo # << >>
    /\ wfifo' = Tail(wfifo)
    /\ taken' = <<Head(wfifo)>>
    /\ UNCHANGED <<rfifo, pause_irq, ac, attached, next_given>>

HostLeaves ==
    /\ attached /\ attached' = FALSE
    /\ UNCHANGED <<device, next_given, taken>>

Host ==
    /\ HostGive \/ HostPause \/ HostTake \/ HostLeaves
    /\ UNCHANGED <<session, irq_enable, transmit, receive, filledByHandler,
                   timeout, host_inactive, call, handler>>

-----------------------------------------------------------------------------
Next == Program \/ Handler \/ Alarm \/ Host

Spec == Init /\ [][Next]_vars

\* What goes on by itself: a call that has begun, the handler and the timer.
Continue == Program /\ call # NoCall

\* As long as it is there the host takes what there is and pauses after what
\* it gives; and a program that reads keeps reading.
FairSpec ==
    /\ Spec
    /\ WF_vars(Continue) /\ WF_vars(Handler) /\ WF_vars(Alarm)
    /\ WF_vars(Host /\ HostTake) /\ WF_vars(Host /\ HostPause /\ rfifo # << >>)
    /\ WF_vars(Program /\ ReadCall)

-----------------------------------------------------------------------------
Writing == {"w_look", "w_put", "w_kick", "w_spin", "w_test"}
Reading == {"r_look", "r_copy", "r_advance", "r_spin", "r_test", "r_enable"}

TypeOK ==
    /\ session \in Sessions
    /\ wfifo \in Seq(Byte) /\ Len(wfifo) <= FifoLen
    /\ rfifo \in Seq(Byte) /\ Len(rfifo) <= FifoLen
    /\ pause_irq \in BOOLEAN /\ ac \in BOOLEAN
    /\ irq_enable \subseteq {RE, WE}
    /\ tx_in \in Index /\ tx_out \in Index /\ tx_buf \in [Index -> Byte]
    /\ rx_in \in Index /\ rx_out \in Index /\ rx_buf \in [Index -> Byte]
    /\ timeout \in 2..IntMax /\ host_inactive \in 0..(IntMax - 2)
    /\ call \in [pc: {"idle", "close"} \cup Writing \cup Reading,
                 count: 0..MaxCount, nonblock: BOOLEAN, moved: BOOLEAN,
                 in: Index, out: Index]
    /\ handler \in [pc: {"off", "control", "receive", "received", "transmit"},
                    wi: BOOLEAN, ravail: BOOLEAN, space: 0..FifoLen]
    /\ attached \in BOOLEAN
    /\ next_written \in Byte /\ next_given \in Byte
    /\ taken \in Seq(Byte) /\ got \in Seq(Byte)

\* The handler never writes more than the FIFO has room for: what it read of
\* its space before is still there, whatever the host has done since.
NoOverflow ==
    handler.pc = "transmit" => handler.space <= FifoLen - Len(wfifo)

\* A disabled interrupt is never the one that is needed.  Bytes to send have WE
\* set, or the program is on its way to set it; without RE there are bytes the
\* program has still to read, or it is on its way to set RE again.
NoLostWakeup ==
    /\ tx_in # tx_out =>
        \/ WE \in irq_enable
        \/ call.moved /\ call.pc \in {"w_look", "w_put", "w_kick"}
    /\ RE \notin irq_enable =>
        \/ rx_in # rx_out
        \/ call.moved /\ call.pc \in {"r_look", "r_enable"}

\* The bytes on their way to the host, and the bytes on their way from it.
TxQueue == wfifo \o Ring(tx_buf, tx_out, tx_in)

RxQueue ==
    Ring(rx_buf, IF call.pc = "r_advance" THEN (call.out + CopyLen) % BufLen
                 ELSE rx_out, rx_in)
    \o rfifo

Tx == INSTANCE FifoChannel WITH queue <- TxQueue, received <- taken
Rx == INSTANCE FifoChannel WITH queue <- RxQueue, received <- got

\* Both directions deliver every byte once and in order, however program,
\* handler and host interleave.
InOrder == Tx!Spec /\ Rx!Spec

\* The handler ends, and so does a write or a close of a program whose time-out
\* is a time: the bytes go or the host is found not to be there.
CallsReturn ==
    /\ handler # Off ~> handler = Off
    /\ (call.pc \in Writing \cup {"close"} /\ timeout <= IntMax - 2) ~> call = NoCall

Heads(queue, b) == queue # << >> /\ Head(queue) = b

\* With a host that stays nothing written is left behind, and nothing it gave
\* to a program that keeps reading.
Arrives ==
    []attached =>
        \A b \in Byte :
            /\ Heads(TxQueue, b) /\ "take" \in session.host ~> ~Heads(TxQueue, b)
            /\ Heads(RxQueue, b) /\ "read" \in session.calls ~> ~Heads(RxQueue, b)
=============================================================================
