# Efes labs: a verification project

TLA+ models of the designs in this repository (four laboratories of the course
"Electronics for embedded systems": VHDL for an FPGA, C for a Nios II soft
processor, and the vendor's interconnect and drivers generated with them), the
TLC runs that check them on small instances, and TLAPS proofs of their
safety properties for every value of the constants.  `PROJECT.json` maps every
definition to the lines it models, and lists the runs, the hazards, the
findings and the theorems.

    tlc -config SarAdcMC.cfg SarAdcMC      # any run of the table below
    tlapm SarTop_proofs.tla                # any module of proofs

## 1. Inventory

### Lab4: a successive-approximation converter
- **Converter** (`common/sarfsm.vhd`, `datapath.vhd`, `sr10`, `reg10`,
  `counter4`).  State: `current_state`, the one-hot shift register, the data
  register, the output register, the bit counter and its registered `tc`.
  Operations: one rising edge of `slowclock` in each of four states;
  asynchronous reset.  Correct if the output is the input at the selected
  resolution; hard because the input is compared bit by bit and is not held,
  because everything is made of ORs that rely on the clear before them, and
  because `nbit` is compared for equality with a running count through a
  registered `tc`.
- **Top** (`common/sar.vhd`, `counter8`; `lab4_max10/sar.vhd` is the same with
  the divisor tied).  The converter's clock is the registered `tc` of an
  eight-bit counter whose end value comes from pins.  Correct if the converter
  goes on converting, whatever the pins did.
- `lab4_max10_dactest`: a wire.

### Lab3: a UART receiver in hardware, a program that reports what it receives
- **Receiver** (`common/uart_peripheal.vhd` and its parts).  State: a
  three-state FSM, `counter16` and a toggle that make the bit clock, `counter4`
  for the bits, a shift register.  Correct if it captures each frame whole and
  is ready for the next.  Hard: its clock and the sender's drift apart; it
  leaves a frame in the middle of the last bit and is armed at once; it runs
  before the processor has configured it; there is no holding register.
- **System and program** (`lab3_nios.vhd`, `pio_3.vhd`,
  `software/nios_uart_hw/main.c`).  The program writes two configuration ports,
  then polls the edge capture register of the status line, prints the payload
  on the JTAG UART and clears the edge.  Interactions: shared registers only
  (PIO 0 and 1 out, PIO 2 and 3 in).  Hard: what happens between two accesses.
- `test_uart_hw`: the receiver with constants and displays, and a testbench.

### Lab2: a UART receiver in software
- **Receiver program** (`software/uart_final/main.c`).  State: its position in
  the frame, the bits so far, their parity.  Correct if it samples each bit while
  it is on the line, judges parity and stop bit, and is back before the next start bit.
  Hard: waits end late and each starts where the last one ended; errors are
  printed in the middle of the frame; the print blocks on a full FIFO.
- **Timer and timestamp driver** (`timer_0.vhd`, `altera_avalon_timer_ts.c`).
  A 32-bit down counter behind 16-bit registers; a call is several accesses.
  Hard: halves of a running counter, the reload a clock after a write, the end
  of the period.

### Lab2 and Lab3: the system around the programs
- **Interconnect** (`uart_com.vhd`, `nios_uart_hw.vhd`).  An arbitrator per
  slave and one per master of the processor.  State: for each slave the wait
  register, the share counter with its lock, the grants of the last cycle, the
  addend of the round robin, the answers on their way; for each master the
  latency counter.  Correct if grants exclude one another, reads get their own
  data in order, and nobody starves.  Hard: the data and the instruction master
  share the memory and the debug module at any clock; the answer of the memory
  comes a clock late, that of the ports at once, and the multiplexer that
  brings them together is an AND that cannot tell them apart.
- **JTAG UART and its fast driver** (`jtag_uart_0.vhd`,
  `altera_avalon_jtag_uart_*.c`).  State: two FIFOs and the interrupt enables in
  the device, two ring buffers, `irq_enable`, `host_inactive` and `timeout` in
  the driver.  Actors: the program in a call, the interrupt handler, the alarm
  once a second, the host, which may be slow, silent or gone.  Correct if
  bytes arrive once and in order, no interrupt that is needed stays disabled, and
  calls return.  Hard: program and handler share the rings without a lock.

### Lab1
- **Registered adder** (task 2.0): registers before and behind a ripple of full
  adders, of which only the carry's is in the path.  **Counter** (task 4): an
  integer shown modulo 2^32.

### Shared and left aside
- **Terminal counters**: the same process in four files.
- **Small JTAG UART driver** and **`alt_printf`** (copies in every board support
  package): modelled where the programs use them.
- What is left aside is in section 6.

## 2. Modules

| module | models | composed of |
|---|---|---|
| `TerminalCounter` | one step of a terminal counter | |
| `SarAdc` | the converter, an action per clock edge and FSM state | `TerminalCounter` |
| `SarTop` | board clock, divider, converter | `SarAdc` |
| `UartPeripheral` | the receiver, an action per board clock, with a sender | `TerminalCounter`, `UartRx` |
| `UartRx` | what a receiver promises the processor (abstract) | |
| `Lab3Nios` | main.c, the ports and the FIFO over the abstract receiver | `UartRx` |
| `SoftUart` | the software receiver, with a sender and a FIFO | |
| `Timestamp` | timer, driver, and the calls of a wait | |
| `Interconnect` | the arbitrators of every slave and both masters, over a table of slaves | |
| `UartCom` | the tables of the two systems | |
| `JtagUart` | device, fast driver, interrupt handler, alarm, program and host | `FifoChannel` |
| `FifoChannel` | what each direction promises (abstract) | |
| `Lab1` | registered adder and counter | |
| `SarTop_proofs` | invariants and theorems of the converter and of its clock | `SarTop` |
| `UartPeripheral_proofs`, `Lab3Nios_proofs`, `SoftUart_proofs`, `Timestamp_proofs`, `Interconnect_proofs`, `JtagUart_proofs`, `Lab1_proofs` | inductive invariant and theorems of the module named | that module |

Each `...MC` module gives a module the values of one instance.  In every module
variables keep the source's names; variables commented "history" are observers
that no action reads.  Definitions commented "Variant to be refuted" are
plausible mistakes in the code: each is put in the place of the definition after
it, and the run has to see the property fail (`PROJECT.json`, "mutants").

**SarAdc.** `EdgeIdle`, `EdgeInit`, `EdgeConvert` and `EdgeLatch` are the four
`when` branches of `sarfsm.vhd:41-84` together with what `init` and the enables
do to `sr10`, `reg10` and `counter4` on the same edge.  `sr` is the position of
the single one in the shift register (0: shifted out), `data` and `adcout` are
numbers, and the OR of the data path is `OrBit`.  Each conversion edge takes a
fresh voltage from `Vin`.  `seen` and `res` remember the lowest and highest
voltage a conversion compared.  The voltage is clipped to the range of the DAC
in the history only.

**SarTop.** `BoardClock` counts and, when `tc` rises, takes the converter's edge
in the same step (the registers behind `slowclock` move right after it).
`SetDivisor`, `SetInputs` and `TopReset` come between board clocks.

**UartPeripheral.** `Clock` is a board clock: the FSM, `counter16`, and, when
its toggle goes up, `counter4` and the shift register.  `clear` is asynchronous,
so the edge into `CLEAR_CLOCK` and the edge out of it both leave everything at
zero.  The FSM is taken as synthesised (the sensitivity list of
`uart_fsm.vhd:29` omits `current_state`).  The sender moves in the same step,
at a bit time chosen for each frame, with or without a gap.  `calm` says the
receiver was configured, saw an idle line and only frames within the tolerance
since; the properties about content are about such frames.

**Lab3Nios.** One action per device access of `main.c`.  `EdgeCapture` says
whether PIO_3 has the register the program polls.  The program is written for
one, so the properties of the polling protocol are checked with it; the port in
the repository has none, which is a finding.  The receiver is `UartRx`, justified
by the refinement that `uart_peripheral` checks.

**SoftUart.** Time advances in `Tick` while the program waits, polls a high line
or is blocked.  The time of the instructions is in the waits: each ends up to
`MaxOver` late.  The timer itself is `Timestamp`, whose `WaitIsExact` is what
justifies that reading of a wait (never early, late by a bounded amount).

**Timestamp.** One action per clock of the timer, with at most one bus access,
and at most `MaxGap` clocks between the accesses of a call.

**Interconnect.** The entities are generated from one pattern, so the operators
are written once, under the names of the signals, for a slave `s` and a master
`m`; `Ports` says what differs: whether the instruction master reaches the slave
and whether a read waits a clock, is answered a clock later or is held by the
slave's own `waitrequest`.  `Clock` is one edge with every register; the
processor may drive any command, and holds it while `waitrequest` is high (the
entities' own checks, `uart_com.vhd:570-722`, say so).  Data is reduced to the slave
it comes from: `drives` is the set of slaves that `readdata` is the AND of.

**JtagUart.** One action per access of the bus or shared variable: `room` and
`filled` are loaded, then bytes are copied, then the pointer is stored, and the
handler may come in between.  The handler itself runs to its end, the alarm
comes between, the host at any time, also between the read of an empty FIFO
and the answer to it (`ReadData`: RVALID is taken first, RAVAIL after).  Bytes
are numbered, so that a lost, repeated or swapped one shows.  The loads of
the spin loops are those of the source.  `host_inactive` and `timeout` are not
volatile there; a compiler that keeps them in registers makes the variant
`WriteSpinEndsHoisted`, with which a write to a host that has left never returns.
The same holds for the order of a copy and the store of its pointer (`rx_out`
and `tx_in` are not volatile either): the model has the order of the source.

**Lab1.** The sum is compared with the operands by value, not bit by bit;
`carried` remembers what the carry's register held before the edge.  `Weight` gives
the powers of two by doubling, here as in `SarAdc`, because a symbolic power is
nothing the provers can calculate with.

## 3. Runs

| run | expected | question and bounds |
|---|---|---|
| `sar_adc` | pass | 3 bits, a counter modulo 4, nine inputs and one beyond each end of the range. 3 bits give a first, a middle and a last bit; `nbit` reaches past the width, below the count and the wrap |
| `sar_top` | pass | 2 bits, divider modulo 4, all divisors; one voltage, as the control does not depend on it |
| `uart_peripheral` | pass | frame of 4 bits, half period 3 clocks, senders a clock too fast, two within the tolerance, one too slow; shift register one bit longer than the frame |
| `lab3` | pass | frames of 2 data and 2 stop bits, two starts between resets (`MaxFrames`), FIFO of 2, shorter strings |
| `soft_uart` | pass | characters of 2 bits, 8 ticks a bit, waits up to 1 late, prints up to 2 long, FIFO of 1, a sender one tick slower than nominal, the one time within the tolerance |
| `timestamp` | pass | halves of 2 bits, wait of 6, up to 3 clocks between accesses, elapsed time counted to a full period |
| `interconnect` | pass | Lab2's system without `pio_1` to `pio_3`, which are `pio_0` at other addresses: two shared slaves, one with latency, one that stretches, two that wait; every command of both masters, at every clock |
| `jtag_uart` | pass | rings of 3, FIFOs of 2, reads and writes of up to 2, byte numbers modulo 3, INT_MAX 4, time-outs of 2, "too long" and "for ever"; three sessions: a program that writes to a host that listens, one that reads what a host types, one that writes while the host types |
| `lab1` | pass | operands of 3 bits, a count of 4 bits on an integer of 4, through both its wraps |
| `lab3_no_capture`, `lab3_report`, `soft_uart_map` | violation | the findings below |

The bounds of `jtag_uart`: a ring of 3 holds 2 bytes, so full, empty, the free
slot at either end and a copy in two pieces all occur, and a FIFO smaller than
the ring leaves bytes in both.  A host that also types while it listens would
only be the product of the first two sessions: the halves of the driver share
nothing but `irq_enable`, the handler and the time-out, and the third session is
the one where both halves of the handler run in one interrupt.  Deadlock is
not checked there: a program that waits for a host that has left, with a time-out of
`INT_MAX`, really stops.

What the passing runs show:

- `ResultBracketed`, `ConversionBracketed`: the output lies between the lowest
  and highest voltage compared, up to the bits not tried.  With a constant input
  that is the exact conversion; with a moving one it is all that can be had
  without a sample-and-hold.  `LowBitsClear` is why OR is addition.
  `ResolutionAsSelected`: `nbit` held at n tries n + 2 bits.
- `SlowClockPeriod`, `KeepsConverting`, `ZeroDivisorStops`: the divider's period
  is divisor + 1 as long as the pins hold; lowering `nbit` or the divisor below
  a running count delays but never stops the converter; a divisor of zero does.
- `StartsOnStartBit`, `SamplesInTheirBits`, `FrameCaptured`: with a sender in
  tolerance every start is a start bit, every sample is in its own bit, and
  while the receiver waits its register holds the frame.  `FrameEnds`,
  `Recovers`: it gets out of every start, and back in step when the line rests.
  `ImplementsRx`: it refines `UartRx`, liveness included.
- `NoPhantomReport`, `ReportsTheFrame`, `Reported`: no report of the edge that is
  there at reset or of a frame already reported; with a sender that waits for the
  report, the payload read is the frame; and every frame that ends while main polls
  or prints "READY!" is followed by a report down to its newline, whoever sends.
  The code does less than that for two frames, and the properties leave them out:
  one that starts between the poll and the read overwrites the one reported
  (`main.c:32`; `paced` excludes it), and the edge of one that ends during a report
  is cleared unseen (`main.c:39`; `pending` does not count it).
- `CharacterReceived`, `StopVerdict`, `NextFrameHeard`, `ReturnsToIdle`: within
  the tolerance the late waits leave, the character and the errors printed are
  those of the frame; the next frame is heard if the print was not held up; the
  loop always returns if a host reads.
- `ReadingIsElapsed`, `WaitIsExact`, `WaitEnds`: no torn reads; a wait is never
  short and at most one turn of its loop long.

- `GrantsExclusive`, `ReadsAnswered`, `OvertakenOnce`, `RequestServed`: the first is what
  the arbitrators assert in simulation.  Reads are answered in order and
  with nobody else's bits in the AND; a ready request is overtaken at most
  once, and no request waits for ever.
- `NoLostWakeup`, `InOrder`, `CallsReturn`, `Arrives`: whoever disables an interrupt
  leaves a reason that will enable it again; both directions implement
  `FifoChannel`; the handler ends, and so do write and close with a finite time-out;
  with a host that stays, nothing is left behind in a ring or FIFO.
- `SumOfTwoEdges`, `EdgesCounted`: the sum shown is that of the operands of the last
  edge and the carry of the edge before; the display counts on past the
  greatest integer, as the circuit wraps where a simulation would stop.

**Fairness.** Clocks are weakly fair: an oscillator does not stop
(`BoardClock`, `Clock`, `Tick`, `Timestamp`'s `Next`).  Programs are weakly fair: one
processor, no interrupts, no operating system (`Main`, `WriteBits`,
`WriteDivisor`).  `Reported` and `ReturnsToIdle` also need a host that reads the
FIFO: with `WF(HostReads)` left out, TLC finds the program at the driver's spin,
the frame still `pending`.  In `JtagUart` the call that has begun, the
handler and the alarm go on; a host that is there takes what it is sent and
pauses after what it types, which is what raises the interrupt for less than a
FIFO's worth; `Arrives` also needs a program that reads again.  That the host stays is
an antecedent of `Arrives`, not fairness.  Nothing is assumed of the switches, the
reset or the sender, except where a property says so in its antecedent.

**Findings** (violation runs): PIO_3 is generated without the edge capture
register `main.c` polls; `alt_printf` ignores the `%i` main prints with, and the
loop prints bits 0 to 8 and misses the first data bit (both in the
trace of `lab3_report`: no digit `shown`, and `digits`, the bits the loop went
through, begin with the stop bits); `display_map[c >> 4]` has a negative index from
character 0x80 on.  One comment is off without a run of its own: `alt_timestamp()`
returns 0 after a full period, where `altera_avalon_timer_ts.c:92-94` says -1.

## 4. Proofs

Every invariant and every action property a passing run checks is also a theorem,
for every value of the constants.  A proof has the same parts in every module: an
inductive invariant with named conjuncts, a lemma for each action or for each
conjunct that says it is kept, and theorems that take the properties from it.

**SarTop_proofs**, the converter (`Typing`, `Bracketing`, `Narrowing`, `LowBits`,
`Resolution`: `Spec => []` of `TypeOK`, `ResultBracketed`, `ConversionBracketed`,
`LowBitsClear`, `ResolutionAsSelected`), for every width, counter modulus, set of
inputs and set of switch values.  `ResultBracketed` speaks of the output alone.  It
follows from the bracket of the conversion at the moment it is latched, which is
kept by a comparison only if the OR with the bit under test adds exactly its
weight; that is `LowBitsClear` (`data` is a multiple of twice the weight of that
bit).  `OrAdds` and `ClearBit` are that piece of arithmetic, `Compare` is one
comparison.  `Counting` ties the counter, `tc` and the shift register together,
edge by edge, for the resolution.  The divider (`DividerTyping`, `Period`): between
two rises of `slowclock` the count and the history `gap` are the same number.
`TopConverts`: every step of the top entity is one of the converter or leaves it
alone, so all of this holds behind the divider.

**UartPeripheral_proofs** (`Typing`, `Starts`, `Samples`, `Captures`, `Implements`), for
every divisor, frame length, register length and set of bit times.  `StepInv` says
where a receiver in step is: the age of the frame on the line is the lag with
which its start was seen, two clocks to clear, and one bit period per bit
counted.  From the tolerance, which bounds the drift over a whole frame, follows
that this age lies in the bit sampled (`Place`, `Tolerances`: products of bit
positions and bit times, which the solvers need spelled out).  `CalmInv` keeps a calm
receiver in step from frame to frame.  `Implements` is the step simulation of
`UartRx`, with a mapping that counts a receiver out of step as one that hears no
frame; it rests on the lemmas about shift registers.  `NotBeforeSetUp`: a receiver that
is not set up yet is in step with nothing.

**Lab3Nios_proofs** (`NiosTyping`, `NoPhantoms`, `Reports`), for every length of
frames, FIFO and strings.  `NoPhantoms` needs that from the first clear on an edge
means a frame (`EdgeInv`), `Reports` that a frame of a patient sender is under way
only while main polls (`PacedInv`).  `ReceiverInside` says that the receiver's part of the
system is a `UartRx`; with `Implements`, and `NotBeforeSetUp` for the starts
`LineStarts` allows before main has written its ports, that ties the program's
theorems to the hardware's.

**SoftUart_proofs** (`Typing`, `Characters`, `StopBits`, `NextFrames`), for every
length of characters and messages, every set of senders, every delay of waits and
prints and every depth of the FIFO.  The argument is the receiver's again, with waits that
add up instead of a clock: `TimeInv` says that in the wait for the j-th sample the
age of the frame and what is left of the wait are together between the time the
sample is due and that time plus j + 1 delays.  The tolerance puts both ends within the
j-th bit (`Tolerances`, `OnTime`).  An error printed in the middle of the frame breaks
the bound: from then on `TimeInv` only says that the start bit is over, which is why
`StopVerdict` excludes a frame with a parity error and `NextFrameHeard` one with any.
`HeardInv` is that the frame heard is the one on the line, which an early return to
polling would break; that there is none is in `TimeInv` too.  `ReadInv` is the content:
`payload` is a prefix of the data bits, `even` the parity of their ones.  The count of
ones grows by one bit at a time (`OneMore`), so the invariant does the induction
over the length.  `NextFrameHeard` is a property of steps: a start bit
that begins meets `main` at `"idle"`, by the last bound of `TimeInv`.

**Timestamp_proofs** (`Typing`, `Reading`, `Waiting`), for every width of the halves,
every wait shorter than a period and every pace of the accesses.  `CountInv` ties the
counter to the time elapsed, except while `alt_timestamp_start` works on it
(`StartInv`); `WaitInv` bounds how far a wait can have gone at each access of a turn.

**Interconnect_proofs** (`Exclusion`, `Answers`, `Overtaking`), for every table of
slaves.  `LockInv` is the surprise of the generated code: as no transfer is longer
than one access the share counter stays 0 and the lock never closes, so what
keeps a slave from changing hands in a wait state is `HoldInv`, the addend.
`AnswerInv`: at most one answer is under way per master, and latency counter,
shift registers and address agree about it.

**JtagUart_proofs** (`Typing`, `Wakeups`, `Orders`, `NeverOverflows`), for every size of ring
and FIFO.  `NoLostWakeup` needs `HandlerHasReason`: the handler is receiving because
there is something, and leaves data behind only when the ring is not empty; and
that a pause interrupt means data.  `Orders` is the refinement of `FifoChannel` in
both directions.  A ring is the sequence of what lies between its pointers
(`RingIs`), and the lemmas about rings say what moving a pointer does to it: a piece
leaves at the front (`RingTakes`), bytes written behind the end come in at the back
(`RingGrows`), and neither sees the wrap.  That leaves the question of the hazard: write and read work with
copies of the handler's pointer that may be old.  `WritesBehind` and `ReadsBehind` are the
answer: an old copy only ever shows less room, or fewer bytes, than there are.  So
what write stores lies outside what the handler can see until the pointer is
stored, and what read takes is there.

**Lab1_proofs** (`Sums`, `Counting`), for words, outputs and integers of every width.
`RippleAdds` is that the chain of full adders adds, by induction over the positions:
what is summed below a position, with the carry into it, is the sum of what the
operands have below it; `FullAdder` is one step of that.  `Counting` needs that the
integer's values are a whole number of rounds of the display's (`Rounds`), so that
its wrap does not show (`NextCount`).  The library's induction theorems cannot be used
with these provers, as they take an operator; `Induct` says the same of a set of
numbers, from the well-foundedness of `<`, and `Recursion` that a function defined
by going on from position to position exists.

Assumptions are those each module states about its constants (`WidthAssumption`,
`WeightAssumption`, `InputAssumption`, `DivisorAssumption`, `UartAssumption`,
`RxAssumption`, `Lab3Assumption`, `SoftUartAssumption`, `TimestampAssumption`,
`PortsAssumption`, `JtagUartAssumption`, `Lab1Assumption`); TLC evaluates each of them
in a run.

Only model-checked: liveness (`KeepsConverting`, `ZeroDivisorStops`, `FrameEnds`,
`Recovers`, `Reported`, `ReturnsToIdle`, `WaitEnds`, `RequestServed`, `CallsReturn`,
`Arrives`, and the liveness part of `ImplementsRx`), which is out of the
prover's reach; and the violations of section 3, which are counterexamples.

## 5. Plan

Done: everything of sections 2 to 4.  Left, in the order of what it would add:

1. An abstract wait (start, end between the time asked for and a bound) that
   `Timestamp` implements and `SoftUart` uses.
2. An abstract converter (take a value, deliver it at the resolution) that `SarAdc` implements.

## 6. Not modelled

Most lines of the repository are the vendor's board support package, in three
copies (HelloWorld, Lab2, Lab3), of which the programs call a handful of
functions; they are why the map covers a small part of the lines.

- **HAL: alarms and system clock.** `ALT_SYS_CLK` is `none` in both systems
  (`system.h`), so no interrupt calls `alt_tick` and `alt_alarm_start` refuses.
- **HAL: the rest**: start-up, file descriptors (the programs use the small
  library, which bypasses them), caches, exceptions, logging that is compiled
  out, headers of constants.  Nothing there has behaviour of the labs.
- **Other copies**: the fast driver and the interconnect are in the sources once
  per system; each is modelled once, the tables of `UartCom` say what differs.
  Neither program compiles the fast driver (`ALT_USE_SMALL_DRIVERS`).
- **Processor and debug module**: an encrypted netlist.
- **Seven-segment decoders, AND gate (Lab1 task 1), shift register (task 3), DAC
  test**: no state, or a chain of flip-flops about which any statement would
  repeat the wiring.
- **Lab1 task 2.1**: `rca_gen.vhd:22` assigns a vector of NBIT bits to a signal of
  NBIT + 1, which VHDL rejects; there is no circuit to model.
- **Testbenches**: stimuli; the frames of `tb.vhd` are those the models send.
- **Simulation semantics**: the sensitivity list of `uart_fsm.vhd:29` and the range of
  an integer in `counter_gen.vhd:23` make a simulation differ from the circuit; the
  models follow the circuit.
