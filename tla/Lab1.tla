-------------------------------- MODULE Lab1 --------------------------------
(***************************************************************************)
(* Lab1's clocked designs: the adder of task 2.0 between its registers,    *)
(* and the counter of task 4.  Each has a clock and a reset of its own.    *)
(***************************************************************************)
EXTENDS Integers

CONSTANTS
    NBIT,       \* the width of the adder
    CountBits,  \* the width of the counter's output
    IntBits,    \* the width of an integer in the circuit
    Weight      \* Weight[k] is the value of bit k

ASSUME Lab1Assumption ==
    /\ NBIT \in Nat \ {0}
    /\ CountBits \in Nat \ {0}
    /\ IntBits \in Nat /\ IntBits >= CountBits

Widest == IF NBIT < IntBits THEN IntBits ELSE NBIT

ASSUME WeightAssumption ==
    /\ Weight \in [0..Widest -> Nat]
    /\ Weight[0] = 1
    /\ \A k \in 0..(Widest - 1) : Weight[k + 1] = 2 * Weight[k]

VARIABLES
    OP1_i, OP2_i, C_in_i,   \* the input registers
    SUM_out_i, C_out,       \* the output registers
    COUNT,                  \* the counter's variable
    carried,                \* history: the carry C_in_i held before
    edges                   \* history: enabled edges since reset

adder == <<OP1_i, OP2_i, C_in_i, SUM_out_i, C_out, carried>>
counter == <<COUNT, edges>>
vars == <<adder, counter>>

Bit == 0..1
Word == [0..(NBIT - 1) -> Bit]

-----------------------------------------------------------------------------
\* The full adder.
S(A, B, C_in) == (A + B + C_in) % 2

\* Variant to be refuted: a carry is only generated, not passed on.
C_outGenerated(A, B, C_in) == IF A = 1 /\ B = 1 THEN 1 ELSE 0

C_outOf(A, B, C_in) ==
    IF (A = 1 /\ B = 1) \/ (B = 1 /\ C_in = 1) \/ (A = 1 /\ C_in = 1) THEN 1 ELSE 0

\* The ripple of the carry through the full adders.
C_i(A, B, C_in) ==
    LET c[i \in 0..NBIT] == IF i = 0 THEN C_in ELSE C_outOf(A[i - 1], B[i - 1], c[i - 1])
    IN c

Init ==
    /\ OP1_i = [i \in 0..(NBIT - 1) |-> 0] /\ OP2_i = OP1_i /\ SUM_out_i = OP1_i
    /\ C_in_i = 0 /\ C_out = 0 /\ carried = 0
    /\ COUNT = 0 /\ edges = 0

\* A rising edge of task 2's clock.  The operands go to the adder past their
\* registers, the carry through its register.
AdderClock ==
    /\ OP1_i' \in Word /\ OP2_i' \in Word /\ C_in_i' \in Bit
    /\ LET c == C_i(OP1_i', OP2_i', C_in_i) IN
        /\ SUM_out_i' = [i \in 0..(NBIT - 1) |-> S(OP1_i'[i], OP2_i'[i], c[i])]
        /\ C_out' = c[NBIT]
    /\ carried' = C_in_i
    /\ UNCHANGED counter

\* RST low.
AdderReset ==
    /\ OP1_i' = [i \in 0..(NBIT - 1) |-> 0] /\ OP2_i' = OP1_i' /\ SUM_out_i' = OP1_i'
    /\ C_in_i' = 0 /\ C_out' = 0 /\ carried' = 0
    /\ UNCHANGED counter

\* Variant to be refuted: the integer stays at its greatest value.
SuccessorSaturated(n) == IF n = Weight[IntBits - 1] - 1 THEN n ELSE n + 1

\* An integer of the circuit wraps; one of a simulation would fail there.
Successor(n) == IF n = Weight[IntBits - 1] - 1 THEN -Weight[IntBits - 1] ELSE n + 1

\* A rising edge of task 4's clock with EN high.
CounterClock ==
    /\ COUNT' = Successor(COUNT)
    /\ edges' = (edges + 1) % Weight[CountBits]
    /\ UNCHANGED adder

CounterReset ==
    /\ COUNT' = 0 /\ edges' = 0
    /\ UNCHANGED adder

D == COUNT % Weight[CountBits]

Next == AdderClock \/ AdderReset \/ CounterClock \/ CounterReset

Spec == Init /\ [][Next]_vars

-----------------------------------------------------------------------------
\* What the bits of a word below each position are worth.
Below(w) ==
    LET v[i \in 0..NBIT] == IF i = 0 THEN 0 ELSE v[i - 1] + w[i - 1] * Weight[i - 1]
    IN v

Value(w) == Below(w)[NBIT]

\* What the outputs show is the sum of the operands of the last edge and of the
\* carry of the edge before it: a carry in comes a clock late, never twice.
SumOfTwoEdges ==
    C_out * Weight[NBIT] + Value(SUM_out_i) = Value(OP1_i) + Value(OP2_i) + carried

\* The display counts the edges, past the greatest integer too.
EdgesCounted == D = edges
=============================================================================
