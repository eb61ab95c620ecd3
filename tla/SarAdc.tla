------------------------------- MODULE SarAdc -------------------------------
(***************************************************************************)
(* The successive-approximation converter of Lab4: the control FSM         *)
(* (common/sarfsm.vhd) and the data path (common/datapath.vhd with sr10,   *)
(* reg10 and counter4), both clocked by slowclock (common/sar.vhd:78-80).  *)
(*                                                                         *)
(* One action is one rising edge of slowclock, seen by every register at   *)
(* once; the edge taken in each state of the FSM is an action of its own.  *)
(* Between edges the switches may move (SetInputs) and the asynchronous    *)
(* resetn may be pulled low (Reset).  The analogue world is the external   *)
(* DAC and comparator: at each edge the comparator answers for whatever    *)
(* the input voltage is then, and nothing makes that voltage hold still    *)
(* during a conversion (there is no sample-and-hold in the design).        *)
(***************************************************************************)
EXTENDS TerminalCounter

CONSTANTS
    Width,      \* bits of sr10, data10 and adcout (10 in the code)
    Weight,     \* Weight[k] is the value of the k-th lowest bit, 0 for k = 0
    CountMod,   \* counter4 counts modulo this (16 in the code)
    NBits,      \* the values the nbit switches take
    Vin         \* input voltages, in steps of the least significant bit

ASSUME WidthAssumption == Width \in Nat \ {0}

ASSUME WeightAssumption ==
    /\ Weight \in [0..Width -> Nat]
    /\ \A k \in 0..Width : Weight[k] = 0 <=> k = 0
    /\ Weight[1] = 1
    /\ \A k \in 1..(Width - 1) : Weight[k + 1] = 2 * Weight[k]

ASSUME InputAssumption ==
    /\ CountMod \in Nat \ {0}
    /\ NBits \subseteq 0..(CountMod - 1)
    /\ Vin \subseteq Int

VARIABLES
    state,      \* current_state of sarfsm
    sr,         \* sr10: position of its single one, 0 when all zero
    data,       \* datareg10
    adcout,     \* finalreg10, the output of the converter
    count, tc,  \* counter4
    run, nbit,  \* the switches
    seen,       \* history: the samples the conversion under way has compared
    res         \* history: what adcout was converted from

registers == <<state, sr, data, adcout, count, tc>>
vars == <<state, sr, data, adcout, count, tc, run, nbit, seen, res>>

States == {"SARIDLE", "SARINIT", "SARCONVERT", "SARLATCH"}

FullScale == 2 * Weight[Width] - 1

-----------------------------------------------------------------------------
(***************************************************************************)
(* The combinational part of the data path.  sar10 has at most one bit     *)
(* set, so "sar10 or data10" adds that bit's weight unless it is there.    *)
(***************************************************************************)
HasBit(d, k) == (d \div Weight[k]) % 2 = 1

OrBit(d, k) == IF k = 0 \/ HasBit(d, k) THEN d ELSE d + Weight[k]

\* Variant to be refuted: the DAC driven without the bit under test.
dacoutNoTrial == data

dacout == OrBit(data, sr)

\* The external comparator: the input against the DAC's output.
comp(v) == v >= dacout

iter10(v) == IF comp(v) THEN OrBit(data, sr) ELSE data

\* Variant to be refuted: a rotation instead of a shift.
Rotate(k) == IF k = 0 THEN 0 ELSE IF k = 1 THEN Width ELSE k - 1

ShiftRight(k) == IF k = 0 THEN 0 ELSE k - 1

done == state = "SARLATCH"

-----------------------------------------------------------------------------
(***************************************************************************)
(* History.  A reading outside the range of the DAC counts as the end of   *)
(* the range it is beyond, which is all a converter can say of it.         *)
(***************************************************************************)
Clip(v) == IF v < 0 THEN 0 ELSE IF v > FullScale THEN FullScale ELSE v

\* No sample yet: the interval every sample narrows to itself.
NoSamples == [lo |-> FullScale, hi |-> 0, bits |-> 0, steady |-> TRUE]

\* A comparison counts only while sr10 still selects a bit.
Sample(s, v) ==
    IF sr = 0 THEN s
    ELSE [s EXCEPT !.lo = IF Clip(v) < @ THEN Clip(v) ELSE @,
                   !.hi = IF Clip(v) > @ THEN Clip(v) ELSE @,
                   !.bits = @ + 1]

-----------------------------------------------------------------------------
Reset ==
    /\ state' = "SARIDLE"
    /\ sr' = 0
    /\ data' = 0
    /\ adcout' = 0
    /\ count' = 0
    /\ tc' = FALSE
    /\ seen' = NoSamples
    /\ res' = [lo |-> 0, hi |-> 0, left |-> 0]
    /\ UNCHANGED <<run, nbit>>

Init ==
    /\ state = "SARIDLE"
    /\ sr = 0
    /\ data = 0
    /\ adcout = 0
    /\ count = 0
    /\ tc = FALSE
    /\ run \in BOOLEAN
    /\ nbit \in NBits
    /\ seen = NoSamples
    /\ res = [lo |-> 0, hi |-> 0, left |-> 0]

\* The switches behind run and nbit move at any time.
SetInputs ==
    /\ run' \in BOOLEAN
    /\ nbit' \in NBits
    /\ seen' = [seen EXCEPT !.steady = @ /\ nbit' = nbit]
    /\ UNCHANGED <<registers, res>>

EdgeIdle ==
    /\ state = "SARIDLE"
    /\ state' = IF run THEN "SARINIT" ELSE "SARIDLE"
    /\ UNCHANGED <<sr, data, adcout, count, tc, run, nbit, seen, res>>

\* Variant to be refuted: init does not reach datareg10.
EdgeInitKeepsData ==
    /\ state = "SARINIT"
    /\ state' = "SARCONVERT"
    /\ sr' = Width
    /\ count' = 0
    /\ tc' = FALSE
    /\ seen' = NoSamples
    /\ UNCHANGED <<data, adcout, run, nbit, res>>

\* init = '1': sr10 takes its top bit, datareg10 and counter4 are cleared.
EdgeInit ==
    /\ state = "SARINIT"
    /\ state' = "SARCONVERT"
    /\ sr' = Width
    /\ data' = 0
    /\ count' = 0
    /\ tc' = FALSE
    /\ seen' = NoSamples
    /\ UNCHANGED <<adcout, run, nbit, res>>

\* Variant to be refuted: tc used in the edge that computes it.
EdgeConvertEarly ==
    /\ state = "SARCONVERT"
    /\ state' = IF Matches(count, nbit) THEN "SARLATCH" ELSE "SARCONVERT"
    /\ sr' = ShiftRight(sr)
    /\ count' = Counted(count, nbit, CountMod)
    /\ tc' = Matches(count, nbit)
    /\ \E v \in Vin : data' = iter10(v) /\ seen' = Sample(seen, v)
    /\ UNCHANGED <<adcout, run, nbit, res>>

\* Variant to be refuted: a counter4 that stays at its highest count.
EdgeConvertSaturates ==
    /\ state = "SARCONVERT"
    /\ state' = IF tc THEN "SARLATCH" ELSE "SARCONVERT"
    /\ sr' = ShiftRight(sr)
    /\ count' = IF count = nbit THEN 0 ELSE IF count = CountMod - 1 THEN count ELSE count + 1
    /\ tc' = Matches(count, nbit)
    /\ \E v \in Vin : data' = iter10(v) /\ seen' = Sample(seen, v)
    /\ UNCHANGED <<adcout, run, nbit, res>>

\* shift, reg and count enabled; tc is the value registered one edge before.
EdgeConvert ==
    /\ state = "SARCONVERT"
    /\ state' = IF tc THEN "SARLATCH" ELSE "SARCONVERT"
    /\ sr' = ShiftRight(sr)
    /\ count' = Counted(count, nbit, CountMod)
    /\ tc' = Matches(count, nbit)
    /\ \E v \in Vin : data' = iter10(v) /\ seen' = Sample(seen, v)
    /\ UNCHANGED <<adcout, run, nbit, res>>

\* final_enable = '1': the result is out on the edge that leaves SARLATCH.
EdgeLatch ==
    /\ state = "SARLATCH"
    /\ state' = IF run THEN "SARINIT" ELSE "SARIDLE"
    /\ adcout' = data
    /\ res' = [lo |-> seen.lo, hi |-> seen.hi, left |-> sr]
    /\ UNCHANGED <<sr, data, count, tc, run, nbit, seen>>

Edge == EdgeIdle \/ EdgeInit \/ EdgeConvert \/ EdgeLatch

Next == Edge \/ SetInputs \/ Reset

Spec == Init /\ [][Next]_vars

-----------------------------------------------------------------------------
(***************************************************************************)
(* Correctness.                                                            *)
(***************************************************************************)

\* Every register stays within its width: in particular the OR that keeps a
\* bit never carries out of data10.
TypeOK ==
    /\ state \in States
    /\ sr \in 0..Width
    /\ data \in 0..FullScale
    /\ adcout \in 0..FullScale
    /\ count \in 0..(CountMod - 1)
    /\ tc \in BOOLEAN
    /\ run \in BOOLEAN
    /\ nbit \in NBits
    /\ seen \in [lo : 0..FullScale, hi : 0..FullScale, bits : 0..Width, steady : BOOLEAN]
    /\ res \in [lo : 0..FullScale, hi : 0..FullScale, left : 0..Width]

\* What the bits from the k-th down could still add.
Slack(k) == IF k = 0 THEN 0 ELSE 2 * Weight[k] - 1

\* The output lies between the lowest and the highest input the conversion
\* compared, up to the bits it was told not to try, although the input moves
\* while the bits are tried one by one and the switches while it runs.
ResultBracketed ==
    /\ adcout <= res.hi
    /\ res.lo <= adcout + Slack(res.left)

\* What a conversion under way knows already, bit after bit.
Converting == state \in {"SARCONVERT", "SARLATCH"}

ConversionBracketed ==
    Converting => /\ data <= seen.hi
                  /\ seen.lo <= data + Slack(sr)
                  /\ data + Slack(sr) <= FullScale

\* No bit at or below the one under test is set yet, so setting it adds its
\* weight: the clear on SARINIT and the order of the shifts are what gives it.
LowBitsClear ==
    Converting /\ sr # 0 => data % (2 * Weight[sr]) = 0

AtMostWidth(n) == IF n < Width THEN n ELSE Width

\* With nbit held through the conversion, nbit + 2 bits are tried, and never
\* more than there are: tc is registered, so the FSM sees it an edge late and
\* tries one bit more than the counter counted.
ResolutionAsSelected ==
    done /\ seen.steady =>
        /\ seen.bits = AtMostWidth(nbit + 2)
        /\ sr = Width - seen.bits
=============================================================================
