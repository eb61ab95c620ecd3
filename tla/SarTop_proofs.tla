---------------------------- MODULE SarTop_proofs ----------------------------
(***************************************************************************)
(* What Lab4 promises: the converter, for every width, every set of switch *)
(* values and every input voltage; its clock divider, for every width of   *)
(* the counter and every way clkdivisor may move; and the two together.    *)
(***************************************************************************)
EXTENDS SarTop, TLAPS

-----------------------------------------------------------------------------
(***************************************************************************)
(* Arithmetic.                                                             *)
(***************************************************************************)

\* Quotient and remainder are the only ones of their kind.
LEMMA DivUnique ==
    ASSUME NEW q \in Int, NEW w \in Nat \ {0}, NEW r \in 0..(w - 1)
    PROVE  /\ (q * w + r) \div w = q
           /\ (q * w + r) % w = r
OBVIOUS

\* A multiple of 2w has the bit of weight w clear, and is, with or without
\* that bit added, a multiple of w: one step of the data path.
LEMMA ClearBit ==
    ASSUME NEW d \in Nat, NEW w \in Nat \ {0}, d % (2 * w) = 0
    PROVE  /\ (d \div w) % 2 = 0
           /\ d % w = 0
           /\ (d + w) % w = 0
<1> DEFINE q == d \div (2 * w)
<1>1. q \in Int /\ 2 * w \in Nat \ {0}
  OBVIOUS
<1>2. d = q * (2 * w)
  OBVIOUS
<1>3. d = (2 * q) * w + 0 /\ d + w = (2 * q + 1) * w + 0
  BY <1>1, <1>2
<1> HIDE DEF q
<1>4. d \div w = 2 * q /\ d % w = 0
  BY <1>1, <1>3, DivUnique
<1>5. (d + w) % w = 0
  BY <1>1, <1>3, DivUnique
<1>6. (2 * q) % 2 = 0
  BY <1>1
<1> QED
  BY <1>4, <1>5, <1>6

-----------------------------------------------------------------------------
(***************************************************************************)
(* The weights.                                                            *)
(***************************************************************************)
LEMMA WeightFacts ==
    /\ FullScale \in Nat
    /\ \A k \in 1..Width :
          /\ Weight[k] \in Nat \ {0}
          /\ ShiftRight(k) \in 0..Width
          /\ \/ ShiftRight(k) = 0 /\ k = 1 /\ Weight[k] = 1
             \/ ShiftRight(k) # 0 /\ Weight[k] = 2 * Weight[ShiftRight(k)]
<1>1. FullScale \in Nat
  BY WidthAssumption, WeightAssumption DEF FullScale
<1>2. ASSUME NEW k \in 1..Width
      PROVE  /\ Weight[k] \in Nat \ {0}
             /\ ShiftRight(k) \in 0..Width
             /\ \/ ShiftRight(k) = 0 /\ k = 1 /\ Weight[k] = 1
                \/ ShiftRight(k) # 0 /\ Weight[k] = 2 * Weight[ShiftRight(k)]
  <2>1. Weight[k] \in Nat \ {0}
    BY WidthAssumption, WeightAssumption
  <2>2. CASE k = 1
    BY <2>1, <2>2, WidthAssumption, WeightAssumption DEF ShiftRight
  <2>3. CASE k # 1
    <3>1. k - 1 \in 1..(Width - 1) /\ (k - 1) + 1 = k
      BY <2>3, WidthAssumption
    <3>2. Weight[k] = 2 * Weight[k - 1]
      BY <3>1, WeightAssumption
    <3> QED
      BY <2>1, <3>1, <3>2, WidthAssumption DEF ShiftRight
  <2> QED
    BY <2>2, <2>3
<1> QED
  BY <1>1, <1>2

\* What a conversion under way needs of its OR: below full scale, it adds.
LEMMA OrAdds ==
    ASSUME TypeOK, LowBitsClear, Converting, sr # 0
    PROVE  OrBit(data, sr) = data + Weight[sr]
<1>1. sr \in 1..Width /\ data \in Nat
  BY WeightFacts DEF TypeOK
<1>2. Weight[sr] \in Nat \ {0}
  BY <1>1, WeightFacts
<1>3. data % (2 * Weight[sr]) = 0
  BY DEF LowBitsClear
<1>4. (data \div Weight[sr]) % 2 = 0
  BY <1>1, <1>2, <1>3, ClearBit
<1> QED
  BY <1>4 DEF OrBit, HasBit

-----------------------------------------------------------------------------
(***************************************************************************)
(* The inductive invariant.  ResultBracketed says something of the output  *)
(* only; it is inductive together with the bracket of the conversion under *)
(* way, and that needs the OR to be an addition.  The resolution needs how *)
(* far counter4 and the shift register have come, edge by edge.            *)
(***************************************************************************)
Counting ==
    Converting =>
        /\ seen.bits = Width - sr
        /\ state = "SARCONVERT" /\ seen.steady =>
              IF tc THEN seen.bits = AtMostWidth(nbit + 1)
                    ELSE count <= nbit /\ seen.bits = AtMostWidth(count)

IInv ==
    /\ TypeOK
    /\ ResultBracketed
    /\ ConversionBracketed
    /\ LowBitsClear
    /\ Counting
    /\ ResolutionAsSelected

LEMMA InitIInv == Init => IInv
<1> SUFFICES ASSUME Init PROVE IInv
  OBVIOUS
<1>1. ~Converting /\ ~done
  BY DEF Init, Converting, done
<1>2. TypeOK
  <2>1. NoSamples \in [lo : 0..FullScale, hi : 0..FullScale, bits : 0..Width, steady : BOOLEAN]
    BY WidthAssumption, WeightFacts DEF NoSamples
  <2>2. [lo |-> 0, hi |-> 0, left |-> 0] \in [lo : 0..FullScale, hi : 0..FullScale, left : 0..Width]
    BY WidthAssumption, WeightFacts
  <2>3. 0 \in 0..Width /\ 0 \in 0..FullScale /\ 0 \in 0..(CountMod - 1)
    BY WidthAssumption, InputAssumption, WeightFacts
  <2>4. seen = NoSamples /\ res = [lo |-> 0, hi |-> 0, left |-> 0]
    BY DEF Init
  <2>5. seen \in [lo : 0..FullScale, hi : 0..FullScale, bits : 0..Width, steady : BOOLEAN]
    BY <2>1, <2>4, Zenon
  <2>6. res \in [lo : 0..FullScale, hi : 0..FullScale, left : 0..Width]
    BY <2>2, <2>4, Zenon
  <2> QED
    BY <2>3, <2>5, <2>6 DEF Init, TypeOK, States
<1>3. ResultBracketed
  BY DEF Init, ResultBracketed, Slack
<1> QED
  BY <1>1, <1>2, <1>3
  DEF IInv, ConversionBracketed, LowBitsClear, Counting, ResolutionAsSelected

-----------------------------------------------------------------------------
(***************************************************************************)
(* One comparison.  sr10 selects a bit; the sample v narrows what is known *)
(* of the input by half, and the interval of the samples follows it.       *)
(***************************************************************************)
LEMMA Compare ==
    ASSUME IInv, state = "SARCONVERT", sr # 0, NEW v \in Vin
    PROVE  LET next == iter10(v)
               s    == Sample(seen, v)
               k    == ShiftRight(sr)
           IN  /\ next \in 0..FullScale
               /\ s.lo \in 0..FullScale
               /\ s.hi \in 0..FullScale
               /\ next <= s.hi
               /\ s.lo <= next + Slack(k)
               /\ next + Slack(k) <= FullScale
               /\ k # 0 => next % (2 * Weight[k]) = 0
<1> DEFINE w == Weight[sr]
           k == ShiftRight(sr)
           c == Clip(v)
           s == Sample(seen, v)
<1>1. /\ sr \in 1..Width /\ data \in 0..FullScale /\ v \in Int
      /\ seen.lo \in 0..FullScale /\ seen.hi \in 0..FullScale
      /\ FullScale \in Nat
  BY InputAssumption, WeightFacts DEF IInv, TypeOK
<1>2. w \in Nat \ {0}
  BY <1>1, WeightFacts
<1>3. Converting
  BY DEF Converting
<1>4. /\ data <= seen.hi
      /\ seen.lo <= data + 2 * w - 1
      /\ data + 2 * w - 1 <= FullScale
  BY <1>1, <1>2, <1>3 DEF IInv, ConversionBracketed, Slack
<1>5. OrBit(data, sr) = data + w
  BY <1>3, OrAdds DEF IInv
<1>6. Slack(k) = w - 1 /\ (k # 0 => w = 2 * Weight[k])
  BY <1>1, <1>2, WeightFacts DEF Slack
<1>7. /\ c \in 0..FullScale
      /\ data + w <= v <=> data + w <= c
  BY <1>1, <1>2, <1>4 DEF Clip
<1>8. /\ s.lo = IF c < seen.lo THEN c ELSE seen.lo
      /\ s.hi = IF c > seen.hi THEN c ELSE seen.hi
  BY DEF Sample, IInv, TypeOK
<1>9. iter10(v) = IF data + w <= c THEN data + w ELSE data
  BY <1>1, <1>2, <1>5, <1>7 DEF iter10, comp, dacout
<1>10. k # 0 => iter10(v) % (2 * Weight[k]) = 0
  <2>1. data % (2 * w) = 0
    BY <1>3 DEF IInv, LowBitsClear
  <2>2. data % w = 0 /\ (data + w) % w = 0
    BY <1>1, <1>2, <2>1, ClearBit
  <2> QED
    BY <1>6, <1>9, <2>2
<1> HIDE DEF w, k, c, s
<1>11. /\ iter10(v) \in 0..FullScale
       /\ s.lo \in 0..FullScale
       /\ s.hi \in 0..FullScale
       /\ iter10(v) <= s.hi
       /\ s.lo <= iter10(v) + (w - 1)
       /\ iter10(v) + (w - 1) <= FullScale
  BY <1>1, <1>2, <1>4, <1>7, <1>8, <1>9
<1> QED
  BY <1>6, <1>10, <1>11 DEF k, s

-----------------------------------------------------------------------------
(***************************************************************************)
(* One lemma for each action, and the step that joins them.                *)
(***************************************************************************)
LEMMA KeptByReset == IInv /\ Reset => IInv'
<1> SUFFICES ASSUME IInv, Reset PROVE IInv'
  OBVIOUS
<1>1. ~Converting' /\ ~done'
  BY DEF Reset, Converting, done
<1>2. TypeOK'
  <2>1. seen' \in [lo : 0..FullScale, hi : 0..FullScale, bits : 0..Width, steady : BOOLEAN]
    BY WidthAssumption, WeightFacts DEF Reset, NoSamples
  <2>2. res' \in [lo : 0..FullScale, hi : 0..FullScale, left : 0..Width]
    BY WidthAssumption, WeightFacts DEF Reset
  <2>3. 0 \in 0..Width /\ 0 \in 0..FullScale /\ 0 \in 0..(CountMod - 1)
    BY WidthAssumption, InputAssumption, WeightFacts
  <2> QED
    BY <2>1, <2>2, <2>3 DEF Reset, IInv, TypeOK, States
<1>3. ResultBracketed'
  BY DEF Reset, ResultBracketed, Slack
<1> QED
  BY <1>1, <1>2, <1>3
  DEF IInv, ConversionBracketed, LowBitsClear, Counting, ResolutionAsSelected

LEMMA KeptBySetInputs == IInv /\ SetInputs => IInv'
<1> SUFFICES ASSUME IInv, SetInputs PROVE IInv'
  OBVIOUS
<1>1. /\ UNCHANGED <<state, sr, data, adcout, count, tc, res>>
      /\ nbit' \in NBits /\ run' \in BOOLEAN
  BY DEF SetInputs, registers
<1>2. /\ seen'.lo = seen.lo /\ seen'.hi = seen.hi /\ seen'.bits = seen.bits
      /\ seen'.steady => seen.steady /\ nbit' = nbit
      /\ seen' \in [lo : 0..FullScale, hi : 0..FullScale, bits : 0..Width, steady : BOOLEAN]
  BY DEF SetInputs, IInv, TypeOK
<1>3. TypeOK'
  BY <1>1, <1>2 DEF IInv, TypeOK
<1>4. ResultBracketed' /\ ConversionBracketed' /\ LowBitsClear'
  BY <1>1, <1>2
  DEF IInv, ResultBracketed, ConversionBracketed, LowBitsClear, Converting, Slack
<1>5. Counting'
  BY <1>1, <1>2 DEF IInv, Counting, Converting, AtMostWidth
<1>6. ResolutionAsSelected'
  BY <1>1, <1>2 DEF IInv, ResolutionAsSelected, done, AtMostWidth
<1> QED
  BY <1>3, <1>4, <1>5, <1>6 DEF IInv

LEMMA KeptByEdgeIdle == IInv /\ EdgeIdle => IInv'
<1> SUFFICES ASSUME IInv, EdgeIdle PROVE IInv'
  OBVIOUS
<1>1. ~Converting' /\ ~done' /\ state' \in States
  BY DEF EdgeIdle, Converting, done, States
<1>2. TypeOK' /\ ResultBracketed'
  BY <1>1 DEF EdgeIdle, IInv, TypeOK, ResultBracketed, Slack
<1> QED
  BY <1>1, <1>2
  DEF IInv, ConversionBracketed, LowBitsClear, Counting, ResolutionAsSelected

LEMMA KeptByEdgeInit == IInv /\ EdgeInit => IInv'
<1> SUFFICES ASSUME IInv, EdgeInit PROVE IInv'
  OBVIOUS
<1>1. /\ state' = "SARCONVERT" /\ sr' = Width /\ data' = 0 /\ count' = 0
      /\ tc' = FALSE /\ seen' = NoSamples
      /\ UNCHANGED <<adcout, run, nbit, res>>
  BY DEF EdgeInit
<1>2. /\ Width \in 1..Width /\ Width \in Nat /\ FullScale \in Nat
      /\ Weight[Width] \in Nat \ {0}
  BY WidthAssumption, WeightFacts
<1>3. TypeOK'
  <2>1. seen' \in [lo : 0..FullScale, hi : 0..FullScale, bits : 0..Width, steady : BOOLEAN]
    BY <1>1, <1>2 DEF NoSamples
  <2>2. Width \in 0..Width /\ 0 \in 0..FullScale /\ 0 \in 0..(CountMod - 1)
    BY <1>2, InputAssumption
  <2> QED
    BY <1>1, <2>1, <2>2 DEF IInv, TypeOK, States
<1>4. ResultBracketed'
  BY <1>1 DEF IInv, ResultBracketed, Slack
<1>5. ConversionBracketed' /\ LowBitsClear'
  BY <1>1, <1>2 DEF ConversionBracketed, LowBitsClear, NoSamples, Slack, FullScale
<1>6. Counting'
  <2>1. nbit \in Nat
    BY InputAssumption DEF IInv, TypeOK
  <2> QED
    BY <1>1, <1>2, <2>1 DEF Counting, NoSamples, AtMostWidth
<1>7. ResolutionAsSelected'
  BY <1>1 DEF ResolutionAsSelected, done
<1> QED
  BY <1>3, <1>4, <1>5, <1>6, <1>7 DEF IInv

LEMMA KeptByEdgeLatch == IInv /\ EdgeLatch => IInv'
<1> SUFFICES ASSUME IInv, EdgeLatch PROVE IInv'
  OBVIOUS
<1>1. /\ state = "SARLATCH" /\ adcout' = data
      /\ res' = [lo |-> seen.lo, hi |-> seen.hi, left |-> sr]
      /\ UNCHANGED <<sr, data, count, tc, run, nbit, seen>>
  BY DEF EdgeLatch
<1>2. ~Converting' /\ ~done' /\ state' \in States
  BY DEF EdgeLatch, Converting, done, States
<1>3. TypeOK'
  <2>1. res' \in [lo : 0..FullScale, hi : 0..FullScale, left : 0..Width]
    BY <1>1 DEF IInv, TypeOK
  <2> QED
    BY <1>1, <1>2, <2>1 DEF IInv, TypeOK
<1>4. ResultBracketed'
  BY <1>1 DEF IInv, ConversionBracketed, Converting, ResultBracketed, Slack
<1> QED
  BY <1>2, <1>3, <1>4
  DEF IInv, ConversionBracketed, LowBitsClear, Counting, ResolutionAsSelected

LEMMA KeptByEdgeConvert == IInv /\ EdgeConvert => IInv'
<1> SUFFICES ASSUME IInv, EdgeConvert PROVE IInv'
  OBVIOUS
<1>1. /\ state = "SARCONVERT"
      /\ state' = IF tc THEN "SARLATCH" ELSE "SARCONVERT"
      /\ sr' = ShiftRight(sr)
      /\ count' = Counted(count, nbit, CountMod)
      /\ tc' = Matches(count, nbit)
      /\ UNCHANGED <<adcout, run, nbit, res>>
  BY DEF EdgeConvert
<1>2. PICK v \in Vin : data' = iter10(v) /\ seen' = Sample(seen, v)
  BY DEF EdgeConvert
<1>3. /\ Converting /\ Converting' /\ state' \in States
      /\ count \in 0..(CountMod - 1) /\ nbit \in 0..(CountMod - 1)
      /\ CountMod \in Nat \ {0} /\ Width \in Nat \ {0} /\ FullScale \in Nat
      /\ sr \in 0..Width /\ sr' \in 0..Width /\ tc \in BOOLEAN /\ tc' \in BOOLEAN
      /\ seen.bits \in 0..Width
  BY <1>1, WidthAssumption, InputAssumption, WeightFacts
  DEF Converting, States, IInv, TypeOK, ShiftRight, Matches
<1>4. count' \in 0..(CountMod - 1) /\ (count # nbit => count' = (count + 1) % CountMod)
  BY <1>1, <1>3 DEF Counted, Matches
<1>5. seen.bits = Width - sr
  BY <1>3 DEF IInv, Counting
<1>6. /\ data' \in 0..FullScale
      /\ seen' \in [lo : 0..FullScale, hi : 0..FullScale, bits : 0..Width, steady : BOOLEAN]
      /\ seen'.bits = Width - sr'
      /\ seen'.steady = seen.steady
      /\ ConversionBracketed'
      /\ LowBitsClear'
  <2>1. CASE sr = 0
    <3>1. data' = data /\ seen' = seen /\ sr' = sr
      BY <1>1, <1>2, <2>1 DEF iter10, OrBit, Sample, ShiftRight
    <3> QED
      BY <1>3, <1>5, <2>1, <3>1 DEF IInv, TypeOK, ConversionBracketed, LowBitsClear, Slack
  <2>2. CASE sr # 0
    <3>1. /\ data' \in 0..FullScale
          /\ seen'.lo \in 0..FullScale
          /\ seen'.hi \in 0..FullScale
          /\ data' <= seen'.hi
          /\ seen'.lo <= data' + Slack(sr')
          /\ data' + Slack(sr') <= FullScale
          /\ sr' # 0 => data' % (2 * Weight[sr']) = 0
      BY <1>1, <1>2, <2>2, Compare
    <3>2. seen'.bits = seen.bits + 1 /\ seen'.steady = seen.steady /\ sr' = sr - 1
      BY <1>1, <1>2, <2>2 DEF Sample, IInv, TypeOK, ShiftRight
    <3>3. seen'.bits \in 0..Width /\ seen'.bits = Width - sr'
      BY <1>3, <1>5, <2>2, <3>2
    <3>4. seen' \in [lo : 0..FullScale, hi : 0..FullScale, bits : 0..Width, steady : BOOLEAN]
      <4>1. seen' = [lo |-> seen'.lo, hi |-> seen'.hi, bits |-> seen'.bits, steady |-> seen'.steady]
        BY <1>2, <2>2 DEF Sample, IInv, TypeOK
      <4>2. seen'.steady \in BOOLEAN
        BY <3>2 DEF IInv, TypeOK
      <4> QED
        BY <3>1, <3>3, <4>1, <4>2
    <3> QED
      BY <3>1, <3>2, <3>3, <3>4 DEF ConversionBracketed, LowBitsClear, Slack
  <2> QED
    BY <2>1, <2>2
<1>7. TypeOK'
  BY <1>1, <1>3, <1>4, <1>6 DEF IInv, TypeOK
<1>8. ResultBracketed'
  BY <1>1 DEF IInv, ResultBracketed, Slack
<1>9. Counting'
  <2>1. CASE tc
    BY <1>1, <1>6, <2>1 DEF Counting
  <2>2. CASE ~tc
    <3>1. seen.steady => count <= nbit /\ seen.bits = AtMostWidth(count)
      BY <1>1, <1>3, <2>2 DEF IInv, Counting
    <3>2. seen'.bits = IF sr = 0 THEN seen.bits ELSE seen.bits + 1
      BY <1>1, <1>3, <1>5, <1>6 DEF ShiftRight
    <3>3. seen.steady => seen'.bits = AtMostWidth(count + 1)
      BY <1>3, <1>5, <3>1, <3>2 DEF AtMostWidth
    <3>4. count < nbit => count' = count + 1
      BY <1>3, <1>4
    <3>5. seen'.steady =>
            IF tc' THEN seen'.bits = AtMostWidth(nbit' + 1)
                   ELSE count' <= nbit' /\ seen'.bits = AtMostWidth(count')
      <4>1. nbit' = nbit /\ seen'.steady = seen.steady
        BY <1>1, <1>6
      <4>2. CASE count = nbit
        BY <1>1, <3>3, <4>1, <4>2 DEF Matches
      <4>3. CASE count # nbit
        <5>1. ~tc'
          BY <1>1, <4>3 DEF Matches
        <5>2. seen.steady => count' = count + 1 /\ count + 1 <= nbit
          BY <1>3, <3>1, <3>4, <4>3
        <5> QED
          BY <3>3, <4>1, <5>1, <5>2
      <4> QED
        BY <4>2, <4>3
    <3> QED
      BY <1>6, <3>5 DEF Counting, AtMostWidth
  <2> QED
    BY <1>3, <2>1, <2>2
<1>10. ResolutionAsSelected'
  <2>1. CASE ~tc
    BY <1>1, <2>1 DEF ResolutionAsSelected, done
  <2>2. CASE tc
    <3>1. seen.steady => seen.bits = AtMostWidth(nbit + 1)
      BY <1>1, <1>3, <2>2 DEF IInv, Counting
    <3>2. seen'.bits = IF sr = 0 THEN seen.bits ELSE seen.bits + 1
      BY <1>1, <1>3, <1>5, <1>6 DEF ShiftRight
    <3>3. seen'.steady => seen'.bits = AtMostWidth(nbit' + 2) /\ sr' = Width - seen'.bits
      BY <1>1, <1>3, <1>5, <1>6, <3>1, <3>2 DEF AtMostWidth
    <3> QED
      BY <3>3 DEF ResolutionAsSelected, AtMostWidth
  <2> QED
    BY <1>3, <2>1, <2>2
<1> QED
  BY <1>6, <1>7, <1>8, <1>9, <1>10 DEF IInv

LEMMA Inductive == IInv /\ [Next]_vars => IInv'
<1> SUFFICES ASSUME IInv, [Next]_vars PROVE IInv'
  OBVIOUS
<1>1. CASE Reset
  BY <1>1, KeptByReset
<1>2. CASE SetInputs
  BY <1>2, KeptBySetInputs
<1>3. CASE EdgeIdle
  BY <1>3, KeptByEdgeIdle
<1>4. CASE EdgeInit
  BY <1>4, KeptByEdgeInit
<1>5. CASE EdgeConvert
  BY <1>5, KeptByEdgeConvert
<1>6. CASE EdgeLatch
  BY <1>6, KeptByEdgeLatch
<1>7. CASE UNCHANGED vars
  BY <1>7
  DEF vars, registers, IInv, TypeOK, ResultBracketed, ConversionBracketed,
      LowBitsClear, Counting, ResolutionAsSelected, Converting, done, Slack, AtMostWidth
<1> QED
  BY <1>1, <1>2, <1>3, <1>4, <1>5, <1>6, <1>7 DEF Next, Edge

LEMMA Invariance == Spec => []IInv
BY InitIInv, Inductive, PTL DEF Spec

-----------------------------------------------------------------------------
\* Every register of the converter stays within its width: the OR of
\* datapath.vhd:71 and 83 never carries.
THEOREM Typing == Spec => []TypeOK
<1>1. IInv => TypeOK
  BY DEF IInv
<1> QED
  BY <1>1, Invariance, PTL

\* The output of the converter lies between the lowest and the highest input
\* its conversion compared, up to the bits nbit left out, however the input
\* moves during the conversion.
THEOREM Bracketing == Spec => []ResultBracketed
<1>1. IInv => ResultBracketed
  BY DEF IInv
<1> QED
  BY <1>1, Invariance, PTL

\* The conversion under way narrows the input bit by bit: what data10 holds,
\* with the bits still to come, covers the samples compared so far.
THEOREM Narrowing == Spec => []ConversionBracketed
<1>1. IInv => ConversionBracketed
  BY DEF IInv
<1> QED
  BY <1>1, Invariance, PTL

\* With nbit held, a conversion tries nbit + 2 bits of the Width there are.
THEOREM Resolution == Spec => []ResolutionAsSelected
<1>1. IInv => ResolutionAsSelected
  BY DEF IInv
<1> QED
  BY <1>1, Invariance, PTL

\* During a conversion no bit at or below the one under test is set, so that
\* trying it adds exactly its weight.
THEOREM LowBits == Spec => []LowBitsClear
<1>1. IInv => LowBitsClear
  BY DEF IInv
<1> QED
  BY <1>1, Invariance, PTL

-----------------------------------------------------------------------------
(***************************************************************************)
(* The clock divider.                                                      *)
(***************************************************************************)

\* Since the last rise of slowclock the counter has counted every board clock
\* and has not matched; at a divisor of zero it matches all the time.
DividerInv ==
    /\ DividerTypeOK
    /\ gap # -1 =>
          IF clkdivisor = 0 THEN slowclock /\ divcount = 0
          ELSE /\ gap = divcount /\ divcount <= clkdivisor
               /\ slowclock => divcount = 0

LEMMA DividerInit == TopInit => DividerInv
<1> SUFFICES ASSUME TopInit PROVE DividerInv
  OBVIOUS
<1>1. divcount = 0 /\ slowclock = FALSE /\ clkdivisor \in Divisors /\ gap = -1
  BY DEF TopInit
<1>2. 0 \in 0..(DivMod - 1) /\ -1 \in -1..(DivMod + 1)
  BY DivisorAssumption
<1> QED
  BY <1>1, <1>2 DEF DividerInv, DividerTypeOK, MaxGap

LEMMA DividerNext == DividerInv /\ [TopNext]_topVars => DividerInv'
<1> SUFFICES ASSUME DividerInv, [TopNext]_topVars PROVE DividerInv'
  OBVIOUS
<1>1. /\ DivMod \in Nat \ {0} /\ Divisors \subseteq 0..(DivMod - 1)
      /\ divcount \in 0..(DivMod - 1) /\ clkdivisor \in Divisors
      /\ slowclock \in BOOLEAN
      /\ gap \in -1..(DivMod + 1)
  BY DivisorAssumption DEF DividerInv, DividerTypeOK, MaxGap
<1>2. CASE BoardClock
  <2>1. /\ clkdivisor' = clkdivisor
        /\ slowclock' = (divcount = clkdivisor)
        /\ divcount' = IF divcount = clkdivisor THEN 0 ELSE (divcount + 1) % DivMod
        /\ gap' = IF ~slowclock /\ divcount = clkdivisor THEN 0
                  ELSE IF gap = -1 \/ gap = DivMod + 1 THEN gap ELSE gap + 1
    BY <1>2 DEF BoardClock, Matches, Counted, Rises, MaxGap
  <2>2. divcount' \in 0..(DivMod - 1)
    BY <1>1, <2>1
  <2>3. divcount < clkdivisor => (divcount + 1) % DivMod = divcount + 1
    <3>1. divcount < clkdivisor => divcount + 1 \in 0..(DivMod - 1)
      BY <1>1
    <3> QED
      BY <1>1, <3>1
  <2>4. DividerTypeOK'
    BY <1>1, <2>1, <2>2 DEF DividerTypeOK, MaxGap
  <2>5. CASE divcount = clkdivisor
    <3>1. slowclock' /\ divcount' = 0
      BY <2>1, <2>5
    <3>2. CASE ~slowclock
      BY <1>1, <2>1, <2>4, <2>5, <3>1, <3>2 DEF DividerInv
    <3>3. CASE slowclock
      <4>1. gap' # -1 => gap # -1
        BY <1>1, <2>1, <3>3
      <4>2. gap # -1 => clkdivisor = 0
        BY <2>5, <3>3 DEF DividerInv
      <4> QED
        BY <2>1, <2>4, <3>1, <4>1, <4>2 DEF DividerInv
    <3> QED
      BY <3>2, <3>3
  <2>6. CASE divcount # clkdivisor
    <3>1. ~slowclock'
      BY <2>1, <2>6
    <3>2. gap' # -1 => gap # -1
      BY <1>1, <2>1, <2>6
    <3>3. gap # -1 => /\ clkdivisor # 0 /\ gap = divcount /\ divcount < clkdivisor
                      /\ gap' = gap + 1
      BY <1>1, <2>1, <2>6 DEF DividerInv
    <3> QED
      BY <1>1, <2>1, <2>3, <2>4, <2>6, <3>1, <3>2, <3>3 DEF DividerInv
  <2> QED
    BY <2>5, <2>6
<1>3. CASE TopSwitches
  BY <1>3 DEF TopSwitches, divider, DividerInv, DividerTypeOK
<1>4. CASE SetDivisor
  BY <1>1, <1>4 DEF SetDivisor, DividerInv, DividerTypeOK, MaxGap
<1>5. CASE TopReset
  <2>1. divcount' = 0 /\ slowclock' = FALSE /\ clkdivisor' \in Divisors /\ gap' = -1
    BY <1>1, <1>5 DEF TopReset
  <2>2. 0 \in 0..(DivMod - 1) /\ -1 \in -1..(DivMod + 1)
    BY <1>1
  <2> QED
    BY <2>1, <2>2 DEF DividerInv, DividerTypeOK, MaxGap
<1>6. CASE UNCHANGED topVars
  BY <1>6 DEF topVars, divider, DividerInv, DividerTypeOK
<1> QED
  BY <1>2, <1>3, <1>4, <1>5, <1>6 DEF TopNext

LEMMA DividerAlways == TopSpec => []DividerInv
BY DividerInit, DividerNext, PTL DEF TopSpec

\* The divider's registers keep to their widths.
THEOREM DividerTyping == TopSpec => []DividerTypeOK
<1>1. DividerInv => DividerTypeOK
  BY DEF DividerInv
<1> QED
  BY <1>1, DividerAlways, PTL

\* slowclock rises every clkdivisor + 1 board clocks, whatever clkdivisor was
\* before it came to rest.
THEOREM Period == TopSpec => SlowClockPeriod
<1> DEFINE P == slowclock' /\ ~slowclock /\ gap # -1 => gap = clkdivisor
<1>1. DividerInv /\ [TopNext]_topVars => [P]_topVars
  <2> SUFFICES ASSUME DividerInv, TopNext, slowclock', ~slowclock, gap # -1
               PROVE  gap = clkdivisor
    OBVIOUS
  <2>1. slowclock' = (divcount = clkdivisor)
    <3>1. CASE BoardClock
      BY <3>1 DEF BoardClock, Matches
    <3>2. CASE TopSwitches \/ SetDivisor \/ TopReset
      BY <3>2 DEF TopSwitches, SetDivisor, TopReset, divider
    <3> QED
      BY <3>1, <3>2 DEF TopNext
  <2> QED
    BY <2>1 DEF DividerInv
<1> QED
  BY <1>1, DividerAlways, PTL DEF TopSpec, SlowClockPeriod

-----------------------------------------------------------------------------
(***************************************************************************)
(* The two together.                                                       *)
(***************************************************************************)

\* Behind its divider the converter is the converter of SarAdc: every board
\* clock is an edge of it or nothing, so what is proved of it holds in the top
\* entity (BoardClock, TopSwitches, SetDivisor and TopReset of sar.vhd).
THEOREM TopConverts == TopSpec => Spec
<1>1. TopInit => Init
  BY DEF TopInit
<1>2. [TopNext]_topVars => [Next]_vars
  <2>1. BoardClock => [Next]_vars
    BY DEF BoardClock, Next
  <2>2. TopSwitches \/ SetDivisor \/ TopReset => [Next]_vars
    BY DEF TopSwitches, SetDivisor, TopReset, Next, vars
  <2>3. UNCHANGED topVars => UNCHANGED vars
    BY DEF topVars
  <2> QED
    BY <2>1, <2>2, <2>3 DEF TopNext
<1> QED
  BY <1>1, <1>2, PTL DEF TopSpec, Spec
=============================================================================
