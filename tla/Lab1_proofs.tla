---------------------------- MODULE Lab1_proofs -----------------------------
(***************************************************************************)
(* Lab1: the ripple of the carry adds words of every width, and the count  *)
(* shown is right past the wrap of the integer behind it.                  *)
(***************************************************************************)
EXTENDS Lab1, WellFoundedInduction, TLAPS

-----------------------------------------------------------------------------
(***************************************************************************)
(* Carry and value are defined by recursion over the positions of a word.  *)
(* Induction is stated for a set of numbers, and that the recursion has a  *)
(* solution is an instance of it.                                          *)
(***************************************************************************)
LEMMA Induct ==
    ASSUME NEW T \in SUBSET Nat, 0 \in T, \A n \in T : n + 1 \in T
    PROVE  T = Nat
<1> SUFFICES ASSUME Nat \ T # {} PROVE FALSE
  OBVIOUS
<1> DEFINE R == OpToRel(<, Nat)
<1>1. IsWellFoundedOn(R, Nat)
  BY NatLessThanWellFounded
<1>2. \A a, b \in Nat : a < b => <<a, b>> \in R
  BY DEF OpToRel
<1> HIDE DEF R
<1>3. PICK x \in Nat \ T : \A y \in Nat \ T : ~(<<y, x>> \in R)
  BY <1>1, WFMin
<1>4. x # 0 /\ x - 1 \in Nat /\ x - 1 < x /\ (x - 1) + 1 = x
  BY <1>3
<1>5. x - 1 \in T
  BY <1>2, <1>3, <1>4
<1> QED
  BY <1>3, <1>4, <1>5

\* A function that starts at a and goes on by g.
LEMMA Recursion ==
    ASSUME NEW n \in Nat, NEW a \in Nat, NEW g \in [0..(n - 1) -> [Nat -> Nat]]
    PROVE  \E f \in [0..n -> Nat] : f[0] = a /\ \A i \in 1..n : f[i] = g[i - 1][f[i - 1]]
<1> DEFINE Solves(f, m) == f[0] = a /\ \A i \in 1..m : f[i] = g[i - 1][f[i - 1]]
           Solvable(m) == \E f \in [0..m -> Nat] : Solves(f, m)
           T == {m \in Nat : m <= n => Solvable(m)}
<1>1. Solvable(0)
  <2> DEFINE f == [i \in 0..0 |-> a]
  <2>1. f \in [0..0 -> Nat] /\ Solves(f, 0)
    OBVIOUS
  <2> QED
    BY <2>1
<1>2. ASSUME NEW m \in Nat, m + 1 <= n, Solvable(m) PROVE Solvable(m + 1)
  <2>1. PICK e \in [0..m -> Nat] : Solves(e, m)
    BY <1>2
  <2> DEFINE f == [i \in 0..(m + 1) |-> IF i <= m THEN e[i] ELSE g[m][e[m]]]
  <2>2. m \in 0..m /\ m \in 0..(n - 1)
    BY <1>2
  <2>3. g[m] \in [Nat -> Nat] /\ e[m] \in Nat
    BY <2>2
  <2>4. g[m][e[m]] \in Nat
    BY <2>3
  <2>5. f \in [0..(m + 1) -> Nat]
    <3>1. \A i \in 0..(m + 1) : i <= m => e[i] \in Nat
      OBVIOUS
    <3> QED
      BY <2>4, <3>1
  <2>6. f[0] = a
    BY <2>1
  <2>7. ASSUME NEW i \in 1..(m + 1) PROVE f[i] = g[i - 1][f[i - 1]]
    <3>1. i - 1 \in 0..m /\ i \in 0..(m + 1) /\ i - 1 \in 0..(m + 1)
      OBVIOUS
    <3>2. f[i - 1] = e[i - 1]
      BY <3>1
    <3>3. CASE i <= m
      <4>1. i \in 1..m /\ f[i] = e[i]
        BY <3>1, <3>3
      <4> QED
        BY <2>1, <3>2, <4>1
    <3>4. CASE i = m + 1
      <4>1. i - 1 = m /\ f[i] = g[m][e[m]]
        BY <3>1, <3>4
      <4> QED
        BY <3>2, <4>1
    <3> QED
      BY <3>3, <3>4
  <2> HIDE DEF f
  <2> QED
    BY <2>5, <2>6, <2>7
<1> HIDE DEF Solvable
<1>3. 0 \in T
  BY <1>1
<1>4. ASSUME NEW m \in T PROVE m + 1 \in T
  BY <1>2
<1>5. T \in SUBSET Nat
  OBVIOUS
<1> HIDE DEF T
<1>6. T = Nat
  BY <1>3, <1>4, <1>5, Induct
<1>7. Solvable(n)
  <2>1. \A m \in T : m <= n => Solvable(m)
    BY DEF T
  <2> QED
    BY <1>6, <2>1
<1> QED
  BY <1>7 DEF Solvable

-----------------------------------------------------------------------------
(***************************************************************************)
(* The adder.                                                              *)
(***************************************************************************)
LEMMA WidthFacts ==
    /\ NBIT \in Nat \ {0} /\ Widest \in Nat /\ NBIT <= Widest
    /\ \A k \in 0..NBIT : Weight[k] \in Nat
    /\ \A k \in 0..(NBIT - 1) : Weight[k + 1] = 2 * Weight[k]
BY Lab1Assumption, WeightAssumption DEF Widest

\* The carry into each full adder is the carry out of the one before.
LEMMA Carry ==
    ASSUME NEW A \in Word, NEW B \in Word, NEW C_in \in Bit
    PROVE  /\ C_i(A, B, C_in) \in [0..NBIT -> Bit]
           /\ C_i(A, B, C_in)[0] = C_in
           /\ \A i \in 0..(NBIT - 1) :
                C_i(A, B, C_in)[i + 1] = C_outOf(A[i], B[i], C_i(A, B, C_in)[i])
<1> DEFINE c == C_i(A, B, C_in)
           Step(f) == [i \in 0..NBIT |-> IF i = 0 THEN C_in ELSE C_outOf(A[i - 1], B[i - 1], f[i - 1])]
<1>1. NBIT \in Nat \ {0}
  BY WidthFacts
<1>2. \A x, y, z : C_outOf(x, y, z) \in Bit /\ C_outOf(x, y, z) \in Nat
  BY DEF C_outOf, Bit
<1>3. PICK g \in [0..(NBIT - 1) -> [Nat -> Nat]] :
           g = [i \in 0..(NBIT - 1) |-> [x \in Nat |-> C_outOf(A[i], B[i], x)]]
  <2> DEFINE h == [i \in 0..(NBIT - 1) |-> [x \in Nat |-> C_outOf(A[i], B[i], x)]]
  <2>1. h \in [0..(NBIT - 1) -> [Nat -> Nat]]
    BY <1>2
  <2> QED
    BY <2>1
<1>4. PICK f \in [0..NBIT -> Nat] : f[0] = C_in /\ \A i \in 1..NBIT : f[i] = g[i - 1][f[i - 1]]
  <2>1. NBIT \in Nat /\ C_in \in Nat
    BY <1>1 DEF Bit
  <2> QED
    BY <2>1, Recursion
<1>5. f = Step(f)
  <2>1. ASSUME NEW i \in 1..NBIT PROVE f[i] = C_outOf(A[i - 1], B[i - 1], f[i - 1])
    <3>1. i - 1 \in 0..(NBIT - 1) /\ i - 1 \in 0..NBIT
      BY <1>1
    <3>2. f[i - 1] \in Nat
      BY <3>1
    <3>3. g[i - 1][f[i - 1]] = C_outOf(A[i - 1], B[i - 1], f[i - 1])
      BY <1>3, <3>1, <3>2
    <3> QED
      BY <1>4, <3>3
  <2>2. \A i \in 0..NBIT : f[i] = IF i = 0 THEN C_in ELSE C_outOf(A[i - 1], B[i - 1], f[i - 1])
    BY <1>1, <1>4, <2>1
  <2> QED
    BY <2>2
<1>6. c = Step(c)
  <2>1. c = CHOOSE e : e = Step(e)
    BY DEF C_i
  <2> HIDE DEF Step, c
  <2> QED
    BY <1>5, <2>1
<1> HIDE DEF c
<1>7. c[0] = C_in
  BY <1>1, <1>6
<1>8. ASSUME NEW i \in 0..(NBIT - 1) PROVE c[i + 1] = C_outOf(A[i], B[i], c[i])
  <2>1. i + 1 \in 0..NBIT /\ i + 1 # 0 /\ (i + 1) - 1 = i
    BY <1>1
  <2> QED
    BY <1>6, <2>1
<1> DEFINE T == {m \in Nat : m <= NBIT => c[m] \in Bit}
<1>9. T = Nat
  <2>1. 0 \in T
    BY <1>7
  <2>2. ASSUME NEW m \in T PROVE m + 1 \in T
    <3>1. SUFFICES ASSUME m + 1 <= NBIT PROVE c[m + 1] \in Bit
      OBVIOUS
    <3>2. m \in 0..(NBIT - 1)
      BY <1>1, <3>1
    <3> QED
      BY <1>2, <1>8, <3>2
  <2>3. T \in SUBSET Nat
    OBVIOUS
  <2> HIDE DEF T
  <2> QED
    BY <2>1, <2>2, <2>3, Induct
<1>10. c \in [0..NBIT -> Bit]
  <2>1. \A i \in 0..NBIT : c[i] \in Bit
    <3>1. \A i \in 0..NBIT : i \in Nat /\ i <= NBIT
      BY <1>1
    <3>2. \A m \in Nat : m \in T /\ m <= NBIT => c[m] \in Bit
      OBVIOUS
    <3> HIDE DEF T
    <3> QED
      BY <1>9, <3>1, <3>2
  <2>2. c = [i \in 0..NBIT |-> c[i]]
    <3>1. c = Step(c)
      BY <1>6
    <3> HIDE DEF Step
    <3>2. \A e : e = Step(e) => e = [i \in 0..NBIT |-> e[i]]
      BY DEF Step
    <3> QED
      BY <3>1, <3>2
  <2> QED
    BY <2>1, <2>2
<1> QED
  BY <1>7, <1>8, <1>10 DEF c

\* What the bits below a position are worth, position by position.
LEMMA Digits ==
    ASSUME NEW w \in Word
    PROVE  /\ Below(w)[0] = 0
           /\ \A i \in 0..NBIT : Below(w)[i] \in Nat
           /\ \A i \in 0..(NBIT - 1) : Below(w)[i + 1] = Below(w)[i] + w[i] * Weight[i]
<1> DEFINE v == Below(w)
           Step(f) == [i \in 0..NBIT |-> IF i = 0 THEN 0 ELSE f[i - 1] + w[i - 1] * Weight[i - 1]]
<1>1. NBIT \in Nat \ {0}
  BY WidthFacts
<1>2. \A i \in 0..(NBIT - 1) : w[i] * Weight[i] \in Nat
  <2> TAKE i \in 0..(NBIT - 1)
  <2>1. w[i] \in Nat /\ Weight[i] \in Nat
    BY WidthFacts DEF Word, Bit
  <2> QED
    BY <2>1
<1>3. PICK g \in [0..(NBIT - 1) -> [Nat -> Nat]] :
           g = [i \in 0..(NBIT - 1) |-> [x \in Nat |-> x + w[i] * Weight[i]]]
  <2> DEFINE h == [i \in 0..(NBIT - 1) |-> [x \in Nat |-> x + w[i] * Weight[i]]]
  <2>1. h \in [0..(NBIT - 1) -> [Nat -> Nat]]
    BY <1>2
  <2> QED
    BY <2>1
<1>4. PICK f \in [0..NBIT -> Nat] : f[0] = 0 /\ \A i \in 1..NBIT : f[i] = g[i - 1][f[i - 1]]
  <2>1. NBIT \in Nat /\ 0 \in Nat
    BY <1>1
  <2> QED
    BY <2>1, Recursion
<1>5. f = Step(f)
  <2>1. ASSUME NEW i \in 1..NBIT PROVE f[i] = f[i - 1] + w[i - 1] * Weight[i - 1]
    <3>1. i - 1 \in 0..(NBIT - 1) /\ i - 1 \in 0..NBIT
      BY <1>1
    <3>2. f[i - 1] \in Nat
      BY <3>1
    <3>3. g[i - 1][f[i - 1]] = f[i - 1] + w[i - 1] * Weight[i - 1]
      BY <1>3, <3>1, <3>2
    <3> QED
      BY <1>4, <3>3
  <2>2. \A i \in 0..NBIT : f[i] = IF i = 0 THEN 0 ELSE f[i - 1] + w[i - 1] * Weight[i - 1]
    BY <1>1, <1>4, <2>1
  <2> QED
    BY <2>2
<1>6. v = Step(v)
  <2>1. v = CHOOSE e : e = Step(e)
    BY DEF Below
  <2> HIDE DEF Step, v
  <2> QED
    BY <1>5, <2>1
<1> HIDE DEF v
<1>7. v[0] = 0
  BY <1>1, <1>6
<1>8. ASSUME NEW i \in 0..(NBIT - 1) PROVE v[i + 1] = v[i] + w[i] * Weight[i]
  <2>1. i + 1 \in 0..NBIT /\ i + 1 # 0 /\ (i + 1) - 1 = i
    BY <1>1
  <2> QED
    BY <1>6, <2>1
<1> DEFINE T == {m \in Nat : m <= NBIT => v[m] \in Nat}
<1>9. T = Nat
  <2>1. 0 \in T
    BY <1>7
  <2>2. ASSUME NEW m \in T PROVE m + 1 \in T
    <3>1. SUFFICES ASSUME m + 1 <= NBIT PROVE v[m + 1] \in Nat
      OBVIOUS
    <3>2. m \in 0..(NBIT - 1) /\ v[m] \in Nat
      BY <1>1, <3>1
    <3> QED
      BY <1>2, <1>8, <3>2
  <2>3. T \in SUBSET Nat
    OBVIOUS
  <2> HIDE DEF T
  <2> QED
    BY <2>1, <2>2, <2>3, Induct
<1>10. \A i \in 0..NBIT : v[i] \in Nat
  <2>1. \A i \in 0..NBIT : i \in Nat /\ i <= NBIT
    BY <1>1
  <2>2. \A m \in Nat : m \in T /\ m <= NBIT => v[m] \in Nat
    OBVIOUS
  <2> HIDE DEF T
  <2> QED
    BY <1>9, <2>1, <2>2
<1> QED
  BY <1>7, <1>8, <1>10 DEF v

\* One full adder: the sum bit and twice the carry are the three bits' sum.
LEMMA FullAdder ==
    ASSUME NEW x \in Bit, NEW y \in Bit, NEW z \in Bit
    PROVE  /\ S(x, y, z) \in Bit /\ C_outOf(x, y, z) \in Bit
           /\ S(x, y, z) + 2 * C_outOf(x, y, z) = x + y + z
BY DEF Bit, S, C_outOf

\* The chain of them: at each position what is summed so far, with the carry
\* into the position, is the sum of what the operands have below it.
LEMMA RippleAdds ==
    ASSUME NEW A \in Word, NEW B \in Word, NEW C_in \in Bit
    PROVE  LET c == C_i(A, B, C_in)
               sum == [i \in 0..(NBIT - 1) |-> S(A[i], B[i], c[i])]
           IN  /\ sum \in Word /\ c[NBIT] \in Bit
               /\ c[NBIT] * Weight[NBIT] + Value(sum) = Value(A) + Value(B) + C_in
<1> DEFINE c == C_i(A, B, C_in)
           sum == [i \in 0..(NBIT - 1) |-> S(A[i], B[i], c[i])]
           a == Below(A)
           b == Below(B)
           s == Below(sum)
           Summed(i) == c[i] * Weight[i] + s[i] = a[i] + b[i] + C_in
           T == {m \in Nat : m <= NBIT => Summed(m)}
<1>1. NBIT \in Nat \ {0} /\ Weight[0] = 1
  BY WidthFacts, WeightAssumption
<1>2. /\ c \in [0..NBIT -> Bit] /\ c[0] = C_in
      /\ \A i \in 0..(NBIT - 1) : c[i + 1] = C_outOf(A[i], B[i], c[i])
  BY Carry
<1> HIDE DEF c
<1>3. \A i \in 0..(NBIT - 1) : A[i] \in Bit /\ B[i] \in Bit /\ c[i] \in Bit
  BY <1>1, <1>2 DEF Word
<1>4. sum \in Word
  BY <1>3, FullAdder DEF Word
<1>5. \A i \in 0..(NBIT - 1) : sum[i] = S(A[i], B[i], c[i])
  OBVIOUS
<1> HIDE DEF sum
<1>6. /\ a[0] = 0 /\ \A i \in 0..NBIT : a[i] \in Nat
      /\ \A i \in 0..(NBIT - 1) : a[i + 1] = a[i] + A[i] * Weight[i]
  BY Digits
<1>7. /\ b[0] = 0 /\ \A i \in 0..NBIT : b[i] \in Nat
      /\ \A i \in 0..(NBIT - 1) : b[i + 1] = b[i] + B[i] * Weight[i]
  BY Digits
<1>8. /\ s[0] = 0 /\ \A i \in 0..NBIT : s[i] \in Nat
      /\ \A i \in 0..(NBIT - 1) : s[i + 1] = s[i] + sum[i] * Weight[i]
  BY <1>4, Digits
<1> HIDE DEF a, b, s
<1>9. Summed(0)
  BY <1>1, <1>2, <1>6, <1>7, <1>8 DEF Bit
<1>10. ASSUME NEW m \in 0..(NBIT - 1), Summed(m) PROVE Summed(m + 1)
  <2>1. m \in 0..NBIT /\ m + 1 \in 0..NBIT
    BY <1>1
  <2>2. PICK x \in Bit, y \in Bit, z \in Bit : x = A[m] /\ y = B[m] /\ z = c[m]
    BY <1>3
  <2>3. PICK r \in Bit, d \in Bit : r = sum[m] /\ d = c[m + 1] /\ r + 2 * d = x + y + z
    BY <1>2, <1>5, <2>2, FullAdder
  <2>4. PICK W \in Nat : W = Weight[m] /\ Weight[m + 1] = 2 * W
    BY <2>1, WidthFacts
  <2>5. a[m] \in Nat /\ b[m] \in Nat /\ s[m] \in Nat /\ C_in \in Nat
    BY <1>6, <1>7, <1>8, <2>1 DEF Bit
  <2>6. z * W + s[m] = a[m] + b[m] + C_in
    BY <1>10, <2>2, <2>4
  <2>7. d * (2 * W) + r * W = x * W + y * W + z * W
    <3>1. r * W + (2 * d) * W = (r + 2 * d) * W /\ x * W + y * W + z * W = (x + y + z) * W
          /\ d * (2 * W) = (2 * d) * W
      BY DEF Bit
    <3>2. (r + 2 * d) * W = (x + y + z) * W
      BY <2>3
    <3>3. r * W \in Int /\ (2 * d) * W \in Int
      BY DEF Bit
    <3> QED
      BY <3>1, <3>2, <3>3
  <2>8. /\ a[m + 1] = a[m] + x * W /\ b[m + 1] = b[m] + y * W
        /\ s[m + 1] = s[m] + r * W /\ c[m + 1] * Weight[m + 1] = d * (2 * W)
    BY <1>6, <1>7, <1>8, <2>2, <2>3, <2>4
  <2>9. /\ x * W \in Nat /\ y * W \in Nat /\ z * W \in Nat /\ r * W \in Nat
        /\ d * (2 * W) \in Nat
    BY DEF Bit
  <2> QED
    BY <2>5, <2>6, <2>7, <2>8, <2>9
<1> HIDE DEF Summed
<1>11. Summed(NBIT)
  <2>1. 0 \in T
    BY <1>9
  <2>2. ASSUME NEW m \in T PROVE m + 1 \in T
    <3>1. SUFFICES ASSUME m + 1 <= NBIT PROVE Summed(m + 1)
      OBVIOUS
    <3>2. m \in 0..(NBIT - 1) /\ Summed(m)
      BY <1>1, <3>1
    <3> QED
      BY <1>10, <3>2
  <2>3. T \in SUBSET Nat
    OBVIOUS
  <2>4. \A m \in T : m <= NBIT => Summed(m)
    OBVIOUS
  <2> HIDE DEF T
  <2> QED
    BY <1>1, <2>1, <2>2, <2>3, <2>4, Induct
<1>12. c[NBIT] \in Bit
  BY <1>1, <1>2
<1> QED
  BY <1>4, <1>11, <1>12 DEF Summed, Value, a, b, s, c, sum

-----------------------------------------------------------------------------
(***************************************************************************)
(* The counter.                                                            *)
(***************************************************************************)
Counts == Weight[CountBits]
Half == Weight[IntBits - 1]

\* The integer's values are a whole number of rounds of the display's.
LEMMA Rounds ==
    /\ Counts \in Nat \ {0} /\ Half \in Nat \ {0}
    /\ \E k \in Nat : 2 * Half = k * Counts
<1>1. /\ CountBits \in Nat \ {0} /\ IntBits \in Nat /\ IntBits >= CountBits
      /\ Widest \in Nat /\ IntBits <= Widest
  BY Lab1Assumption DEF Widest
<1>2. /\ \A j \in 0..Widest : Weight[j] \in Nat
      /\ Weight[0] = 1
      /\ \A j \in 0..(Widest - 1) : Weight[j + 1] = 2 * Weight[j]
  BY WeightAssumption
<1> DEFINE P == {j \in Nat : j <= Widest => Weight[j] # 0}
           Divides(j) == \E k \in Nat : Weight[CountBits + j] = k * Counts
           T == {j \in Nat : CountBits + j <= IntBits => Divides(j)}
<1>3. P = Nat
  <2>1. 0 \in P
    BY <1>2
  <2>2. ASSUME NEW j \in P PROVE j + 1 \in P
    <3>1. SUFFICES ASSUME j + 1 <= Widest PROVE Weight[j + 1] # 0
      OBVIOUS
    <3>2. j \in 0..(Widest - 1) /\ j \in 0..Widest /\ Weight[j] # 0
      BY <1>1, <3>1
    <3>3. Weight[j] \in Nat /\ Weight[j + 1] = 2 * Weight[j]
      BY <1>2, <3>2
    <3> QED
      BY <3>2, <3>3
  <2>3. P \in SUBSET Nat
    OBVIOUS
  <2> HIDE DEF P
  <2> QED
    BY <2>1, <2>2, <2>3, Induct
<1>4. \A j \in 0..Widest : Weight[j] \in Nat \ {0}
  <2>1. \A j \in P : j <= Widest => Weight[j] # 0
    OBVIOUS
  <2> HIDE DEF P
  <2> QED
    BY <1>1, <1>2, <1>3, <2>1
<1>5. Counts \in Nat \ {0} /\ Half \in Nat \ {0}
  BY <1>1, <1>4 DEF Counts, Half
<1>6. Divides(0)
  <2>1. CountBits + 0 = CountBits /\ Weight[CountBits] = 1 * Counts
    BY <1>1, <1>5 DEF Counts
  <2> QED
    BY <2>1
<1>7. ASSUME NEW j \in Nat, CountBits + j + 1 <= IntBits, Divides(j) PROVE Divides(j + 1)
  <2>1. PICK k \in Nat : Weight[CountBits + j] = k * Counts
    BY <1>7
  <2>2. CountBits + j \in 0..(Widest - 1) /\ CountBits + (j + 1) = (CountBits + j) + 1
    BY <1>1, <1>7
  <2>3. Weight[CountBits + (j + 1)] = 2 * (k * Counts)
    BY <1>2, <2>1, <2>2
  <2>4. 2 * (k * Counts) = (2 * k) * Counts /\ 2 * k \in Nat
    BY <1>5
  <2> QED
    BY <2>3, <2>4
<1> HIDE DEF Divides
<1>8. Divides(IntBits - CountBits)
  <2>1. 0 \in T
    BY <1>6
  <2>2. ASSUME NEW j \in T PROVE j + 1 \in T
    <3>1. SUFFICES ASSUME CountBits + (j + 1) <= IntBits PROVE Divides(j + 1)
      OBVIOUS
    <3>2. CountBits + j + 1 <= IntBits /\ Divides(j)
      BY <1>1, <3>1
    <3> QED
      BY <1>7, <3>2
  <2>3. T \in SUBSET Nat
    OBVIOUS
  <2>4. \A j \in T : CountBits + j <= IntBits => Divides(j)
    OBVIOUS
  <2>5. IntBits - CountBits \in Nat /\ CountBits + (IntBits - CountBits) <= IntBits
    BY <1>1
  <2> HIDE DEF T
  <2> QED
    BY <2>1, <2>2, <2>3, <2>4, <2>5, Induct
<1>9. Weight[IntBits] = 2 * Half
  <2>1. IntBits - 1 \in 0..(Widest - 1) /\ (IntBits - 1) + 1 = IntBits
    BY <1>1
  <2> QED
    BY <1>2, <2>1 DEF Half
<1>10. CountBits + (IntBits - CountBits) = IntBits
  BY <1>1
<1> QED
  BY <1>5, <1>8, <1>9, <1>10 DEF Divides

\* Numbers a whole number of rounds apart show the same.
LEMMA Congruent ==
    \A x, y, k \in Int : x = y + k * Counts => x % Counts = y % Counts
<1> SUFFICES ASSUME NEW x \in Int, NEW y \in Int, NEW k \in Int, x = y + k * Counts
             PROVE  x % Counts = y % Counts
  OBVIOUS
<1>0. PICK M \in Nat \ {0} : M = Counts
  BY Rounds
<1> DEFINE q == y \div M
           r == y % M
<1>1. q \in Int /\ r \in 0..(M - 1) /\ y = q * M + r
  OBVIOUS
<1> HIDE DEF q, r
<1>2. x = (q + k) * M + r /\ q + k \in Int
  BY <1>0, <1>1
<1>3. \A p \in Int : (p * M + r) % M = r
  BY <1>1
<1>4. x % M = r
  BY <1>2, <1>3
<1> QED
  BY <1>0, <1>4 DEF r

\* One edge, wrap or not, moves what is shown by one.
LEMMA NextCount ==
    ASSUME NEW n \in (-Half)..(Half - 1)
    PROVE  /\ Successor(n) \in (-Half)..(Half - 1)
           /\ Successor(n) % Counts = ((n % Counts) + 1) % Counts
<1>1. Counts \in Nat \ {0} /\ Half \in Nat \ {0}
  BY Rounds
<1>2. PICK k \in Nat : 2 * Half = k * Counts
  BY Rounds
<1>3. Successor(n) = IF n = Half - 1 THEN -Half ELSE n + 1
  BY DEF Successor, Half
<1>4. Successor(n) \in (-Half)..(Half - 1)
  BY <1>1, <1>3
<1>5. (n + 1) % Counts = ((n % Counts) + 1) % Counts
  <2>1. n % Counts \in Int /\ n \div Counts \in Int /\ n = (n \div Counts) * Counts + (n % Counts)
    BY <1>1
  <2>2. n + 1 = ((n % Counts) + 1) + (n \div Counts) * Counts
    BY <1>1, <2>1
  <2> QED
    BY <2>1, <2>2, Congruent
<1>6. Successor(n) % Counts = (n + 1) % Counts
  <2>1. CASE n = Half - 1
    <3>1. n + 1 = Successor(n) + k * Counts /\ Successor(n) \in Int /\ n + 1 \in Int /\ k \in Int
      BY <1>1, <1>2, <1>3, <2>1
    <3> QED
      BY <3>1, Congruent
  <2>2. CASE n # Half - 1
    BY <1>3, <2>2
  <2> QED
    BY <2>1, <2>2
<1> QED
  BY <1>4, <1>5, <1>6

-----------------------------------------------------------------------------
(***************************************************************************)
(* The invariant: the registers hold words and bits, and the integer stays *)
(* within its range.  All of them are zero at first.                       *)
(***************************************************************************)
Registers ==
    /\ OP1_i \in Word /\ OP2_i \in Word /\ SUM_out_i \in Word
    /\ C_in_i \in Bit /\ C_out \in Bit /\ carried \in Bit

AdderInv == Registers /\ SumOfTwoEdges

CounterInv == COUNT \in (-Half)..(Half - 1) /\ EdgesCounted

IInv == AdderInv /\ CounterInv

LEMMA Cleared ==
    LET zero == [i \in 0..(NBIT - 1) |-> 0] IN zero \in Word /\ Value(zero) = 0
<1> DEFINE zero == [i \in 0..(NBIT - 1) |-> 0]
           b == Below(zero)
           T == {m \in Nat : m <= NBIT => b[m] = 0}
<1>1. NBIT \in Nat \ {0} /\ \A i \in 0..(NBIT - 1) : Weight[i] \in Nat
  BY WidthFacts
<1>2. zero \in Word /\ \A i \in 0..(NBIT - 1) : zero[i] = 0
  BY DEF Word, Bit
<1> HIDE DEF zero
<1>3. b[0] = 0 /\ \A i \in 0..(NBIT - 1) : b[i + 1] = b[i] + zero[i] * Weight[i]
  BY <1>2, Digits
<1> HIDE DEF b
<1>4. 0 \in T
  BY <1>3
<1>5. ASSUME NEW m \in T PROVE m + 1 \in T
  <2>1. SUFFICES ASSUME m + 1 <= NBIT PROVE b[m + 1] = 0
    OBVIOUS
  <2>2. m \in 0..(NBIT - 1) /\ b[m] = 0
    BY <1>1, <2>1
  <2>3. b[m + 1] = 0 + 0 * Weight[m] /\ Weight[m] \in Nat
    BY <1>1, <1>2, <1>3, <2>2
  <2> QED
    BY <2>3
<1>6. T \in SUBSET Nat
  OBVIOUS
<1>7. \A m \in T : m <= NBIT => b[m] = 0
  OBVIOUS
<1> HIDE DEF T
<1>8. b[NBIT] = 0
  BY <1>1, <1>4, <1>5, <1>6, <1>7, Induct
<1> QED
  BY <1>2, <1>8 DEF Value, b, zero

LEMMA AdderCleared ==
    ASSUME OP1_i = [i \in 0..(NBIT - 1) |-> 0], OP2_i = OP1_i, SUM_out_i = OP1_i,
           C_in_i = 0, C_out = 0, carried = 0
    PROVE  AdderInv
<1>1. Weight[NBIT] \in Nat
  BY WidthFacts
<1>2. OP1_i \in Word /\ Value(OP1_i) = 0
  BY Cleared
<1> QED
  BY <1>1, <1>2 DEF AdderInv, Registers, SumOfTwoEdges, Bit

LEMMA CounterCleared ==
    ASSUME COUNT = 0, edges = 0
    PROVE  CounterInv
<1>1. Counts \in Nat \ {0} /\ Half \in Nat \ {0}
  BY Rounds
<1>2. 0 % Counts = 0
  BY <1>1
<1> QED
  BY <1>1, <1>2 DEF CounterInv, EdgesCounted, D, Counts

LEMMA InitIInv == Init => IInv
BY AdderCleared, CounterCleared DEF Init, IInv

LEMMA KeptByAdderClock ==
    ASSUME IInv, AdderClock
    PROVE  IInv'
<1>1. OP1_i' \in Word /\ OP2_i' \in Word /\ C_in_i' \in Bit /\ C_in_i \in Bit
  BY DEF IInv, AdderInv, Registers, AdderClock
<1> DEFINE c == C_i(OP1_i', OP2_i', C_in_i)
           sum == [i \in 0..(NBIT - 1) |-> S(OP1_i'[i], OP2_i'[i], c[i])]
<1>2. /\ sum \in Word /\ c[NBIT] \in Bit
      /\ c[NBIT] * Weight[NBIT] + Value(sum) = Value(OP1_i') + Value(OP2_i') + C_in_i
  BY <1>1, RippleAdds
<1>3. SUM_out_i' = sum /\ C_out' = c[NBIT] /\ carried' = C_in_i
  BY DEF AdderClock
<1> HIDE DEF c, sum
<1>4. Registers'
  BY <1>1, <1>2, <1>3 DEF Registers
<1>5. SumOfTwoEdges'
  BY <1>2, <1>3 DEF SumOfTwoEdges, Value, Below
<1>6. CounterInv'
  BY DEF IInv, CounterInv, EdgesCounted, D, AdderClock, counter
<1> QED
  BY <1>4, <1>5, <1>6 DEF IInv, AdderInv

LEMMA KeptByAdderReset ==
    ASSUME IInv, AdderReset
    PROVE  IInv'
<1>1. AdderInv'
  <2>1. Weight[NBIT] \in Nat
    BY WidthFacts
  <2>2. OP1_i' \in Word /\ Value(OP1_i') = 0
    BY Cleared DEF AdderReset
  <2>3. /\ OP2_i' = OP1_i' /\ SUM_out_i' = OP1_i'
        /\ C_in_i' = 0 /\ C_out' = 0 /\ carried' = 0
    BY DEF AdderReset
  <2>4. SumOfTwoEdges'
    BY <2>1, <2>2, <2>3 DEF SumOfTwoEdges, Value, Below
  <2> QED
    BY <2>2, <2>3, <2>4 DEF AdderInv, Registers, Bit
<1>2. CounterInv'
  BY DEF IInv, CounterInv, EdgesCounted, D, AdderReset, counter
<1> QED
  BY <1>1, <1>2 DEF IInv

LEMMA KeptByCounterClock ==
    ASSUME IInv, CounterClock
    PROVE  IInv'
<1>1. COUNT \in (-Half)..(Half - 1) /\ COUNT % Counts = edges
  BY DEF IInv, CounterInv, EdgesCounted, D, Counts
<1>2. COUNT' = Successor(COUNT) /\ edges' = (edges + 1) % Counts
  BY DEF CounterClock, Counts
<1>3. COUNT' \in (-Half)..(Half - 1) /\ COUNT' % Counts = edges'
  BY <1>1, <1>2, NextCount
<1>4. CounterInv'
  BY <1>3 DEF CounterInv, EdgesCounted, D, Counts, Half
<1>5. AdderInv'
  BY DEF IInv, AdderInv, Registers, SumOfTwoEdges, Value, Below, CounterClock, adder
<1> QED
  BY <1>4, <1>5 DEF IInv

LEMMA KeptByCounterReset ==
    ASSUME IInv, CounterReset
    PROVE  IInv'
<1>1. Counts \in Nat \ {0} /\ Half \in Nat \ {0}
  BY Rounds
<1>2. 0 % Counts = 0
  BY <1>1
<1>3. CounterInv'
  BY <1>1, <1>2 DEF CounterReset, CounterInv, EdgesCounted, D, Counts, Half
<1>4. AdderInv'
  BY DEF IInv, AdderInv, Registers, SumOfTwoEdges, Value, Below, CounterReset, adder
<1> QED
  BY <1>3, <1>4 DEF IInv

LEMMA Inductive == IInv /\ [Next]_vars => IInv'
<1> SUFFICES ASSUME IInv, [Next]_vars PROVE IInv'
  OBVIOUS
<1>1. CASE AdderClock
  BY <1>1, KeptByAdderClock
<1>2. CASE AdderReset
  BY <1>2, KeptByAdderReset
<1>3. CASE CounterClock
  BY <1>3, KeptByCounterClock
<1>4. CASE CounterReset
  BY <1>4, KeptByCounterReset
<1>5. CASE UNCHANGED vars
  BY <1>5 DEF vars, adder, counter, IInv, AdderInv, Registers, SumOfTwoEdges, Value, Below,
              CounterInv, EdgesCounted, D
<1> QED
  BY <1>1, <1>2, <1>3, <1>4, <1>5 DEF Next

LEMMA Invariant == Spec => []IInv
BY InitIInv, Inductive, PTL DEF Spec

\* Words of every width: what task 2 shows is the sum of its operands of the
\* last edge and the carry of the edge before.
THEOREM Sums == Spec => []SumOfTwoEdges
<1>1. IInv => SumOfTwoEdges
  BY DEF IInv, AdderInv
<1> QED
  BY <1>1, Invariant, PTL

\* Outputs and integers of every width: task 4 shows how many edges there were,
\* also after its integer has wrapped.
THEOREM Counting == Spec => []EdgesCounted
<1>1. IInv => EdgesCounted
  BY DEF IInv, CounterInv
<1> QED
  BY <1>1, Invariant, PTL
=============================================================================
