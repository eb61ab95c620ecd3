-------------------------- MODULE Timestamp_proofs --------------------------
(***************************************************************************)
(* What alt_timestamp returns and how long a wait is, for every width of   *)
(* the counter, every wait and every pace of the processor.                *)
(***************************************************************************)
EXTENDS Timestamp, TLAPS

-----------------------------------------------------------------------------
(***************************************************************************)
(* Two halves make a counter.                                              *)
(***************************************************************************)

LEMMA Constants ==
    /\ Half \in Nat /\ Half >= 2
    /\ Full \in Nat /\ Full = Half * Half /\ Full >= 2
    /\ LoadValue \in 0..(Half - 1)
    /\ tpb \in 0..(Full - 1)
    /\ MaxGap \in Nat \ {0}
<1>1. Half \in Nat /\ Half >= 2
  BY TimestampAssumption
<1>2. Half * Half \in Nat /\ Half * Half >= 2
  BY <1>1
<1> QED
  BY <1>1, <1>2, TimestampAssumption DEF Full

LEMMA Compose ==
    ASSUME NEW h \in 0..(Half - 1), NEW l \in 0..(Half - 1)
    PROVE  h * Half + l \in 0..(Full - 1)
<1>1. Half \in Nat /\ h \in Nat /\ l \in Nat /\ h <= Half - 1 /\ l <= Half - 1
  BY Constants
<1>2. h * Half <= (Half - 1) * Half
  BY <1>1
<1>3. (Half - 1) * Half = Full - Half
  BY <1>1, Constants
<1>4. h * Half \in Nat
  BY <1>1
<1> QED
  BY <1>1, <1>2, <1>3, <1>4, Constants

LEMMA ComposeLargest == (Half - 1) * Half + (Half - 1) = Full - 1
BY Constants

LEMMA Remainder ==
    ASSUME NEW x \in Nat, NEW w \in Nat \ {0}
    PROVE  /\ x % w \in 0..(w - 1)
           /\ (x \div w) * w + (x % w) = x
OBVIOUS

LEMMA Split ==
    ASSUME NEW x \in 0..(Full - 1)
    PROVE  /\ x % Half \in 0..(Half - 1)
           /\ (x \div Half) * Half + (x % Half) = x
<1>1. x \in Nat /\ Half \in Nat \ {0}
  BY Constants
<1> QED
  BY <1>1, Remainder

-----------------------------------------------------------------------------
(***************************************************************************)
(* Typing.                                                                 *)
(***************************************************************************)

\* TypeOK, taken apart.
LEMMA Types ==
    TypeOK <=>
        /\ period_l \in 0..(Half - 1) /\ period_h \in 0..(Half - 1)
        /\ lower \in 0..(Half - 1)
        /\ internal_counter \in 0..(Full - 1)
        /\ counter_snapshot \in 0..(Full - 1) /\ value \in 0..(Full - 1)
        /\ force_reload \in BOOLEAN /\ counter_is_running \in BOOLEAN
        /\ waiting \in BOOLEAN
        /\ pc \in Accesses
        /\ gap \in 0..(MaxGap - 1)
        /\ elapsed \in NotStarted..Full /\ taken \in NotStarted..Full
BY DEF TypeOK

\* Nothing the timer does in a clock leaves its ranges.
LEMMA TimerTyped ==
    ASSUME TypeOK, NEW strobe, TimerClock(strobe)
    PROVE  /\ period_l' \in 0..(Half - 1) /\ period_h' \in 0..(Half - 1)
           /\ internal_counter' \in 0..(Full - 1)
           /\ counter_snapshot' \in 0..(Full - 1)
           /\ force_reload' \in BOOLEAN /\ counter_is_running' \in BOOLEAN
           /\ elapsed' \in NotStarted..Full /\ taken' \in NotStarted..Full
<1>1. /\ period_l \in 0..(Half - 1) /\ period_h \in 0..(Half - 1)
      /\ internal_counter \in 0..(Full - 1)
      /\ counter_snapshot \in 0..(Full - 1)
      /\ elapsed \in NotStarted..Full /\ taken \in NotStarted..Full
      /\ force_reload \in BOOLEAN /\ counter_is_running \in BOOLEAN
  BY Types
<1>2. period_l' \in 0..(Half - 1) /\ period_h' \in 0..(Half - 1)
  <2>1. Half - 1 \in 0..(Half - 1)
    BY Constants
  <2> QED
    BY <1>1, <2>1 DEF TimerClock
<1>3. internal_counter' \in 0..(Full - 1)
  <2> DEFINE reload == period_h * Half + period_l
  <2>1. reload \in 0..(Full - 1)
    BY <1>1, Compose
  <2>2. \/ internal_counter' = reload
        \/ internal_counter # 0 /\ internal_counter' = internal_counter - 1
        \/ internal_counter' = internal_counter
    BY DEF TimerClock
  <2> HIDE DEF reload
  <2> QED
    BY <1>1, <2>1, <2>2, Constants
<1>4. counter_snapshot' \in 0..(Full - 1)
  BY <1>1 DEF TimerClock
<1>5. force_reload' \in BOOLEAN /\ counter_is_running' \in BOOLEAN
  BY DEF TimerClock, Runs
<1>6. elapsed' \in NotStarted..Full /\ taken' \in NotStarted..Full
  <2>1. \/ elapsed' = 0
        \/ elapsed' = elapsed
        \/ elapsed # Full /\ elapsed' = elapsed + 1
    BY DEF TimerClock
  <2>2. taken' = elapsed \/ taken' = taken
    BY DEF TimerClock
  <2> QED
    BY <1>1, <2>1, <2>2, Constants DEF NotStarted
<1> QED
  BY <1>2, <1>3, <1>4, <1>5, <1>6

\* Between the reads of the halves the snapshot stays what it is.
HalfRead == pc = "read_h" => lower = counter_snapshot % Half

\* The two halves make the snapshot.
LEMMA ReadValue ==
    ASSUME TypeOK, HalfRead, ReadUpper
    PROVE  value' = (Full - 1) - counter_snapshot /\ value' \in 0..(Full - 1)
<1>1. counter_snapshot \in 0..(Full - 1)
  BY Types
<1>2. (counter_snapshot \div Half) * Half + lower = counter_snapshot
  BY <1>1, Split DEF HalfRead, ReadUpper
<1>3. value' = (Full - 1) - ((counter_snapshot \div Half) * Half + lower)
  BY DEF ReadUpper
<1>4. value' = (Full - 1) - counter_snapshot
  BY <1>2, <1>3
<1> QED
  BY <1>1, <1>4, Constants

LEMMA TypedStep == TypeOK /\ HalfRead /\ [Next]_vars => (TypeOK /\ HalfRead)'
<1> SUFFICES ASSUME TypeOK, HalfRead, [Next]_vars PROVE (TypeOK /\ HalfRead)'
  OBVIOUS
<1> DEFINE ProcessorTypes ==
        /\ lower \in 0..(Half - 1) /\ value \in 0..(Full - 1)
        /\ waiting \in BOOLEAN /\ pc \in Accesses /\ gap \in 0..(MaxGap - 1)
<1>1. ProcessorTypes
  BY Types
<1>2. 0 \in 0..(MaxGap - 1)
  BY Constants
<1>3. ASSUME NEW strobe, TimerClock(strobe), ProcessorTypes', HalfRead'
      PROVE  (TypeOK /\ HalfRead)'
  BY <1>3, TimerTyped DEF TypeOK
<1>4. CASE Call
  <2>1. ProcessorTypes' /\ HalfRead'
    BY <1>1, <1>2, <1>4 DEF Call, Accesses, HalfRead
  <2> QED
    BY <1>3, <1>4, <2>1 DEF Call
<1>5. CASE Write
  <2>1. pc' \in Accesses /\ pc' # "read_h"
    BY <1>5 DEF Write, After, Accesses
  <2>2. ProcessorTypes' /\ HalfRead'
    BY <1>1, <1>2, <1>5, <2>1 DEF Write, HalfRead
  <2> QED
    BY <1>3, <1>5, <2>2 DEF Write
<1>6. CASE ReadLower
  <2>1. counter_snapshot' = counter_snapshot
    BY <1>6 DEF ReadLower, TimerClock
  <2>2. counter_snapshot \in 0..(Full - 1)
    BY Types
  <2>3. lower' = counter_snapshot % Half /\ lower' \in 0..(Half - 1)
    BY <1>6, <2>2, Split DEF ReadLower
  <2>4. ProcessorTypes' /\ HalfRead'
    BY <1>1, <1>2, <1>6, <2>1, <2>3 DEF ReadLower, Accesses, HalfRead
  <2> QED
    BY <1>3, <1>6, <2>4 DEF ReadLower
<1>7. CASE ReadUpper
  <2>1. value' \in 0..(Full - 1)
    BY <1>7, ReadValue
  <2>2. pc' \in {"snap", "caller"}
    BY <1>7 DEF ReadUpper
  <2>3. ProcessorTypes' /\ HalfRead'
    BY <1>1, <1>2, <1>7, <2>1, <2>2 DEF ReadUpper, Accesses, HalfRead
  <2> QED
    BY <1>3, <1>7, <2>3 DEF ReadUpper
<1>8. CASE Pause
  <2>1. counter_snapshot' = counter_snapshot
    BY <1>8 DEF Pause, TimerClock
  <2>2. gap' \in 0..(MaxGap - 1)
    BY <1>1, <1>2, <1>8, Constants DEF Pause
  <2>3. ProcessorTypes' /\ HalfRead'
    BY <1>1, <1>8, <2>1, <2>2 DEF Pause, HalfRead
  <2> QED
    BY <1>3, <1>8, <2>3 DEF Pause
<1>9. CASE UNCHANGED vars
  BY <1>9 DEF vars, timer, TypeOK, HalfRead
<1> QED
  BY <1>4, <1>5, <1>6, <1>7, <1>8, <1>9 DEF Next

LEMMA InitTyped == Init => TypeOK /\ HalfRead
<1> SUFFICES ASSUME Init PROVE TypeOK /\ HalfRead
  OBVIOUS
<1>1. 0 \in 0..(Half - 1) /\ 0 \in 0..(Full - 1) /\ 0 \in 0..(MaxGap - 1)
      /\ LoadValue \in 0..(Full - 1) /\ NotStarted \in NotStarted..Full
  <2>1. Half <= Full
    BY Constants
  <2> QED
    BY <2>1, Constants DEF NotStarted
<1> QED
  BY <1>1, Constants, Types DEF Init, Accesses, HalfRead

\* Registers, readings and histories stay in their ranges; in particular the
\* subtraction of alt_timestamp never borrows.
THEOREM Typing == Spec => []TypeOK
<1>1. Spec => [](TypeOK /\ HalfRead)
  BY InitTyped, TypedStep, PTL DEF Spec
<1> QED
  BY <1>1, PTL

-----------------------------------------------------------------------------
(***************************************************************************)
(* Readings.  What the counter shows is tied to the time elapsed except    *)
(* while alt_timestamp_start is at work on it.                             *)
(***************************************************************************)

Restarting == pc \in {"period_l", "period_h", "start"}

\* From its stop on the counter stands, and the period is being replaced by
\* the longest there is; the reload may still be under way at the start.
StartInv ==
    /\ Restarting => ~counter_is_running
    /\ pc \in {"period_h", "start"} => period_l = Half - 1
    /\ pc = "start" =>
          period_h = Half - 1 /\ (force_reload \/ internal_counter = Full - 1)

\* Then it counts down, once.
CountInv ==
    ~Restarting /\ elapsed # NotStarted =>
        /\ period_l = Half - 1 /\ period_h = Half - 1 /\ ~force_reload
        /\ elapsed < Full =>
              counter_is_running /\ internal_counter = (Full - 1) - elapsed
        /\ elapsed = Full =>
              ~counter_is_running /\ internal_counter = Full - 1

SnapshotInv ==
    taken # NotStarted =>
        counter_snapshot = IF taken < Full THEN (Full - 1) - taken ELSE Full - 1

ValueInv ==
    pc \notin {"read_l", "read_h"} /\ taken # NotStarted =>
        value = (Full - 1) - counter_snapshot

ReadInv == StartInv /\ CountInv /\ SnapshotInv /\ ValueInv

\* The timer's part of a step that leaves the driver's registers alone.
LEMMA QuietClock ==
    ASSUME TypeOK, ReadInv, TimerClock("none")
    PROVE  /\ period_l' = period_l /\ period_h' = period_h /\ ~force_reload'
           /\ counter_snapshot' = counter_snapshot /\ taken' = taken
           /\ ~counter_is_running => ~counter_is_running'
           /\ elapsed = NotStarted <=> elapsed' = NotStarted
           /\ CountInv => (~Restarting /\ elapsed # NotStarted =>
                /\ elapsed' < Full =>
                      counter_is_running' /\ internal_counter' = (Full - 1) - elapsed'
                /\ elapsed' = Full =>
                      ~counter_is_running' /\ internal_counter' = Full - 1)
           /\ pc = "start" => internal_counter' = Full - 1
<1>1. /\ elapsed \in NotStarted..Full /\ internal_counter \in 0..(Full - 1)
      /\ force_reload \in BOOLEAN /\ counter_is_running \in BOOLEAN
  BY Types
<1>2. /\ period_l' = period_l /\ period_h' = period_h /\ ~force_reload'
      /\ counter_snapshot' = counter_snapshot /\ taken' = taken
      /\ ~counter_is_running => ~counter_is_running'
  BY DEF TimerClock, Runs
<1>3. elapsed = NotStarted <=> elapsed' = NotStarted
  BY <1>1, Constants DEF TimerClock, NotStarted
<1> DEFINE reload == period_h * Half + period_l
<1>4. /\ internal_counter' =
            IF force_reload \/ (counter_is_running /\ internal_counter = 0) THEN reload
            ELSE IF counter_is_running THEN internal_counter - 1 ELSE internal_counter
      /\ counter_is_running' <=>
            (counter_is_running /\ internal_counter # 0 /\ ~force_reload)
      /\ elapsed' = IF elapsed \in {NotStarted, Full} THEN elapsed ELSE elapsed + 1
  BY DEF TimerClock, Runs
<1>5. period_l = Half - 1 /\ period_h = Half - 1 => reload = Full - 1
  BY ComposeLargest
<1> HIDE DEF reload
<1>6. ASSUME ~Restarting, elapsed # NotStarted
      PROVE  /\ elapsed' < Full =>
                  counter_is_running' /\ internal_counter' = (Full - 1) - elapsed'
             /\ elapsed' = Full =>
                  ~counter_is_running' /\ internal_counter' = Full - 1
  <2>1. /\ reload = Full - 1 /\ ~force_reload
        /\ elapsed < Full => counter_is_running /\ internal_counter = (Full - 1) - elapsed
        /\ elapsed = Full => ~counter_is_running /\ internal_counter = Full - 1
    BY <1>5, <1>6 DEF ReadInv, CountInv
  <2>2. CASE elapsed = Full
    BY <1>1, <1>4, <2>1, <2>2, Constants
  <2>3. CASE elapsed = Full - 1
    BY <1>1, <1>4, <2>1, <2>3, Constants DEF NotStarted
  <2>4. CASE elapsed < Full - 1
    BY <1>1, <1>4, <1>6, <2>1, <2>4, Constants DEF NotStarted
  <2> QED
    BY <1>1, <2>2, <2>3, <2>4, Constants DEF NotStarted
<1>7. pc = "start" => internal_counter' = Full - 1
  BY <1>4, <1>5 DEF ReadInv, StartInv, Restarting
<1> QED
  BY <1>2, <1>3, <1>6, <1>7

LEMMA ReadStep == TypeOK /\ HalfRead /\ ReadInv /\ [Next]_vars => ReadInv'
<1> SUFFICES ASSUME TypeOK, HalfRead, ReadInv, [Next]_vars PROVE ReadInv'
  OBVIOUS
<1>1. StartInv /\ CountInv /\ SnapshotInv /\ ValueInv
  BY DEF ReadInv
<1>2. /\ elapsed \in NotStarted..Full /\ internal_counter \in 0..(Full - 1)
      /\ counter_snapshot \in 0..(Full - 1)
  BY Types
<1> USE DEF StartInv, CountInv, SnapshotInv, ValueInv, Restarting
<1>3. CASE Call
  <2>1. TimerClock("none") /\ pc = "caller" /\ pc' \in {"stop", "snap"} /\ value' = value
    BY <1>3 DEF Call
  <2> QED
    BY <1>1, <2>1, QuietClock DEF ReadInv
<1>4. CASE Write
  <2>1. pc' = After[pc] /\ value' = value /\ TimerClock(pc) /\ pc \in DOMAIN After
    BY <1>4 DEF Write
  <2>2. CASE pc = "stop"
    <3>1. pc' = "period_l"
      BY <2>1, <2>2 DEF After
    <3>2. ~counter_is_running' /\ counter_snapshot' = counter_snapshot /\ taken' = taken
      BY <2>1, <2>2 DEF TimerClock, Runs
    <3> QED
      BY <1>1, <2>1, <2>2, <3>1, <3>2 DEF ReadInv
  <2>3. CASE pc = "period_l"
    <3>1. pc' = "period_h"
      BY <2>1, <2>3 DEF After
    <3>2. /\ ~counter_is_running' /\ counter_snapshot' = counter_snapshot /\ taken' = taken
          /\ period_l' = Half - 1
      BY <1>1, <2>1, <2>3 DEF TimerClock, Runs
    <3> QED
      BY <1>1, <2>1, <2>3, <3>1, <3>2 DEF ReadInv
  <2>4. CASE pc = "period_h"
    <3>1. pc' = "start"
      BY <2>1, <2>4 DEF After
    <3>2. /\ ~counter_is_running' /\ counter_snapshot' = counter_snapshot /\ taken' = taken
          /\ period_l' = Half - 1 /\ period_h' = Half - 1 /\ force_reload'
      BY <1>1, <2>1, <2>4 DEF TimerClock, Runs
    <3> QED
      BY <1>1, <2>1, <2>4, <3>1, <3>2 DEF ReadInv
  <2>5. CASE pc = "start"
    <3>1. pc' = "snap"
      BY <2>1, <2>5 DEF After
    <3>2. /\ counter_is_running' /\ counter_snapshot' = counter_snapshot /\ taken' = taken
          /\ period_l' = Half - 1 /\ period_h' = Half - 1 /\ ~force_reload'
          /\ elapsed' = 0
      BY <1>1, <2>1, <2>5 DEF TimerClock, Runs
    <3>3. internal_counter' = Full - 1
      BY <1>1, <2>1, <2>5, ComposeLargest DEF TimerClock
    <3> QED
      BY <1>1, <2>1, <2>5, <3>1, <3>2, <3>3, Constants DEF ReadInv
  <2>6. CASE pc = "snap"
    <3>1. pc' = "read_l"
      BY <2>1, <2>6 DEF After
    <3>2. counter_snapshot' = internal_counter /\ taken' = elapsed
      BY <2>1, <2>6 DEF TimerClock
    <3>3. SnapshotInv'
      BY <1>1, <1>2, <2>6, <3>2, Constants
    <3>4. CountInv'
      <4>1. /\ period_l' = period_l /\ period_h' = period_h /\ ~force_reload'
        BY <2>1, <2>6 DEF TimerClock
      <4>2. /\ elapsed' = IF elapsed \in {NotStarted, Full} THEN elapsed ELSE elapsed + 1
            /\ counter_is_running' <=>
                  (counter_is_running /\ internal_counter # 0 /\ ~force_reload)
        BY <2>1, <2>6 DEF TimerClock, Runs
      <4> DEFINE reload == period_h * Half + period_l
      <4>3. internal_counter' =
                IF force_reload \/ (counter_is_running /\ internal_counter = 0) THEN reload
                ELSE IF counter_is_running THEN internal_counter - 1 ELSE internal_counter
        BY <2>1, <2>6 DEF TimerClock
      <4>4. CASE elapsed = NotStarted
        BY <4>2, <4>4
      <4>5. CASE elapsed # NotStarted
        <5>1. period_l = Half - 1 /\ period_h = Half - 1 /\ reload = Full - 1 /\ ~force_reload
          BY <1>1, <2>6, <4>5, ComposeLargest
        <5> HIDE DEF reload
        <5>2. CASE elapsed = Full
          BY <1>1, <1>2, <2>6, <4>1, <4>2, <4>3, <4>5, <5>1, <5>2, Constants
        <5>3. CASE elapsed # Full
          <6>1. counter_is_running /\ internal_counter = (Full - 1) - elapsed
                /\ elapsed' = elapsed + 1
            BY <1>1, <1>2, <2>6, <4>2, <4>5, <5>3, Constants DEF NotStarted
          <6>2. elapsed \in 0..(Full - 1) /\ Full \in Nat
            BY <1>2, <4>5, <5>3, Constants DEF NotStarted
          <6>3. CASE internal_counter = 0
            <7>1. elapsed' = Full
              BY <6>1, <6>2, <6>3
            <7>2. ~counter_is_running' /\ internal_counter' = Full - 1
              BY <4>2, <4>3, <5>1, <6>1, <6>3
            <7> QED
              BY <4>1, <5>1, <6>2, <7>1, <7>2
          <6>4. CASE internal_counter # 0
            <7>1. /\ elapsed' < Full /\ elapsed' = elapsed + 1 /\ counter_is_running'
                  /\ internal_counter' = internal_counter - 1
              BY <1>2, <4>2, <4>3, <5>1, <6>1, <6>2, <6>4
            <7> QED
              BY <4>1, <5>1, <6>1, <6>2, <7>1
          <6> QED
            BY <6>3, <6>4
        <5> QED
          BY <5>2, <5>3
      <4> QED
        BY <4>4, <4>5
    <3> QED
      BY <2>1, <2>6, <3>1, <3>3, <3>4 DEF ReadInv
  <2> QED
    BY <2>1, <2>2, <2>3, <2>4, <2>5, <2>6 DEF After
<1>5. CASE ReadLower
  <2>1. TimerClock("none") /\ pc = "read_l" /\ pc' = "read_h" /\ value' = value
    BY <1>5 DEF ReadLower
  <2> QED
    BY <1>1, <2>1, QuietClock DEF ReadInv
<1>6. CASE ReadUpper
  <2>1. TimerClock("none") /\ pc = "read_h" /\ pc' \in {"snap", "caller"}
        /\ value' = (Full - 1) - counter_snapshot
    BY <1>6, ReadValue DEF ReadUpper
  <2> QED
    BY <1>1, <2>1, QuietClock DEF ReadInv
<1>7. CASE Pause
  <2>1. TimerClock("none") /\ pc' = pc /\ value' = value
    BY <1>7 DEF Pause
  <2> QED
    BY <1>1, <2>1, QuietClock DEF ReadInv
<1>8. CASE UNCHANGED vars
  BY <1>1, <1>8 DEF vars, timer, ReadInv
<1> QED
  BY <1>3, <1>4, <1>5, <1>6, <1>7, <1>8 DEF Next

LEMMA Reads == Spec => [](TypeOK /\ HalfRead /\ ReadInv)
<1>1. Init => ReadInv
  BY DEF Init, ReadInv, StartInv, CountInv, SnapshotInv, ValueInv, Restarting
<1> QED
  BY <1>1, InitTyped, TypedStep, ReadStep, PTL DEF Spec

\* A reading is the time since the start of the timer, for every pace at which
\* the processor reads the halves of the running counter
\* (altera_avalon_timer_ts.c:125-131).
THEOREM Reading == Spec => []ReadingIsElapsed
<1>1. TypeOK /\ ReadInv => ReadingIsElapsed
  BY Types, Constants
     DEF ReadInv, SnapshotInv, ValueInv, ReadingIsElapsed, Returned, NotStarted
<1> QED
  BY <1>1, Reads, PTL

-----------------------------------------------------------------------------
(***************************************************************************)
(* Waits.                                                                  *)
(***************************************************************************)

\* How far a wait may have gone at each access of its loop: tpb when it was
\* found to be early, and then MaxGap for each of the accesses of one turn.
WaitInv ==
    waiting =>
        /\ pc = "snap" =>
              /\ elapsed # NotStarted
              /\ \/ elapsed <= tpb + 2 * MaxGap + gap
                 \/ elapsed = Full /\ Full < tpb + 3 * MaxGap
        /\ pc \in {"read_l", "read_h", "caller"} =>
              taken # NotStarted /\ taken < tpb + 3 * MaxGap
        /\ pc \in {"read_l", "read_h"} => elapsed >= taken
        /\ pc = "read_l" => elapsed <= taken + 1 + gap
        /\ pc = "read_h" => elapsed <= taken + MaxGap + 1 + gap
        /\ pc = "caller" => value >= tpb

\* A clock without a strobe adds one to the time, up to Full.
LEMMA ClockAdds ==
    ASSUME TypeOK, NEW strobe, strobe # "start", TimerClock(strobe)
    PROVE  /\ elapsed = NotStarted <=> elapsed' = NotStarted
           /\ elapsed' >= elapsed /\ elapsed' <= elapsed + 1
           /\ elapsed = Full => elapsed' = Full
           /\ strobe # "snap" => taken' = taken
<1>1. elapsed \in NotStarted..Full
  BY Types
<1>2. elapsed' = IF elapsed \in {NotStarted, Full} THEN elapsed ELSE elapsed + 1
  BY DEF TimerClock
<1>3. strobe # "snap" => taken' = taken
  BY DEF TimerClock
<1> QED
  BY <1>1, <1>2, <1>3, Constants DEF NotStarted

LEMMA WaitStep ==
    TypeOK /\ HalfRead /\ ReadInv /\ WaitInv /\ [Next]_vars => WaitInv'
<1> SUFFICES ASSUME TypeOK, HalfRead, ReadInv, WaitInv, [Next]_vars PROVE WaitInv'
  OBVIOUS
<1>1. /\ elapsed \in NotStarted..Full /\ taken \in NotStarted..Full
      /\ gap \in 0..(MaxGap - 1) /\ Full \in Nat /\ tpb \in 0..(Full - 1)
      /\ MaxGap \in Nat \ {0}
  BY Types, Constants
<1>2. SUFFICES ASSUME waiting' PROVE WaitInv'
  BY DEF WaitInv
<1>3. CASE Call
  <2>1. pc' = "stop"
    BY <1>2, <1>3 DEF Call
  <2> QED
    BY <2>1 DEF WaitInv
<1>4. CASE Write
  <2>1. pc' = After[pc] /\ value' = value /\ TimerClock(pc) /\ pc \in DOMAIN After
        /\ waiting' = waiting /\ gap' = 0
    BY <1>4 DEF Write
  <2>2. CASE pc \in {"stop", "period_l", "period_h"}
    <3>1. pc' \in {"period_l", "period_h", "start"}
      BY <2>1, <2>2 DEF After
    <3> QED
      BY <3>1 DEF WaitInv
  <2>3. CASE pc = "start"
    <3>1. pc' = "snap" /\ elapsed' = 0
      BY <2>1, <2>3 DEF After, TimerClock
    <3> QED
      BY <1>1, <2>1, <3>1 DEF WaitInv, NotStarted
  <2>4. CASE pc = "snap"
    <3>1. pc' = "read_l"
      BY <2>1, <2>4 DEF After
    <3>2. taken' = elapsed /\ elapsed' >= elapsed /\ elapsed' <= elapsed + 1
      BY <2>1, <2>4, ClockAdds DEF TimerClock
    <3>3. elapsed # NotStarted
          /\ (elapsed <= tpb + 2 * MaxGap + gap \/ (elapsed = Full /\ Full < tpb + 3 * MaxGap))
      BY <1>2, <2>1, <2>4 DEF WaitInv
    <3>4. taken' # NotStarted /\ taken' < tpb + 3 * MaxGap
      BY <1>1, <3>2, <3>3
    <3>5. elapsed' >= taken' /\ elapsed' <= taken' + 1 + gap'
      BY <1>1, <2>1, <3>2
    <3> QED
      BY <3>1, <3>4, <3>5 DEF WaitInv
  <2> QED
    BY <2>1, <2>2, <2>3, <2>4 DEF After
<1>5. CASE ReadLower
  <2>1. TimerClock("none") /\ pc = "read_l" /\ pc' = "read_h" /\ waiting' = waiting
        /\ gap' = 0
    BY <1>5 DEF ReadLower
  <2>2. elapsed' >= elapsed /\ elapsed' <= elapsed + 1 /\ taken' = taken
    BY <2>1, ClockAdds
  <2>3. elapsed' \in Int
    BY <1>1, <2>1 DEF TimerClock, NotStarted
  <2>4. /\ taken # NotStarted /\ taken < tpb + 3 * MaxGap
        /\ elapsed >= taken /\ elapsed <= taken + 1 + gap
    BY <1>2, <2>1 DEF WaitInv
  <2>5. elapsed' >= taken' /\ elapsed' <= taken' + MaxGap + 1 + gap'
    BY <1>1, <2>1, <2>2, <2>3, <2>4 DEF NotStarted
  <2> QED
    BY <2>1, <2>2, <2>4, <2>5 DEF WaitInv
<1>6. CASE ReadUpper
  <2>1. /\ TimerClock("none") /\ pc = "read_h" /\ waiting' = waiting /\ gap' = 0
        /\ pc' = IF waiting /\ value' < tpb THEN "snap" ELSE "caller"
    BY <1>6 DEF ReadUpper
  <2>2. /\ elapsed' >= elapsed /\ elapsed' <= elapsed + 1 /\ taken' = taken
        /\ elapsed = NotStarted <=> elapsed' = NotStarted
        /\ elapsed = Full => elapsed' = Full
    BY <2>1, ClockAdds
  <2>3. elapsed' \in Int
    BY <1>1, <2>1 DEF TimerClock, NotStarted
  <2>4. /\ taken # NotStarted /\ taken < tpb + 3 * MaxGap
        /\ elapsed >= taken /\ elapsed <= taken + MaxGap + 1 + gap
    BY <1>2, <2>1 DEF WaitInv
  <2>5. value' = (IF taken < Full THEN taken ELSE 0) /\ value' \in Nat
    <3>1. value' = (Full - 1) - counter_snapshot
      BY <1>6, ReadValue
    <3>2. counter_snapshot = IF taken < Full THEN (Full - 1) - taken ELSE Full - 1
      BY <2>4 DEF ReadInv, SnapshotInv
    <3> QED
      BY <1>1, <2>4, <3>1, <3>2 DEF NotStarted
  <2>6. CASE value' < tpb
    <3>1. pc' = "snap"
      BY <1>2, <2>1, <2>6
    <3>2. elapsed' # NotStarted
      BY <1>1, <2>2, <2>4 DEF NotStarted
    <3>3. CASE taken < Full
      <4>1. taken < tpb /\ elapsed' <= taken + 2 * MaxGap + 1
        BY <1>1, <2>2, <2>3, <2>4, <2>5, <2>6, <3>3 DEF NotStarted
      <4>2. elapsed' <= tpb + 2 * MaxGap + gap'
        BY <1>1, <2>1, <2>3, <4>1 DEF NotStarted
      <4> QED
        BY <3>1, <3>2, <4>2 DEF WaitInv
    <3>4. CASE taken = Full
      <4>1. elapsed' = Full /\ Full < tpb + 3 * MaxGap
        BY <1>1, <2>2, <2>4, <3>4 DEF NotStarted
      <4> QED
        BY <3>1, <3>2, <4>1 DEF WaitInv
    <3> QED
      BY <1>1, <3>3, <3>4 DEF NotStarted
  <2>7. CASE ~(value' < tpb)
    <3>1. pc' = "caller" /\ value' >= tpb
      BY <1>1, <2>1, <2>5, <2>7
    <3> QED
      BY <2>2, <2>4, <3>1 DEF WaitInv
  <2> QED
    BY <2>6, <2>7
<1>7. CASE Pause
  <2>1. /\ TimerClock("none") /\ pc' = pc /\ value' = value /\ waiting' = waiting
        /\ pc # "caller" => gap' = gap + 1
    BY <1>7 DEF Pause
  <2>2. /\ elapsed' >= elapsed /\ elapsed' <= elapsed + 1 /\ taken' = taken
        /\ elapsed = NotStarted <=> elapsed' = NotStarted
        /\ elapsed = Full => elapsed' = Full
    BY <2>1, ClockAdds
  <2>3. elapsed' \in Int
    BY <1>1, <2>1 DEF TimerClock, NotStarted
  <2>4. CASE pc = "caller"
    BY <1>2, <2>1, <2>2, <2>4 DEF WaitInv
  <2>5. CASE pc = "snap"
    <3>1. elapsed # NotStarted
          /\ (elapsed <= tpb + 2 * MaxGap + gap \/ (elapsed = Full /\ Full < tpb + 3 * MaxGap))
      BY <1>2, <2>1, <2>5 DEF WaitInv
    <3>2. \/ elapsed' <= tpb + 2 * MaxGap + gap'
          \/ elapsed' = Full /\ Full < tpb + 3 * MaxGap
      BY <1>1, <2>1, <2>2, <2>3, <2>5, <3>1 DEF NotStarted
    <3> QED
      BY <2>1, <2>2, <2>5, <3>1, <3>2 DEF WaitInv
  <2>6. CASE pc \in {"read_l", "read_h"}
    <3>1. /\ taken # NotStarted /\ taken < tpb + 3 * MaxGap /\ elapsed >= taken
          /\ pc = "read_l" => elapsed <= taken + 1 + gap
          /\ pc = "read_h" => elapsed <= taken + MaxGap + 1 + gap
      BY <1>2, <2>1, <2>6 DEF WaitInv
    <3>2. /\ elapsed' >= taken
          /\ pc = "read_l" => elapsed' <= taken + 1 + gap'
          /\ pc = "read_h" => elapsed' <= taken + MaxGap + 1 + gap'
      BY <1>1, <2>1, <2>2, <2>3, <2>6, <3>1 DEF NotStarted
    <3> QED
      BY <2>1, <2>2, <2>6, <3>1, <3>2 DEF WaitInv
  <2>7. CASE pc \notin {"caller", "snap", "read_l", "read_h"}
    BY <2>1, <2>7 DEF WaitInv
  <2> QED
    BY <2>4, <2>5, <2>6, <2>7
<1>8. CASE UNCHANGED vars
  BY <1>8 DEF vars, timer, WaitInv
<1> QED
  BY <1>3, <1>4, <1>5, <1>6, <1>7, <1>8 DEF Next

\* A wait is as long as asked and late by less than a turn of its loop, however
\* the accesses are spread over it (uart_final/main.c:62 and 69).
THEOREM Waiting == Spec => []WaitIsExact
<1>1. Init => WaitInv
  BY DEF Init, WaitInv
<1>2. TypeOK /\ ReadInv /\ WaitInv => WaitIsExact
  <2> SUFFICES ASSUME TypeOK, ReadInv, WaitInv, waiting, Returned
               PROVE  taken >= tpb /\ taken < tpb + 3 * MaxGap
    BY DEF WaitIsExact
  <2>1. value >= tpb /\ taken < tpb + 3 * MaxGap
    BY DEF WaitInv, Returned
  <2>2. value = IF taken < Full THEN taken ELSE 0
    BY Types, Constants DEF ReadInv, SnapshotInv, ValueInv, Returned, NotStarted
  <2>3. taken \in NotStarted..Full /\ Full \in Nat /\ tpb \in 0..(Full - 1)
    BY Types, Constants
  <2> QED
    BY <2>1, <2>2, <2>3 DEF NotStarted
<1> QED
  BY <1>1, <1>2, WaitStep, Reads, PTL DEF Spec
=============================================================================
