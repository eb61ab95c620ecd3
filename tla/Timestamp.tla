----------------------------- MODULE Timestamp -----------------------------
(***************************************************************************)
(* The timer of Lab2 (timer_0.vhd) and the driver that tells time with it  *)
(* (altera_avalon_timer_ts.c), called as main.c calls them: a wait is      *)
(* alt_timestamp_start() and then alt_timestamp() until enough clocks have *)
(* gone by.  The counter is twice as wide as the bus, so that each call is *)
(* a sequence of accesses with the counter running between them.           *)
(*                                                                         *)
(* One action is one clock: the timer steps, and the processor makes one   *)
(* access to it or none.                                                   *)
(***************************************************************************)
EXTENDS Integers

CONSTANTS
    Half,           \* values of one half of the counter (2^16 in the code)
    LoadValue,      \* the period out of reset (49)
    tpb,            \* how long a wait is
    MaxGap          \* clocks from one access of a wait to the next

Full == Half * Half

ASSUME TimestampAssumption ==
    /\ Half \in Nat \ {0, 1}
    /\ LoadValue \in 0..(Half - 1)
    /\ tpb \in 0..(Full - 1)
    /\ MaxGap \in Nat \ {0}

VARIABLES
    period_l, period_h, internal_counter, force_reload, counter_is_running,
    counter_snapshot,   \* timer_0
    pc,                 \* the access the processor makes next
    waiting,            \* whether it is in the loop of a wait
    lower,              \* the half alt_timestamp has read
    value,              \* what alt_timestamp returned last
    gap,                \* clocks since the last access
    elapsed,            \* history: clocks since the start strobe, up to Full
    taken               \* history: elapsed when the last snapshot was taken

timer == <<period_l, period_h, internal_counter, force_reload, counter_is_running,
           counter_snapshot>>
vars == <<timer, pc, waiting, lower, value, gap, elapsed, taken>>

\* main, between calls; the accesses of alt_timestamp_start; of alt_timestamp.
Accesses == {"caller", "stop", "period_l", "period_h", "start", "snap", "read_l", "read_h"}

NotStarted == -1

Init ==
    /\ period_l = LoadValue
    /\ period_h = 0
    /\ internal_counter = LoadValue
    /\ force_reload = FALSE
    /\ counter_is_running = FALSE
    /\ counter_snapshot = 0
    /\ pc = "caller"
    /\ waiting = FALSE
    /\ lower = 0
    /\ value = 0
    /\ gap = 0
    /\ elapsed = NotStarted
    /\ taken = NotStarted

-----------------------------------------------------------------------------
\* The start strobe wins over a stop, a reload and the end of the count.
Runs(strobe) ==
    \/ strobe = "start"
    \/ /\ counter_is_running /\ internal_counter # 0
       /\ strobe # "stop" /\ ~force_reload

\* Variant to be refuted: the snapshot follows the counter.
TimerClockNoLatch(strobe) ==
    /\ internal_counter' =
         IF force_reload \/ (counter_is_running /\ internal_counter = 0)
         THEN period_h * Half + period_l
         ELSE IF counter_is_running THEN internal_counter - 1 ELSE internal_counter
    /\ force_reload' = (strobe \in {"period_l", "period_h"})
    /\ counter_is_running' = Runs(strobe)
    /\ period_l' = IF strobe = "period_l" THEN Half - 1 ELSE period_l
    /\ period_h' = IF strobe = "period_h" THEN Half - 1 ELSE period_h
    /\ counter_snapshot' = internal_counter
    /\ elapsed' = IF strobe = "start" THEN 0
                  ELSE IF elapsed \in {NotStarted, Full} THEN elapsed ELSE elapsed + 1
    /\ taken' = IF strobe = "snap" THEN elapsed ELSE taken

\* One clock of timer_0 under the strobe an access makes, or "none".  A
\* reload comes a clock after the write to a period register.
TimerClock(strobe) ==
    /\ internal_counter' =
         IF force_reload \/ (counter_is_running /\ internal_counter = 0)
         THEN period_h * Half + period_l
         ELSE IF counter_is_running THEN internal_counter - 1 ELSE internal_counter
    /\ force_reload' = (strobe \in {"period_l", "period_h"})
    /\ counter_is_running' = Runs(strobe)
    /\ period_l' = IF strobe = "period_l" THEN Half - 1 ELSE period_l
    /\ period_h' = IF strobe = "period_h" THEN Half - 1 ELSE period_h
    /\ counter_snapshot' = IF strobe = "snap" THEN internal_counter ELSE counter_snapshot
    /\ elapsed' = IF strobe = "start" THEN 0
                  ELSE IF elapsed \in {NotStarted, Full} THEN elapsed ELSE elapsed + 1
    /\ taken' = IF strobe = "snap" THEN elapsed ELSE taken

\* main calls alt_timestamp_start() for a wait, or alt_timestamp() whenever
\* it likes.
Call ==
    /\ pc = "caller"
    /\ \/ pc' = "stop" /\ waiting' = TRUE
       \/ pc' = "snap" /\ waiting' = FALSE
    /\ gap' = 0
    /\ UNCHANGED <<lower, value>>
    /\ TimerClock("none")

\* Variant to be refuted: the timer is loaded and not started.
AfterNoStart == [stop |-> "period_l", period_l |-> "period_h", period_h |-> "snap",
                 snap |-> "read_l"]

\* The writes of alt_timestamp_start, and the write of alt_timestamp that
\* takes the snapshot.
After == [stop |-> "period_l", period_l |-> "period_h", period_h |-> "start",
          start |-> "snap", snap |-> "read_l"]

Write ==
    /\ pc \in DOMAIN After
    /\ pc' = After[pc]
    /\ gap' = 0
    /\ UNCHANGED <<waiting, lower, value>>
    /\ TimerClock(pc)

ReadLower ==
    /\ pc = "read_l"
    /\ pc' = "read_h"
    /\ lower' = counter_snapshot % Half
    /\ gap' = 0
    /\ UNCHANGED <<waiting, value>>
    /\ TimerClock("none")

\* Variant to be refuted: the count taken from one more than the period.
ReadUpperOffByOne ==
    /\ pc = "read_h"
    /\ value' = Full - ((counter_snapshot \div Half) * Half + lower)
    /\ pc' = IF waiting /\ value' < tpb THEN "snap" ELSE "caller"
    /\ gap' = 0
    /\ UNCHANGED <<waiting, lower>>
    /\ TimerClock("none")

\* alt_timestamp returns; the loop of a wait goes round while it is early.
ReadUpper ==
    /\ pc = "read_h"
    /\ value' = (Full - 1) - ((counter_snapshot \div Half) * Half + lower)
    /\ pc' = IF waiting /\ value' < tpb THEN "snap" ELSE "caller"
    /\ gap' = 0
    /\ UNCHANGED <<waiting, lower>>
    /\ TimerClock("none")

\* A clock without an access.
Pause ==
    /\ pc = "caller" \/ gap < MaxGap - 1
    /\ gap' = IF pc = "caller" THEN 0 ELSE gap + 1
    /\ UNCHANGED <<pc, waiting, lower, value>>
    /\ TimerClock("none")

Next == Call \/ Write \/ ReadLower \/ ReadUpper \/ Pause

Spec == Init /\ [][Next]_vars

\* The clock runs, and a processor in a call goes on with it: Pause cannot
\* last there.
FairSpec == Spec /\ WF_vars(Next)

-----------------------------------------------------------------------------
TypeOK ==
    /\ {period_l, period_h, lower} \subseteq 0..(Half - 1)
    /\ {internal_counter, counter_snapshot, value} \subseteq 0..(Full - 1)
    /\ {force_reload, counter_is_running, waiting} \subseteq BOOLEAN
    /\ pc \in Accesses
    /\ gap \in 0..(MaxGap - 1)
    /\ {elapsed, taken} \subseteq NotStarted..Full

Returned == pc = "caller" /\ taken # NotStarted

\* alt_timestamp returns the clocks from the start of the timer to its
\* snapshot, although it reads the halves of a running counter one after the
\* other, and zero once the timer has run its period (not the -1 that the
\* comment at altera_avalon_timer_ts.c:94 names).
ReadingIsElapsed ==
    Returned => value = IF taken < Full THEN taken ELSE 0

\* A wait ends no earlier than asked, and late by at most one turn of its loop
\* (two snapshots and the reads after each).
WaitIsExact ==
    waiting /\ Returned => taken >= tpb /\ taken < tpb + 3 * MaxGap

\* A wait ends, the period of the timer being long against it.
WaitEnds == pc = "stop" ~> pc = "caller"
=============================================================================
