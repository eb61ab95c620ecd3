------------------------------- MODULE SarTop -------------------------------
(***************************************************************************)
(* The top entity of Lab4 (common/sar.vhd): the converter of SarAdc behind *)
(* its clock divider.  slowclock is the registered tc of a counter8 that   *)
(* counts the board clock up to clkdivisor; the converter moves when it    *)
(* rises and at no other time.  On the DE2 board clkdivisor is an input    *)
(* pin, so it may be any value and may move while the counter runs; the    *)
(* MAX10 top (lab4_max10/sar.vhd:64) ties it to its largest value.         *)
(***************************************************************************)
EXTENDS SarAdc

CONSTANTS
    DivMod,     \* counter8 counts modulo this (256 in the code)
    Divisors    \* the values clkdivisor takes

ASSUME DivisorAssumption ==
    /\ DivMod \in Nat \ {0}
    /\ Divisors \subseteq 0..(DivMod - 1)

VARIABLES
    divcount, slowclock,    \* counter8
    clkdivisor,             \* its input
    gap                     \* history: board clocks since slowclock last rose,
                            \* -1 once clkdivisor moved or resetn was pulled

divider == <<divcount, slowclock, clkdivisor, gap>>
topVars == <<vars, divider>>

TopInit ==
    /\ Init
    /\ divcount = 0
    /\ slowclock = FALSE
    /\ clkdivisor \in Divisors
    /\ gap = -1

\* Variant to be refuted: slowclock used as an enable instead of as a clock.
RisesAsLevel == Matches(divcount, clkdivisor)

Rises == ~slowclock /\ Matches(divcount, clkdivisor)

\* MaxGap bounds the history only: past it the exact number is not needed.
MaxGap == DivMod + 1

\* Variant to be refuted: the count restarts on tc, a clock after the match.
BoardClockLate ==
    /\ divcount' = IF slowclock THEN 0 ELSE (divcount + 1) % DivMod
    /\ slowclock' = Matches(divcount, clkdivisor)
    /\ gap' = IF Rises THEN 0
              ELSE IF gap = -1 \/ gap = MaxGap THEN gap ELSE gap + 1
    /\ UNCHANGED clkdivisor
    /\ IF Rises THEN Edge ELSE UNCHANGED vars

BoardClock ==
    /\ divcount' = Counted(divcount, clkdivisor, DivMod)
    /\ slowclock' = Matches(divcount, clkdivisor)
    /\ gap' = IF Rises THEN 0
              ELSE IF gap = -1 \/ gap = MaxGap THEN gap ELSE gap + 1
    /\ UNCHANGED clkdivisor
    /\ IF Rises THEN Edge ELSE UNCHANGED vars

TopSwitches == SetInputs /\ UNCHANGED divider

SetDivisor ==
    /\ clkdivisor' \in Divisors \ {clkdivisor}
    /\ gap' = -1
    /\ UNCHANGED <<vars, divcount, slowclock>>

TopReset ==
    /\ Reset
    /\ divcount' = 0
    /\ slowclock' = FALSE
    /\ gap' = -1
    /\ UNCHANGED clkdivisor

TopNext == BoardClock \/ TopSwitches \/ SetDivisor \/ TopReset

TopSpec == TopInit /\ [][TopNext]_topVars

\* The board's oscillator never stops.
TopFairSpec == TopSpec /\ WF_topVars(BoardClock)

-----------------------------------------------------------------------------
DividerTypeOK ==
    /\ divcount \in 0..(DivMod - 1)
    /\ slowclock \in BOOLEAN
    /\ clkdivisor \in Divisors
    /\ gap \in -1..MaxGap

\* As long as clkdivisor holds still, one rise of slowclock follows the last
\* after exactly clkdivisor + 1 board clocks: the count restarts on the match
\* itself, not a clock later.
SlowClockPeriod ==
    [][slowclock' /\ ~slowclock /\ gap # -1 => gap = clkdivisor]_topVars

\* While run is held the converter goes on delivering results, for every
\* divisor but zero, even when nbit or clkdivisor was lowered below the count
\* under way: the counter then wraps before it matches, and the conversion is
\* late but not lost.
KeepsConverting ==
    (/\ <>[](run /\ clkdivisor # 0)
     /\ <>[][nbit' = nbit /\ clkdivisor' = clkdivisor /\ ~TopReset]_topVars)
        => []<>done

\* With clkdivisor at zero the match never goes away, slowclock stays high and
\* rises no more: the converter stops where it is, whatever run says.
ZeroDivisorStops ==
    (<>[](clkdivisor = 0) /\ <>[][~TopReset]_topVars)
        => <>[][UNCHANGED registers]_topVars
=============================================================================
