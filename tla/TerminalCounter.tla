---- MODULE TerminalCounter ----
(***************************************************************************)
(* The terminal counters every design of the labs is built from: counter4  *)
(* and counter8 of Lab4, counter4 and counter16 of Lab3.  One enabled      *)
(* rising edge compares the count with end_val, for equality only: a count *)
(* that matches restarts and raises tc, any other goes on, modulo its      *)
(* width, and lowers tc.                                                   *)
(***************************************************************************)
EXTENDS Integers

Matches(count, end_val) == count = end_val

\* Variant to be refuted: a count that does not wrap at its width.
CountedNoWrap(count, end_val, mod) ==
    IF Matches(count, end_val) THEN 0 ELSE count + 1

Counted(count, end_val, mod) ==
    IF Matches(count, end_val) THEN 0 ELSE (count + 1) % mod
====
