------------------------------- MODULE Lab1MC -------------------------------
(***************************************************************************)
(* Three-bit operands, every pair of them with every carry; a counter as   *)
(* wide as the integer behind it, as task 4 has it, through both its wraps.*)
(***************************************************************************)
EXTENDS Lab1

MCWeight == [k \in 0..Widest |-> 2^k]
=============================================================================
