----------------------------- MODULE Lab3NiosMC -----------------------------
(***************************************************************************)
(* Lab3Nios for TLC: frames of two data bits and two stop bits.  A report  *)
(* goes through one digit more than a frame has data bits, as in main.c.   *)
(***************************************************************************)
EXTENDS Lab3Nios

MCFrames == {<<0, b, c, 1, 1>> : b \in {0, 1}, c \in {0, 1}}

MCNoFrame == <<1, 1, 1, 1, 1>>
=============================================================================
