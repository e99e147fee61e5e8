------------------------------- MODULE FcntlMC ------------------------------
(***************************************************************************)
(* Fcntl for TLC: texts of two lengths, and enough lines that each process *)
(* gets the lock before, between and after the lines of the other one.     *)
(***************************************************************************)
EXTENDS Fcntl

ShortTexts == [p \in Processes |-> IF p = "parent" THEN 2 ELSE 1]
TwoLines == 2
=============================================================================
