---------------------------- MODULE MCRetirement ----------------------------
(* Instances of Retirement for TLC. *)
EXTENDS Retirement

CONSTANTS w1, w2, o1, o2, f1, f2, a, b
=============================================================================
