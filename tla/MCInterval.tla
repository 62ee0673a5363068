----------------------------- MODULE MCInterval -----------------------------
(* Instances of Interval for TLC. *)
EXTENDS Interval

CONSTANTS h1, h2, h3
=============================================================================
