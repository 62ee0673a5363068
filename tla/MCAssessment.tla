---------------------------- MODULE MCAssessment ----------------------------
(* One assessment and its operation, two hosts, two corrections, two candidates. *)
EXTENDS Decisions, TLC

CONSTANTS h1, h2, c1, c2, cA, cB

Interchangeable == Permutations({h1, h2}) \cup Permutations({c1, c2})
                   \cup Permutations({cA, cB})
=============================================================================
