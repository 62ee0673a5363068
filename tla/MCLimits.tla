------------------------------ MODULE MCLimits ------------------------------
(* Instances of Limits for TLC. *)
EXTENDS Limits, TLC

CONSTANTS c1, c2, k1, k2, k3, k4, k5, p1, r1, r2

(* Request keys are only compared with each other. *)
KeySymmetry == Permutations(Keys)

Definition(capacity, allowance, expVer) ==
    [pool |-> p1, capacity |-> capacity, allowance |-> allowance, expVer |-> expVer]

(* A pool of three units and an allowance of four, which may be narrowed later,
   or defined otherwise at first, by callers who expect no version. *)
Definitions == {Definition(3, 4, 0), Definition(3, 2, -1), Definition(1, 2, -1)}
=============================================================================
