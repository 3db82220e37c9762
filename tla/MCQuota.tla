------------------------------ MODULE MCQuota ------------------------------
(***************************************************************************)
(* Quota with requests as interchangeable model values.                    *)
(***************************************************************************)
EXTENDS Quota, TLC

CONSTANTS p1, p2

MCProc == {p1, p2}
MCSymmetry == Permutations(MCProc)
=============================================================================
