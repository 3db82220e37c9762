--------------------------- MODULE MCRateLimiter ---------------------------
(***************************************************************************)
(* RateLimiter with requests as interchangeable model values.              *)
(***************************************************************************)
EXTENDS RateLimiter, TLC

CONSTANTS r1, r2, r3

MCReq == {r1, r2, r3}
MCSymmetry == Permutations(MCReq)
=============================================================================
