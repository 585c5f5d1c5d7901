--------------------------- MODULE MCRateLimiter ---------------------------
(***************************************************************************)
(* An instance of RateLimiter for TLC.                                     *)
(***************************************************************************)
EXTENDS RateLimiter, TLC

(* Smaller limits in the order of the code's: 10, 5 and 30.                *)
Limits == [login |-> 2, register |-> 1, online |-> 3]

Symmetry == Permutations(Requests)
=============================================================================
