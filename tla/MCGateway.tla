----------------------------- MODULE MCGateway -----------------------------
(***************************************************************************)
(* Instances of Gateway for TLC.                                           *)
(***************************************************************************)
EXTENDS Gateway, TLC

(* The identities of connections, users and Room objects are               *)
(* interchangeable; used by the runs that check no liveness.               *)
Symmetry == Permutations(Conns) \cup Permutations(UserIDs)
=============================================================================
