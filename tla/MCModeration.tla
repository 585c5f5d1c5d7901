---------------------------- MODULE MCModeration ----------------------------
(* Moderation for TLC.                                                     *)
EXTENDS Moderation, TLC

(* Users, connections and requests are interchangeable.                    *)
Symmetry == Permutations(UserIDs) \cup Permutations(Conns) \cup Permutations(Reqs)
=============================================================================
