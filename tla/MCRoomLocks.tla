---------------------------- MODULE MCRoomLocks ----------------------------
(***************************************************************************)
(* An instance of RoomLocks for TLC.                                       *)
(***************************************************************************)
EXTENDS RoomLocks

CONSTANTS u1, u2, first

(* One connection of the first user, the others of the second.             *)
Users == [c \in Conns |-> IF c = first THEN u1 ELSE u2]
=============================================================================
