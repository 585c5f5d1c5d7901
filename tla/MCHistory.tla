----------------------------- MODULE MCHistory -----------------------------
(***************************************************************************)
(* An instance of History for TLC.                                         *)
(***************************************************************************)
EXTENDS History

TwoAuthors == [m \in Msgs |-> IF m = 3 THEN "ann" ELSE "bob"]
=============================================================================
