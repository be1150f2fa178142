---------------------------- MODULE MCCommander ----------------------------
(* Commander with two entries in the tree. *)
EXTENDS Commander

CONSTANTS p1, p2

MCPath == {p1, p2}
=============================================================================
