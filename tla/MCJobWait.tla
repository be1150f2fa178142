----------------------------- MODULE MCJobWait -----------------------------
(* JobWait with the ways to wait given by the configurations. *)
EXTENDS JobWait
=============================================================================
