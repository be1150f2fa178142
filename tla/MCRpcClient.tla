---------------------------- MODULE MCRpcClient ----------------------------
(* RpcClient with three controllers. *)
EXTENDS RpcClient, TLC

CONSTANTS c1, c2, c3

MCController == {c1, c2, c3}

\* The controllers in the order of their keys.
MCRank == (c1 :> 1) @@ (c2 :> 2) @@ (c3 :> 3)
=============================================================================
