------------------------------ MODULE Request ------------------------------
(***************************************************************************)
(* What a caller of S9sRpcClient::executeRequest may rely on, with the     *)
(* connections, failovers and controllers hidden: a request that was begun *)
(* is sent on to an other controller at most Limit times and is then       *)
(* answered or has failed; the caller takes the outcome before it begins   *)
(* the next request.  The program may be interrupted at any moment.        *)
(***************************************************************************)
EXTENDS Naturals

CONSTANT Limit

VARIABLES phase, hops

Init == phase = "idle" /\ hops = 0

Begin == phase = "idle" /\ phase' = "busy" /\ UNCHANGED hops

Hop ==
    /\ phase = "busy"
    /\ hops < Limit
    /\ hops' = hops + 1
    /\ phase' \in {"busy", "answered"}

Answer == phase = "busy" /\ phase' = "answered" /\ UNCHANGED hops

Fail == phase = "busy" /\ phase' = "failed" /\ UNCHANGED hops

Take ==
    /\ phase \in {"answered", "failed"}
    /\ phase' = "idle"
    /\ hops' = 0

Interrupt == phase' = "idle" /\ hops' = 0

Next == Begin \/ Hop \/ Answer \/ Fail \/ Take \/ Interrupt

Spec == Init /\ [][Next]_<<phase, hops>>
=============================================================================
