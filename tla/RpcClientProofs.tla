-------------------------- MODULE RpcClientProofs --------------------------
(***************************************************************************)
(* Theorems of RpcClient, for every set of controllers, order of keys,     *)
(* set of descriptors and number of requests.                              *)
(***************************************************************************)
EXTENDS RpcClient, FiniteSetTheorems, TLAPS

USE DEF netVars, hostVars, loopVars

----------------------------------------------------------------------------

\* The replies the client makes up itself and those of the controllers are replies.
LEMMA ReplyType ==
    /\ \A s \in Status : Plain(s) \in Reply
    /\ \A r \in ControllerReply : r \in Reply
<1>1. \A s \in Status : Plain(s) \in Reply
  BY DEF Plain, Reply
<1>2. ASSUME NEW r \in ControllerReply PROVE r \in Reply
  <2>1. CASE r \in {Plain(s) : s \in {"ok", "authRequired", "accessDenied", "error"}}
    BY <2>1, <1>1 DEF Status
  <2>2. CASE r \in [status : {"redirect"}, keys : SUBSET Controller,
                    leader : Controller \cup {None}]
    BY <2>2 DEF Reply, Status
  <2> QED BY <2>1, <2>2 DEF ControllerReply
<1> QED BY <1>1, <1>2

\* What connect() does after a failed attempt keeps the types, whatever marks
\* it was given on the list it has or loads.
LEMMA TryNextHostType ==
    ASSUME TypeOK, NEW marked, marked \subseteq Loaded, TryNextHost(marked), Close,
           UNCHANGED <<up, remembered, op, tried, nTry, calls>>
    PROVE  TypeOK'
BY ReplyType DEF TypeOK, TryNextHost, Close, ReturnError, Loaded, Status, Exit

\* The type invariant holds of every behaviour of the client.
THEOREM TypeCorrect == Spec => []TypeOK
<1>1. Init => TypeOK
  <2> SUFFICES ASSUME Init PROVE TypeOK
    OBVIOUS
  <2>1. reply \in Reply
    BY ReplyType DEF Init, Status
  <2>2. host \in Controller /\ op \in Operation \cup {None}
    BY ControllerAssumption DEF Init
  <2>3. nTry \in Nat /\ calls \in 0..MaxCalls /\ exit \in Exit
    BY LimitAssumption DEF Init, Exit
  <2>4. fd \in Descriptor \cup {-1} /\ open \subseteq Descriptor
    BY DEF Init
  <2> QED
    BY <2>1, <2>2, <2>3, <2>4 DEF Init, TypeOK
<1>2. TypeOK /\ [Next]_vars => TypeOK'
  <2> SUFFICES ASSUME TypeOK, [Next]_vars PROVE TypeOK'
    OBVIOUS
  <2> USE ReplyType, LimitAssumption
  <2>1. ASSUME NEW o \in Operation, Start(o) PROVE TypeOK'
    BY <2>1 DEF TypeOK, Start, Status
  <2>2. CASE OpenSocket
    BY <2>2 DEF TypeOK, OpenSocket, StillOpen
  <2>3. CASE SocketFails
    BY <2>3 DEF TypeOK, SocketFails, StillOpen, ReturnError, Status, Exit
  <2>4. CASE LookupFails
    <3>1. failed \subseteq Loaded
      BY DEF TypeOK, Loaded
    <3> QED BY <2>4, <3>1, TryNextHostType DEF LookupFails
  <2>5. CASE Refused
    <3>1. failed \cup ({host} \cap Loaded) \subseteq Loaded
      BY DEF TypeOK, Loaded
    <3> QED BY <2>5, <3>1, TryNextHostType DEF Refused
  <2>6. CASE HandshakeFails
    BY <2>6 DEF TypeOK, HandshakeFails, Close, ReturnError, Status, Exit
  <2>7. CASE Connected
    BY <2>7 DEF TypeOK, Connected
  <2>8. CASE Send
    BY <2>8 DEF TypeOK, Send
  <2>9. CASE WriteFails
    BY <2>9 DEF TypeOK, WriteFails, Close, ReturnError, Status, Exit
  <2>10. CASE ReadFails
    BY <2>10 DEF TypeOK, ReadFails, ReturnError, Status, Exit
  <2>11. CASE BadReply
    BY <2>11 DEF TypeOK, BadReply, Close, ReturnError, Status, Exit
  <2>12. ASSUME NEW r \in ControllerReply, Receive(r) PROVE TypeOK'
    BY <2>12 DEF TypeOK, Receive, Close
  <2>13. CASE StreamEnds
    BY <2>13 DEF TypeOK, StreamEnds
  <2>14. CASE StreamBreaks
    BY <2>14 DEF TypeOK, StreamBreaks
  <2>15. CASE Deliver
    BY <2>15 DEF TypeOK, Deliver
  <2>16. CASE NoController
    BY <2>16 DEF TypeOK, NoController, Reply
  <2>17. ASSUME NEW k \in Controller, Redirect(k) PROVE TypeOK'
    <3>1. reply.keys \subseteq Controller
      BY DEF TypeOK, Reply
    <3>2. tried' \subseteq Controller /\ remembered' \subseteq Controller
      BY <2>17, <3>1 DEF TypeOK, Redirect, Seen, Fresh
    <3>3. reply' \in Reply
      BY <2>17 DEF TypeOK, Redirect, Status
    <3>4. host' \in Controller /\ fd' \in Descriptor \cup {-1} /\ open' \subseteq Descriptor
      BY <2>17 DEF TypeOK, Redirect, Close
    <3>5. nTry' \in Nat
      BY <2>17 DEF TypeOK, Redirect
    <3>7. pc' \in {"connect", "return"} /\ retval' \in BOOLEAN
      BY <2>17, Zenon DEF TypeOK, Redirect
    <3>6. UNCHANGED <<up, servers, failed, op, calls, authenticated, exit>>
      BY <2>17 DEF Redirect
    <3> QED BY <3>2, <3>3, <3>4, <3>5, <3>6, <3>7 DEF TypeOK
  <2>18. CASE Return
    <3>1. ExitStatus(exit) \in Exit /\ ExitStatus("ok") \in Exit
      BY DEF TypeOK, ExitStatus, Exit
    <3> QED BY <2>18, <3>1 DEF TypeOK, Return, Exit
  <2>19. CASE Restart
    <3>1. reply' \in Reply
      BY <2>19 DEF Restart, Status
    <3>2. fd' \in Descriptor \cup {-1} /\ open' \subseteq Descriptor /\ exit' \in Exit
      BY <2>19 DEF Restart, Exit
    <3>3. nTry' \in Nat /\ calls' \in 0..MaxCalls
      BY <2>19 DEF TypeOK, Restart
    <3> QED BY <2>19, <3>1, <3>2, <3>3, ControllerAssumption DEF TypeOK, Restart
  <2>20. ASSUME NEW c \in Controller, Stop(c) \/ Recover(c) PROVE TypeOK'
    BY <2>20 DEF TypeOK, Stop, Recover
  <2>21. CASE UNCHANGED vars
    BY <2>21 DEF TypeOK, vars
  <2> QED
    BY <2>1, <2>2, <2>3, <2>4, <2>5, <2>6, <2>7, <2>8, <2>9, <2>10, <2>11, <2>12,
       <2>13, <2>14, <2>15, <2>16, <2>17, <2>18, <2>19, <2>20, <2>21
       DEF Next, Step, Connect, Exchange, Loop
<1>3. QED
  BY <1>1, <1>2, PTL DEF Spec

----------------------------------------------------------------------------
(* One socket at a time *)

\* A process whose descriptor 0 is taken holds at most one socket, although
\* three paths of doExecuteRequest return without closing it.
THEOREM SocketCorrect ==
    ASSUME 0 \notin Descriptor
    PROVE  Spec => []AtMostOneSocket
<1>1. Init => AtMostOneSocket
  BY DEF Init, AtMostOneSocket
<1>2. TypeOK /\ AtMostOneSocket /\ [Next]_vars => AtMostOneSocket'
  <2> SUFFICES ASSUME TypeOK, AtMostOneSocket, [Next]_vars PROVE AtMostOneSocket'
    OBVIOUS
  <2>1. StillOpen = {}
    BY LimitAssumption DEF StillOpen, TypeOK, AtMostOneSocket
  <2>2. Close => open' = {}
    BY DEF Close, AtMostOneSocket
  <2>3. ASSUME UNCHANGED netVars PROVE AtMostOneSocket'
    BY <2>3 DEF AtMostOneSocket
  <2>4. CASE OpenSocket \/ SocketFails
    BY <2>1, <2>4 DEF OpenSocket, SocketFails, AtMostOneSocket
  <2>5. CASE \/ LookupFails \/ Refused \/ HandshakeFails \/ WriteFails \/ BadReply
             \/ (\E r \in ControllerReply : Receive(r))
             \/ (\E k \in Controller : Redirect(k))
    BY <2>2, <2>5 DEF LookupFails, Refused, HandshakeFails, WriteFails, BadReply,
       Receive, Redirect, AtMostOneSocket
  <2>6. CASE Restart
    BY <2>6 DEF Restart, AtMostOneSocket
  <2>7. CASE \/ (\E o \in Operation : Start(o))
             \/ Connected \/ Send \/ ReadFails \/ StreamEnds \/ StreamBreaks
             \/ Deliver \/ NoController \/ Return
             \/ (\E c \in Controller : Stop(c) \/ Recover(c))
    BY <2>3, <2>7 DEF Start, Connected, Send, ReadFails, StreamEnds, StreamBreaks,
       Deliver, NoController, Return, Stop, Recover
  <2>8. CASE UNCHANGED vars
    BY <2>3, <2>8 DEF vars
  <2> QED
    BY <2>4, <2>5, <2>6, <2>7, <2>8 DEF Next, Step, Connect, Exchange, Loop
<1>3. QED
  BY <1>1, <1>2, TypeCorrect, PTL DEF Spec

----------------------------------------------------------------------------
(* Redirects *)

\* A redirect marks at least the controller it goes to as tried, and that one
\* was not tried before.
LEMMA RedirectTries ==
    ASSUME TypeOK, NEW k \in Controller, Redirect(k)
    PROVE  /\ IsFiniteSet(tried) /\ Cardinality(tried) \in Nat
           /\ Cardinality(tried) + 1 <= Cardinality(tried')
           /\ Cardinality(tried') \in Nat
           /\ Cardinality(tried') <= Cardinality(Controller)
<1>1. k \notin tried
  BY DEF Redirect, Picked, Eligible, Fresh
<1>2. k \in tried'
  BY RankAssumption DEF Redirect, Picked, Eligible, Seen
<1>3. tried \cup {k} \subseteq tried' /\ tried' \subseteq Controller
  BY <1>2 DEF Redirect, TypeOK, Seen, Fresh, Reply
<1>4. IsFiniteSet(tried) /\ IsFiniteSet(tried')
  BY <1>3, ControllerAssumption, FS_Subset DEF TypeOK
<1>5. Cardinality(tried \cup {k}) = Cardinality(tried) + 1
  BY <1>1, <1>4, FS_AddElement
<1>6. Cardinality(tried \cup {k}) <= Cardinality(tried')
  BY <1>3, <1>4, FS_Subset
<1>7. Cardinality(tried') <= Cardinality(Controller)
  BY <1>3, ControllerAssumption, FS_Subset
<1> QED
  BY <1>4, <1>5, <1>6, <1>7, FS_CardinalityType

\* Whatever the controllers answer, a request is redirected at most once for
\* every controller it has used up.
THEOREM RedirectsCorrect == Spec => []RedirectsUseUpControllers
<1>1. Init => RedirectsUseUpControllers
  BY FS_EmptySet DEF Init, RedirectsUseUpControllers
<1>2. TypeOK /\ RedirectsUseUpControllers /\ [Next]_vars => RedirectsUseUpControllers'
  <2> SUFFICES ASSUME TypeOK, RedirectsUseUpControllers, [Next]_vars
               PROVE  RedirectsUseUpControllers'
    OBVIOUS
  <2>1. ASSUME NEW k \in Controller, Redirect(k) PROVE RedirectsUseUpControllers'
    <3>1. nTry' = nTry + 1 /\ nTry \in Nat
      BY <2>1 DEF Redirect, TypeOK
    <3> QED BY <3>1, <2>1, RedirectTries DEF RedirectsUseUpControllers
  <2>2. CASE Return \/ Restart
    BY <2>2, FS_EmptySet DEF Return, Restart, RedirectsUseUpControllers
  <2>3. ASSUME UNCHANGED <<tried, nTry>> PROVE RedirectsUseUpControllers'
    BY <2>3 DEF RedirectsUseUpControllers
  <2>4. CASE \/ (\E o \in Operation : Start(o)) \/ Connect \/ Exchange
             \/ Deliver \/ NoController
             \/ (\E c \in Controller : Stop(c) \/ Recover(c)) \/ UNCHANGED vars
    BY <2>3, <2>4 DEF Start, Connect, Exchange, OpenSocket, SocketFails, LookupFails,
       Refused, HandshakeFails, Connected, Send, WriteFails, ReadFails, BadReply,
       Receive, StreamEnds, StreamBreaks, Deliver, NoController, Stop, Recover, vars
  <2> QED
    BY <2>1, <2>2, <2>4 DEF Next, Step, Loop
<1>3. QED
  BY <1>1, <1>2, TypeCorrect, PTL DEF Spec

----------------------------------------------------------------------------
(* The refinement *)

\* To its caller the client is an abstract request: failovers, sends and reads
\* are stutters, a redirect is a hop, and the budget of hops is the number of
\* controllers because every redirect uses one up.
THEOREM RefinesRequest == Spec => ImplementsRequest
<1>1. Init => Abstract!Init
  BY DEF Init, Abstract!Init, Phase
<1>2. TypeOK /\ RedirectsUseUpControllers /\ [Next]_vars => [Abstract!Next]_<<Phase, nTry>>
  <2> SUFFICES ASSUME TypeOK, RedirectsUseUpControllers, [Next]_vars
               PROVE  [Abstract!Next]_<<Phase, nTry>>
    OBVIOUS
  <2> USE DEF Phase
  <2>1. ASSUME NEW o \in Operation, Start(o) PROVE Abstract!Begin
    BY <2>1 DEF Start, Abstract!Begin
  <2>2. ASSUME NEW marked, TryNextHost(marked), pc = "dial", UNCHANGED nTry
        PROVE  Abstract!Fail \/ UNCHANGED <<Phase, nTry>>
    BY <2>2 DEF TryNextHost, ReturnError, Abstract!Fail
  <2>3. CASE Connect
    BY <2>2, <2>3 DEF Connect, OpenSocket, SocketFails, LookupFails, Refused,
       HandshakeFails, Connected, ReturnError, Abstract!Fail, Abstract!Next
  <2>4. CASE Exchange
    BY <2>4 DEF Exchange, Send, WriteFails, ReadFails, BadReply, Receive, StreamEnds,
       StreamBreaks, ReturnError, Abstract!Answer, Abstract!Fail, Abstract!Next
  <2>5. CASE Deliver \/ NoController
    <3>1. pc = "reply" /\ pc' = "return" /\ retval' = TRUE /\ nTry' = nTry
      BY <2>5 DEF Deliver, NoController
    <3> QED BY <3>1 DEF Abstract!Answer, Abstract!Next
  <2>6. ASSUME NEW k \in Controller, Redirect(k) PROVE Abstract!Hop
    <3>1. nTry < Cardinality(Controller)
      <4>1. Cardinality(Controller) \in Nat
        BY ControllerAssumption, FS_CardinalityType
      <4> QED BY <2>6, <4>1, RedirectTries DEF RedirectsUseUpControllers, TypeOK
    <3>2. Phase = "busy" /\ Phase' \in {"busy", "answered"} /\ nTry' = nTry + 1
      BY <2>6, Zenon DEF Redirect
    <3> QED BY <3>1, <3>2 DEF Abstract!Hop
  <2>7. CASE Return
    <3>1. pc = "return" /\ pc' = "idle" /\ nTry' = 0
      BY <2>7 DEF Return
    <3> QED BY <3>1 DEF Abstract!Take, Abstract!Next
  <2>8. CASE Restart
    <3>1. pc' = "idle" /\ nTry' = 0
      BY <2>8 DEF Restart
    <3> QED BY <3>1 DEF Abstract!Interrupt, Abstract!Next
  <2>9. CASE (\E c \in Controller : Stop(c) \/ Recover(c)) \/ UNCHANGED vars
    BY <2>9 DEF Stop, Recover, vars
  <2> QED
    BY <2>1, <2>3, <2>4, <2>5, <2>6, <2>7, <2>8, <2>9 DEF Next, Step, Loop, Abstract!Next
<1>3. QED
  BY <1>1, <1>2, TypeCorrect, RedirectsCorrect, PTL
     DEF Spec, ImplementsRequest, Abstract!Spec

----------------------------------------------------------------------------
(* Failover *)

\* The marks are right as long as no controller comes back.
FailedAreDown == failed \cap up = {}

LEMMA FailedAreDownCorrect ==
    ASSUME MayRecover = FALSE
    PROVE  Spec => []FailedAreDown
<1>1. Init => FailedAreDown
  BY DEF Init, FailedAreDown
<1>2. FailedAreDown /\ [Next]_vars => FailedAreDown'
  <2> SUFFICES ASSUME FailedAreDown, [Next]_vars PROVE FailedAreDown'
    OBVIOUS
  <2> USE DEF FailedAreDown
  <2>1. CASE LookupFails
    BY <2>1 DEF LookupFails, TryNextHost
  <2>6. CASE Refused
    <3>1. failed' = failed \cup ({host} \cap Loaded) /\ up' = up /\ host \notin up
      BY <2>6 DEF Refused, TryNextHost
    <3> QED BY <3>1
  <2>2. CASE Restart
    BY <2>2 DEF Restart
  <2>3. ASSUME NEW c \in Controller, Stop(c) \/ Recover(c) PROVE FailedAreDown'
    BY <2>3 DEF Stop, Recover
  <2>4. ASSUME UNCHANGED <<failed, up>> PROVE FailedAreDown'
    BY <2>4
  <2>5. CASE \/ (\E o \in Operation : Start(o))
             \/ OpenSocket \/ SocketFails \/ HandshakeFails \/ Connected
             \/ Exchange \/ Loop \/ Return \/ UNCHANGED vars
    <3>1. UNCHANGED <<failed, up>>
      BY <2>5 DEF Start, OpenSocket, SocketFails, HandshakeFails, Connected,
         Exchange, Send, WriteFails, ReadFails, BadReply, Receive, StreamEnds,
         StreamBreaks, Loop, Deliver, NoController, Redirect, Return, vars
    <3> QED BY <3>1, <2>4
  <2> QED
    BY <2>1, <2>2, <2>3, <2>5, <2>6 DEF Next, Step, Connect
<1>3. QED
  BY <1>1, <1>2, PTL DEF Spec

\* As long as no controller comes back, a client whose connection is refused
\* only gives up when every controller it knows of is down.
THEOREM FailoverCorrect ==
    ASSUME MayRecover = FALSE
    PROVE  Spec => NoGiveUpWhileReachable
<1>1. ASSUME FailedAreDown, Refused, pc' = "return"
      PROVE  servers' \cap up \subseteq Unresolvable
  <2>1. Loaded \subseteq failed \cup ({host} \cap Loaded) /\ servers' = Loaded
    BY <1>1 DEF Refused, TryNextHost
  <2> QED BY <1>1, <2>1 DEF Refused, FailedAreDown
<1>2. FailedAreDown /\ [Next]_vars =>
        [Refused /\ pc' = "return" => servers' \cap up \subseteq Unresolvable]_vars
  BY <1>1
<1>3. QED
  BY <1>2, FailedAreDownCorrect, PTL DEF Spec, NoGiveUpWhileReachable

----------------------------------------------------------------------------

\* A request that fails, but for a subscription, says so in the exit status and
\* in the reply: every way out of connect() and doExecuteRequest() that returns
\* false went through the same assignments.
THEOREM FailureCorrect == Spec => []FailureReported
<1> USE DEF FailureReported
<1>1. Init => FailureReported
  BY DEF Init
<1>2. FailureReported /\ [Next]_vars => FailureReported'
  <2> SUFFICES ASSUME FailureReported, [Next]_vars PROVE FailureReported'
    OBVIOUS
  <2> USE DEF Plain, ReturnError
  <2>1. ASSUME NEW o \in Operation, Start(o) PROVE FailureReported'
    BY <2>1 DEF Start
  <2>2. CASE OpenSocket \/ SocketFails \/ HandshakeFails \/ Connected
    BY <2>2 DEF OpenSocket, SocketFails, HandshakeFails, Connected
  <2>3. CASE LookupFails \/ Refused
    BY <2>3 DEF LookupFails, Refused, TryNextHost
  <2>4. CASE Send \/ WriteFails \/ ReadFails \/ BadReply
    BY <2>4 DEF Send, WriteFails, ReadFails, BadReply
  <2>5. CASE StreamEnds \/ StreamBreaks
    BY <2>5 DEF StreamEnds, StreamBreaks
  <2>6. ASSUME NEW r \in ControllerReply, Receive(r) PROVE FailureReported'
    BY <2>6 DEF Receive
  <2>7. CASE Deliver \/ NoController
    BY <2>7 DEF Deliver, NoController
  <2>8. ASSUME NEW k \in Controller, Redirect(k) PROVE FailureReported'
    BY <2>8 DEF Redirect
  <2>9. CASE Return \/ Restart
    BY <2>9 DEF Return, Restart
  <2>10. ASSUME NEW c \in Controller, Stop(c) \/ Recover(c) PROVE FailureReported'
    BY <2>10 DEF Stop, Recover
  <2>11. CASE UNCHANGED vars
    BY <2>11 DEF vars
  <2> QED
    BY <2>1, <2>2, <2>3, <2>4, <2>5, <2>6, <2>7, <2>8, <2>9, <2>10, <2>11
       DEF Next, Step, Connect, Exchange, Loop
<1> QED
  BY <1>1, <1>2, PTL DEF Spec
=============================================================================
