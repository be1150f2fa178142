----------------------------- MODULE RpcClient -----------------------------
(***************************************************************************)
(* One S9sRpcClient talking to a highly available set of controllers: the  *)
(* connection with its host failover (S9sRpcClientPrivate::connect), one   *)
(* request and its reply (doExecuteRequest), the redirects a follower      *)
(* sends (executeRequest), the controllers remembered in the state file    *)
(* (rememberRedirect, loadRedirect) and what is left for the caller: the   *)
(* reply, the authenticated flag and the exit status of the program.       *)
(*                                                                         *)
(* A host name with its port is one element of Controller.  The network    *)
(* and the controllers are the environment: every outcome of a system call *)
(* and every reply a controller may send is a disjunct.                    *)
(***************************************************************************)
EXTENDS Integers, FiniteSets

CONSTANTS
    Controller,     \* host:port pairs a client may talk to
    Configured,     \* the one given by --controller or the config file
    Rank,           \* the order of the keys of the "controllers" map of a reply
    Unresolvable,   \* controllers whose host name has no DNS entry
    Descriptor,     \* file descriptor numbers free when the program starts
    Operation,      \* the kinds of requests the program makes
    MaxRedirects,   \* 15 in executeRequest
    MaxCalls,       \* bound: requests of one behaviour
    MayRecover,     \* whether a controller that stopped may come back
    None            \* no controller

ASSUME ControllerAssumption ==
    /\ IsFiniteSet(Controller)
    /\ Configured \in Controller
    /\ None \notin Controller
    /\ Unresolvable \subseteq Controller

\* S9sVariantMap is ordered by key, so the keys of a map have one order.
ASSUME RankAssumption ==
    /\ Rank \in [Controller -> Nat]
    /\ \A c, d \in Controller : Rank[c] = Rank[d] => c = d

ASSUME LimitAssumption ==
    /\ Descriptor \subseteq Nat
    /\ Operation \subseteq {"call", "poll", "ping", "auth", "subscribe"}
    /\ MaxRedirects \in Nat
    /\ MaxCalls \in Nat
    /\ MayRecover \in BOOLEAN

VARIABLES
    up,             \* environment: controllers that accept connections
    pc,             \* where the client is
    op,             \* the request being executed
    host,           \* m_hostName, m_port
    fd,             \* m_socketFd
    open,           \* descriptors of the process that hold a socket
    servers,        \* m_servers, in the order of Rank
    failed,         \* the elements of m_servers with "connect_tried" set
    remembered,     \* "redirects" of the state for this controller URL
    authenticated,  \* m_authenticated
    tried,          \* triedKeys of executeRequest
    nTry,           \* nTry of executeRequest
    reply,          \* m_reply
    retval,         \* what executeRequest returns
    exit,           \* S9sOptions::m_exitStatus
    calls           \* requests started so far

netVars  == <<fd, open>>
hostVars == <<host, servers, failed, remembered>>
loopVars == <<op, tried, nTry, calls>>
vars == <<up, pc, netVars, hostVars, loopVars, authenticated, reply, retval, exit>>

Status == {"none", "ok", "redirect", "authRequired", "accessDenied", "error",
           "connectError"}
Exit   == {"ok", "failed", "accessDenied", "connectionError"}

Reply == [status : Status, keys : SUBSET Controller, leader : Controller \cup {None}]

\* A reply that carries no list of controllers.
Plain(s) == [status |-> s, keys |-> {}, leader |-> None]

\* What a controller may answer: a follower redirects and names the
\* controllers it knows of and the one it takes for the leader.
ControllerReply ==
    {Plain(s) : s \in {"ok", "authRequired", "accessDenied", "error"}} \cup
    {r \in [status : {"redirect"}, keys : SUBSET Controller,
            leader : Controller \cup {None}] : r.leader \in r.keys \cup {None}}

\* The redirect argument that reaches connect() and executeRequest().  The one
\* caller that does not want to be redirected, pingController, passes
\* S9s::DenyRedirect as the third argument, which is printRequest.
RedirectOf(o) == "allow"

----------------------------------------------------------------------------

Init ==
    /\ up \in SUBSET Controller
    /\ pc = "idle"
    /\ op = None
    /\ host = Configured
    /\ fd = -1
    /\ open = {}
    /\ servers = {}
    /\ failed = {}
    /\ remembered \in SUBSET Controller
    /\ authenticated = FALSE
    /\ tried = {}
    /\ nTry = 0
    /\ reply = Plain("none")
    /\ retval = FALSE
    /\ exit = "ok"
    /\ calls = 0

\* executeRequest is called: nothing was tried, doExecuteRequest clears the reply.
Start(o) ==
    /\ pc = "idle"
    /\ calls < MaxCalls
    /\ pc' = "connect"
    /\ op' = o
    /\ reply' = Plain("none")
    /\ calls' = calls + 1
    /\ UNCHANGED <<up, netVars, hostVars, tried, nTry, authenticated, retval, exit>>

----------------------------------------------------------------------------
(* S9sRpcClientPrivate::connect *)

\* close(): does nothing without a descriptor.
Close ==
    /\ fd' = -1
    /\ open' = open \ {fd}

\* What doExecuteRequest does when the communication breaks.
ReturnError ==
    /\ pc' = "return"
    /\ retval' = FALSE
    /\ reply' = Plain("connectError")
    /\ exit' = "connectionError"

\* Mistake: connect() does not look for a previous connection.
NothingDisconnected == open

\* The descriptors left after "disconnect first if there is a previous
\* connection", which looks for a positive descriptor.
StillOpen == IF fd > 0 THEN open \ {fd} ELSE open

\* socket() returns the lowest free descriptor.
OpenSocket ==
    /\ pc = "connect"
    /\ \E d \in Descriptor \ StillOpen :
        /\ \A e \in Descriptor \ StillOpen : d <= e
        /\ fd' = d
        /\ open' = StillOpen \cup {d}
    /\ pc' = "dial"
    /\ UNCHANGED <<up, hostVars, loopVars, authenticated, reply, retval, exit>>

SocketFails ==
    /\ pc = "connect"
    /\ fd' = -1
    /\ open' = StillOpen
    /\ ReturnError
    /\ UNCHANGED <<up, hostVars, loopVars, authenticated>>

\* Mistake: the list is read from the state whenever a connection fails, and
\* the marks of the old list are kept.
LoadedAgain == remembered

\* m_servers once loadRedirect() has been given its chance.
Loaded == IF servers = {} THEN remembered ELSE servers

\* Mistake: only the first controller of the list is looked at.
TryFirstHost(marked) ==
    /\ servers' = Loaded
    /\ failed' = marked
    /\ \/ /\ \E c \in Loaded \ marked :
                /\ \A d \in Loaded : Rank[c] <= Rank[d]
                /\ host' = c
          /\ pc' = "connect"
          /\ UNCHANGED <<authenticated, reply, retval, exit>>
       \/ /\ \A c \in Loaded \ marked : \E d \in Loaded : Rank[d] < Rank[c]
          /\ authenticated' = FALSE
          /\ ReturnError
          /\ UNCHANGED host

\* The rest of connect() after the lookup or the connection failed, with the
\* marks in marked: tryNextHost() takes the first controller that is not
\* marked and connect() starts again, or the client gives up.
TryNextHost(marked) ==
    /\ servers' = Loaded
    /\ failed' = marked
    /\ \/ /\ \E c \in Loaded \ marked :
                /\ \A d \in Loaded \ marked : Rank[c] <= Rank[d]
                /\ host' = c
          /\ pc' = "connect"
          /\ UNCHANGED <<authenticated, reply, retval, exit>>
       \/ /\ Loaded \subseteq marked
          /\ authenticated' = FALSE
          /\ ReturnError
          /\ UNCHANGED host

\* gethostbyname() knows no such host: the controller is not marked.
LookupFails ==
    /\ pc = "dial"
    /\ host \in Unresolvable
    /\ Close
    /\ TryNextHost(failed)
    /\ UNCHANGED <<up, remembered, loopVars>>

\* Mistake: setConnectFailed() is forgotten.
RefusedUnmarked ==
    /\ pc = "dial"
    /\ host \notin Unresolvable
    /\ host \notin up
    /\ Close
    /\ TryNextHost(failed)
    /\ UNCHANGED <<up, remembered, loopVars>>

\* ::connect() fails, by a refusal or a timeout: setConnectFailed().
Refused ==
    /\ pc = "dial"
    /\ host \notin Unresolvable
    /\ host \notin up
    /\ Close
    /\ TryNextHost(failed \cup ({host} \cap Loaded))
    /\ UNCHANGED <<up, remembered, loopVars>>

\* The TLS context or the handshake fails: no failover, and the
\* authenticated flag is left alone.
HandshakeFails ==
    /\ pc = "dial"
    /\ host \in up \ Unresolvable
    /\ Close
    /\ ReturnError
    /\ UNCHANGED <<up, hostVars, loopVars, authenticated>>

Connected ==
    /\ pc = "dial"
    /\ host \in up \ Unresolvable
    /\ pc' = "send"
    /\ UNCHANGED <<up, netVars, hostVars, loopVars, authenticated, reply, retval, exit>>

----------------------------------------------------------------------------
(* S9sRpcClient::doExecuteRequest after the connection is made *)

Send ==
    /\ pc = "send"
    /\ pc' = "read"
    /\ UNCHANGED <<up, netVars, hostVars, loopVars, authenticated, reply, retval, exit>>

WriteFails ==
    /\ pc = "send"
    /\ Close
    /\ ReturnError
    /\ UNCHANGED <<up, hostVars, loopVars, authenticated>>

\* read() fails or times out, or a stream comes to a client that has no
\* callback for it: the function returns without close().
ReadFails ==
    /\ pc = "read"
    /\ ReturnError
    /\ UNCHANGED <<up, netVars, hostVars, loopVars, authenticated>>

\* The connection ends with no data, or with data that is no JSON reply.
BadReply ==
    /\ pc = "read"
    /\ Close
    /\ ReturnError
    /\ UNCHANGED <<up, hostVars, loopVars, authenticated>>

Receive(r) ==
    /\ pc = "read"
    /\ Close
    /\ reply' = r
    /\ authenticated' = (authenticated /\ r.status # "authRequired")
    /\ pc' = "reply"
    /\ UNCHANGED <<up, hostVars, loopVars, retval, exit>>

\* A stream of records that the callback has seen ends: true is returned, the
\* reply stays empty and the socket stays open.
StreamEnds ==
    /\ pc = "read"
    /\ op = "subscribe"
    /\ pc' = "return"
    /\ retval' = TRUE
    /\ UNCHANGED <<up, netVars, hostVars, loopVars, authenticated, reply, exit>>

\* A record of the stream is not JSON: false is returned and nothing else is set.
StreamBreaks ==
    /\ pc = "read"
    /\ op = "subscribe"
    /\ pc' = "return"
    /\ retval' = FALSE
    /\ UNCHANGED <<up, netVars, hostVars, loopVars, authenticated, reply, exit>>

----------------------------------------------------------------------------
(* S9sRpcClient::executeRequest: the loop around doExecuteRequest *)

Deliver ==
    /\ pc = "reply"
    /\ reply.status # "redirect"
    /\ pc' = "return"
    /\ retval' = TRUE
    /\ UNCHANGED <<up, netVars, hostVars, loopVars, authenticated, reply, exit>>

\* Mistake: triedKeys is not looked at.
AllKeys == reply.keys

\* The keys the loop over the controllers of a reply has not seen before.
Fresh == reply.keys \ tried

\* The loop stops at a leader that is not the current controller.
Eligible == {c \in Fresh : c = reply.leader /\ c # host}

\* hostName and port as the loop leaves them: those of the controller it
\* stopped at, or else those of the last key it looked at.
Picked(k) ==
    IF Eligible # {}
    THEN k \in Eligible
    ELSE /\ k \in Fresh
         /\ \A c \in Fresh : Rank[c] <= Rank[k]

\* Mistake: triedKeys is not filled.
SeenNothing(k) == {}

Seen(k) == {c \in Fresh : Rank[c] <= Rank[k]}

\* rememberRedirect(), then every key of the reply was tried before.
NoController ==
    /\ pc = "reply"
    /\ reply.status = "redirect"
    /\ remembered' = reply.keys
    /\ RedirectOf(op) = "allow" => Fresh = {}
    /\ pc' = "return"
    /\ retval' = TRUE
    /\ UNCHANGED <<up, netVars, host, servers, failed, loopVars, authenticated, reply, exit>>

\* rememberRedirect(), then the request is sent again to an other controller
\* unless there were too many redirects already.
Redirect(k) ==
    /\ pc = "reply"
    /\ reply.status = "redirect"
    /\ RedirectOf(op) = "allow"
    /\ remembered' = reply.keys
    /\ Picked(k)
    /\ tried' = tried \cup Seen(k)
    /\ Close
    /\ host' = k
    /\ nTry' = nTry + 1
    /\ \/ /\ nTry < MaxRedirects
          /\ pc' = "connect"
          /\ reply' = Plain("none")
          /\ UNCHANGED retval
       \/ /\ nTry >= MaxRedirects
          /\ pc' = "return"
          /\ retval' = TRUE
          /\ UNCHANGED reply
    /\ UNCHANGED <<up, servers, failed, op, calls, authenticated, exit>>

----------------------------------------------------------------------------
(* The callers *)

\* S9sRpcClient::setExitStatus: the exit status before was e.
ExitStatus(e) ==
    CASE reply.status \in {"none", "ok"} -> e
      [] reply.status = "accessDenied"   -> "accessDenied"
      [] OTHER                           -> "failed"

\* executeRequest returns to its caller, and its local variables are gone.
Return ==
    /\ pc = "return"
    /\ pc' = "idle"
    /\ tried' = {}
    /\ nTry' = 0
    /\ \/ /\ op \in {"call", "subscribe"}
          /\ exit' = ExitStatus(exit)
          /\ authenticated' = (authenticated /\ reply.status \notin {"authRequired", "connectError"})
       \/ /\ op = "ping"
          /\ exit' = IF retval THEN ExitStatus("ok") ELSE "failed"
          /\ authenticated' = (authenticated /\ reply.status \notin {"authRequired", "connectError"})
       \/ /\ op = "auth"
          /\ authenticated' = (retval /\ reply.status = "ok")
          /\ exit' = IF retval /\ reply.status # "ok" THEN "accessDenied" ELSE exit
       \/ /\ op = "poll"
          /\ UNCHANGED <<authenticated, exit>>
    /\ UNCHANGED <<up, netVars, hostVars, op, calls, reply, retval>>

\* The program ends or is interrupted and is started again: only the state
\* file survives.
Restart ==
    /\ calls < MaxCalls
    /\ pc' = "idle"
    /\ host' = Configured
    /\ fd' = -1
    /\ open' = {}
    /\ servers' = {}
    /\ failed' = {}
    /\ authenticated' = FALSE
    /\ tried' = {}
    /\ nTry' = 0
    /\ reply' = Plain("none")
    /\ retval' = FALSE
    /\ exit' = "ok"
    /\ calls' = calls + 1
    /\ op' = None
    /\ UNCHANGED <<up, remembered>>

----------------------------------------------------------------------------
(* The controllers *)

Stop(c) ==
    /\ c \in up
    /\ up' = up \ {c}
    /\ UNCHANGED <<pc, netVars, hostVars, loopVars, authenticated, reply, retval, exit>>

Recover(c) ==
    /\ MayRecover
    /\ c \notin up
    /\ up' = up \cup {c}
    /\ UNCHANGED <<pc, netVars, hostVars, loopVars, authenticated, reply, retval, exit>>

----------------------------------------------------------------------------

Connect == OpenSocket \/ SocketFails \/ LookupFails \/ Refused \/ HandshakeFails \/ Connected

Exchange ==
    \/ Send \/ WriteFails \/ ReadFails \/ BadReply \/ StreamEnds \/ StreamBreaks
    \/ \E r \in ControllerReply : Receive(r)

Loop == Deliver \/ NoController \/ \E k \in Controller : Redirect(k)

\* The steps of a request that was started.
Step == Connect \/ Exchange \/ Loop \/ Return

Next ==
    \/ \E o \in Operation : Start(o)
    \/ Step
    \/ Restart
    \/ \E c \in Controller : Stop(c) \/ Recover(c)

Spec == Init /\ [][Next]_vars

\* A client that runs takes its next step: every read and write has a timeout
\* (SO_RCVTIMEO, SO_SNDTIMEO), so no system call blocks for ever.
FairSpec == Spec /\ WF_vars(Step)

----------------------------------------------------------------------------
(* Properties *)

TypeOK ==
    /\ up \subseteq Controller
    /\ pc \in {"idle", "connect", "dial", "send", "read", "reply", "return"}
    /\ op \in Operation \cup {None}
    /\ host \in Controller
    /\ fd \in Descriptor \cup {-1}
    /\ open \subseteq Descriptor
    /\ servers \subseteq Controller
    /\ failed \subseteq servers
    /\ remembered \subseteq Controller
    /\ authenticated \in BOOLEAN
    /\ tried \subseteq Controller
    /\ nTry \in Nat
    /\ reply \in Reply
    /\ retval \in BOOLEAN
    /\ exit \in Exit
    /\ calls \in 0..MaxCalls

\* However the previous request ended, the process holds at most the socket
\* m_socketFd: the paths of doExecuteRequest that return without close() leave
\* the descriptor for the next connect() to close.
AtMostOneSocket == open \subseteq {fd}

\* Every redirect that is followed uses up a controller that was not tried, so
\* a request is redirected no more times than there are controllers, whatever
\* the controllers answer ("just an unnecessary protection").
RedirectsUseUpControllers == nTry <= Cardinality(tried)

\* A request that fails tells why: the exit status and the reply say that the
\* communication failed.
FailureReported ==
    pc = "return" /\ ~retval /\ op # "subscribe" =>
        exit = "connectionError" /\ reply.status = "connectError"

\* While no controller comes back, the client does not give up connecting for
\* a refusal as long as it knows of a controller that accepts connections.
NoGiveUpWhileReachable ==
    [][Refused /\ pc' = "return" => servers' \cap up \subseteq Unresolvable]_vars

\* The request as its caller sees it.
Phase ==
    CASE pc = "idle"   -> "idle"
      [] pc = "return" -> IF retval THEN "answered" ELSE "failed"
      [] OTHER         -> "busy"

Abstract == INSTANCE Request WITH phase <- Phase, hops <- nTry, Limit <- Cardinality(Controller)

\* Failover and redirects are invisible to the caller of executeRequest, who
\* sees a request that hops at most once per controller, then its outcome.
ImplementsRequest == Abstract!Spec

\* A request ends: neither failover nor redirects go round for ever.
RequestEnds == pc # "idle" ~> pc = "idle"
=============================================================================
