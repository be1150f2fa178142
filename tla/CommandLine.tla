----------------------------- MODULE CommandLine -----------------------------
(***************************************************************************)
(* One run of the program: main() reads the command line and the           *)
(* configuration, answers --version and --help, logs in, lets the branch of *)
(* the dispatch chain send its requests, and turns what came back into the  *)
(* exit status.  The tables and checks of the options are those of          *)
(* OptionChecks, the branches those of Dispatch.  What becomes of a login,  *)
(* of a request and of a job is the environment; how a request travels is   *)
(* the matter of RpcClient, how a job is waited for that of JobWait.        *)
(***************************************************************************)
EXTENDS OptionChecks, Dispatch

CONSTANTS
    Lines,      \* the command lines
    Statuses    \* the statuses of a reply, "none" and "connectError" aside

Refusals == {"accessDenied", "authRequired", "clusterNotFound", "invalidRequest",
             "objectNotFound", "tryAgain", "unknownError"}

\* What is asked of the arguments of the options and of the configuration.
Facts == {"capacity:below-2", "cloud-provider:other", "cloud-provider:s3",
          "conf:default_cluster_id", "conf:vendor", "graph:unknown", "input-file:unreadable",
          "memory:none", "node:master", "node:masters", "node:role", "node:slave", "node:slaves",
          "os-elevation:unknown", "pitr-stop-time:malformed", "preferences:malformed",
          "preferences:none", "public-key-file:readable", "script:unreadable", "servers:many",
          "stack:digits", "stdin:json", "target:path", "vendor:enterprisedb",
          "vendor:perconapro", "version:6"}

ASSUME CommandLineAssumption ==
    /\ Statuses \subseteq Refusals \cup {"ok"}
    /\ Lines \subseteq [mode : STRING, words : SUBSET STRING, facts : SUBSET Facts,
                        nodes : Seq(STRING), extra : Nat, type : STRING]

VARIABLES
    line,           \* the arguments of the program, and its configuration
    pc,             \* where the run is
    authenticated,  \* S9sRpcClientPrivate::m_authenticated
    mainOption,     \* the main option whose branch was taken
    kind,           \* what becomes of the outcome of the branch
    todo,           \* the requests of the branch that are still to be sent
    sent,           \* those that were sent, each with the status of its reply
    reply,          \* the status of the client's reply
    success,        \* the local variable of execute()
    job,            \* what became of the job that was waited for
    exit            \* S9sOptions::m_exitStatus

branchVars == <<mainOption, kind, todo, sent, success>>
vars == <<line, pc, authenticated, branchVars, reply, job, exit>>

ExitCodes == {"Ok", "JobFailed", "Failed", "AccessDenied", "NotFound", "ConnectionError",
              "BadOptions"}
Replies   == Statuses \cup {"ok", "none", "connectError"}

o == [mode |-> line.mode, given |-> GivenBy(line), nodes |-> line.nodes,
      extra |-> line.extra, type |-> line.type]

Init ==
    /\ line \in Lines
    /\ pc = "read"
    /\ authenticated = FALSE
    /\ mainOption = "none" /\ kind = "none" /\ todo = << >> /\ sent = << >> /\ success = FALSE
    /\ reply = "none"
    /\ job = "none"
    /\ exit = "Ok"

-----------------------------------------------------------------------------
(* main() *)

\* readOptions() fails: the exit status is the one the check left behind.
ReadBad ==
    /\ pc = "read" /\ readOptions(line) # "go"
    /\ pc' = "done"
    /\ exit' = readOptions(line)
    /\ UNCHANGED <<line, authenticated, branchVars, reply, job>>
Read ==
    /\ pc = "read" /\ readOptions(line) = "go"
    /\ pc' = "info"
    /\ UNCHANGED <<line, authenticated, branchVars, reply, job, exit>>

\* executeInfoRequest().
InfoRequest == GivenAny(o, {"version", "help"})
Info ==
    /\ pc = "info" /\ InfoRequest
    /\ pc' = "done"
    /\ UNCHANGED <<line, authenticated, branchVars, reply, job, exit>>
NoInfo ==
    /\ pc = "info" /\ ~InfoRequest
    /\ pc' = "login"
    /\ UNCHANGED <<line, authenticated, branchVars, reply, job, exit>>

-----------------------------------------------------------------------------
(* Logging in: execute() decides whether to, maybeAuthenticate() does it. *)

LoginNotWanted ==
    \/ o.mode = "event" /\ Given(o, "input-file")
    \/ o.mode = "controller" /\ Given(o, "ping")
    \/ Given(o, "password-reset")
needToAuthenticate == ~(o.mode = "user" /\ Given(o, "create"))
isWatchRequested   == Given(o, "watch")

LoginSkipped ==
    /\ pc = "login" /\ LoginNotWanted
    /\ pc' = "execute"
    /\ UNCHANGED <<line, authenticated, branchVars, reply, job, exit>>

\* No user name, or neither a password nor a key.
CanNotLogin ==
    /\ pc = "login" /\ ~LoginNotWanted
    /\ pc' = IF ~needToAuthenticate \/ isWatchRequested THEN "execute" ELSE "done"
    /\ exit' = IF needToAuthenticate THEN "BadOptions" ELSE exit
    /\ UNCHANGED <<line, authenticated, branchVars, reply, job>>

\* The private key can not be read, the controller refuses, or it is not
\* reached: watching goes on without a login.
LoginFails ==
    /\ pc = "login" /\ ~LoginNotWanted
    /\ \E failure \in {[reply |-> reply, exit |-> "BadOptions"],
                       [reply |-> "connectError", exit |-> "ConnectionError"]}
                \cup [reply : Statuses \ {"ok"}, exit : {"AccessDenied"}] :
          reply' = failure.reply /\ exit' = failure.exit
    /\ pc' = IF isWatchRequested THEN "execute" ELSE "done"
    /\ UNCHANGED <<line, authenticated, branchVars, job>>

LoggedIn ==
    /\ pc = "login" /\ ~LoginNotWanted
    /\ authenticated' = TRUE
    /\ reply' = "ok"
    /\ pc' = "execute"
    /\ UNCHANGED <<line, branchVars, job, exit>>

-----------------------------------------------------------------------------
(* execute(): the branch, and its requests *)

Unattended == {"screen", "waited", "unknown"}
\* Where a branch goes on: to a screen, to a job it waits for, to its requests or
\* to its printout.
After(b) == CASE b.kind = "unknown" -> "done"
              [] b.kind = "screen" -> "screen"
              [] b.kind = "waited" -> "job"
              [] b.kind \notin Unattended -> IF b.sent = << >> THEN "report" ELSE "request"
\* Mistake: the requests are sent without asking whether there is one.
ExecuteBlindly ==
    /\ pc = "execute"
    /\ LET b == BranchOf(o, MainOption(o))
       IN  /\ mainOption' = MainOption(o)
           /\ kind' = b.kind
           /\ todo' = b.sent
           /\ exit' = IF b.status = "Ok" THEN exit ELSE b.status
           /\ pc' = IF b.kind \in Unattended THEN "done" ELSE "request"
    /\ UNCHANGED <<line, authenticated, sent, success, reply, job>>
Execute ==
    /\ pc = "execute"
    /\ LET b == BranchOf(o, MainOption(o))
       IN  /\ mainOption' = MainOption(o)
           /\ kind' = b.kind
           /\ todo' = b.sent
           /\ exit' = IF b.status = "Ok" THEN exit ELSE b.status
           /\ pc' = After(b)
    /\ UNCHANGED <<line, authenticated, sent, success, reply, job>>

\* The request went out, and this is what came back.
Ask(status, done) ==
    /\ pc = "request"
    /\ sent' = Append(sent, [request |-> Head(todo), reply |-> status])
    /\ todo' = Tail(todo)
    /\ reply' = status
    /\ success' = done
    /\ pc' = IF Len(todo) = 1 THEN "report" ELSE "request"
    /\ UNCHANGED <<line, authenticated, mainOption, kind, job>>
Answered ==
    /\ \E status \in Statuses : Ask(status, TRUE)
    /\ UNCHANGED exit
Lost ==
    /\ Ask("connectError", FALSE)
    /\ exit' = "ConnectionError"

-----------------------------------------------------------------------------
(* The outcome *)

\* Mistake: a status that is not known is no error.
requestStatusOrOk(status) == IF status \in {"none", "objectNotFound"} THEN "ok" ELSE status
\* requestStatus() does not know the status of an object that is not there.
requestStatus(status) == CASE status = "none" -> "ok"
                           [] status = "objectNotFound" -> "unknownError"
                           [] OTHER -> status
\* Mistake: a good reply makes the exit status good.
setExitStatusAnew(status, before) ==
    CASE requestStatus(status) = "ok" -> "Ok"
      [] requestStatus(status) = "clusterNotFound" -> "NotFound"
      [] requestStatus(status) = "accessDenied" -> "AccessDenied"
      [] OTHER -> "Failed"
setExitStatus(status, before) ==
    CASE requestStatus(status) = "ok" -> before
      [] requestStatus(status) = "clusterNotFound" -> "NotFound"
      [] requestStatus(status) = "accessDenied" -> "AccessDenied"
      [] OTHER -> "Failed"
forgetsLogin(status) == status \in {"authRequired", "connectError"}

Report ==
    /\ pc = "report" /\ kind = "reported"
    /\ exit' = setExitStatus(reply, exit)
    /\ authenticated' = (authenticated /\ ~forgetsLogin(reply))
    /\ pc' = "done"
    /\ UNCHANGED <<line, branchVars, reply, job>>
ReportSilently ==
    /\ pc = "report" /\ kind = "silent"
    /\ pc' = "done"
    /\ UNCHANGED <<line, authenticated, branchVars, reply, job, exit>>
\* The reply of the client is what counts: it is still that of the login when
\* the request was refused before it was sent.
ReportOwn ==
    /\ pc = "report" /\ kind = "own"
    /\ exit' = IF reply = "ok" THEN exit ELSE "Failed"
    /\ pc' = "done"
    /\ UNCHANGED <<line, authenticated, branchVars, reply, job>>

\* maybeJobRegistered(), jobRegistered().
waitRequested == GivenAny(o, {"wait", "log"})
ReportJob ==
    /\ pc = "report" /\ kind = "job"
    /\ exit' = setExitStatus(reply, exit)
    /\ authenticated' = (authenticated /\ ~forgetsLogin(reply))
    /\ pc' = IF success /\ reply = "ok" /\ waitRequested THEN "job" ELSE "done"
    /\ UNCHANGED <<line, branchVars, reply, job>>
WaitForJob ==
    /\ pc = "job"
    /\ \E end \in {"finished", "failed", "lost"} :
          /\ job' = end
          /\ exit' = CASE end = "finished" -> exit
                       [] end = "failed" -> "JobFailed"
                       [] end = "lost" -> "ConnectionError"
    /\ pc' = "done"
    /\ UNCHANGED <<line, authenticated, branchVars, reply>>

\* The exit status of the last ping, which is followed by another one.
ReportPing ==
    /\ pc = "report" /\ kind = "again"
    /\ exit' = IF success THEN setExitStatus(reply, "Ok") ELSE "Failed"
    /\ authenticated' = (authenticated /\ ~forgetsLogin(reply))
    /\ IF Given(o, "wait")
       THEN pc' = "request" /\ todo' = <<sent[1].request>> /\ sent' = << >>
       ELSE pc' = "done" /\ UNCHANGED <<todo, sent>>
    /\ UNCHANGED <<line, mainOption, kind, success, reply, job>>

\* The user leaves the program on the screen.
Quit ==
    /\ pc = "screen"
    /\ pc' = "done"
    /\ UNCHANGED <<line, authenticated, branchVars, reply, job, exit>>

-----------------------------------------------------------------------------
Login   == LoginSkipped \/ CanNotLogin \/ LoginFails \/ LoggedIn
Sending == Answered \/ Lost
Outcome == Report \/ ReportSilently \/ ReportOwn \/ ReportJob \/ WaitForJob \/ ReportPing
\* Nothing follows the end of the run.
Ended   == pc = "done" /\ UNCHANGED vars
Next == ReadBad \/ Read \/ Info \/ NoInfo \/ Login \/ Execute \/ Sending \/ Outcome \/ Quit \/ Ended

Spec == Init /\ [][Next]_vars

-----------------------------------------------------------------------------
(* Properties *)

TypeOK ==
    /\ line.extra \in Nat
    /\ pc \in {"read", "info", "login", "execute", "request", "report", "job", "screen", "done"}
    /\ authenticated \in BOOLEAN
    /\ kind \in {"none", "reported", "silent", "own", "job", "again", "screen", "waited", "unknown"}
    /\ \A i \in DOMAIN todo : IsRequest(todo[i])
    /\ \A i \in DOMAIN sent : IsRequest(sent[i].request) /\ sent[i].reply \in Replies
    /\ pc = "request" <=> todo # << >>
    /\ success \in BOOLEAN
    /\ reply \in Replies
    /\ job \in {"none", "finished", "failed", "lost"}
    /\ exit \in ExitCodes

\* Main options the check of a mode does not count: they come with others.
NotCounted(mode) ==
    CASE mode = "sheet"   -> {"list", "stat", "create", "edit"}
      [] mode = "cluster" -> {"revoke"}
      [] mode = "job"     -> {"success", "clone", "log", "wait", "follow"}
      [] mode = "user"    -> {"preferences-to-set", "preferences-to-delete"}
      [] OTHER -> {}

\* The checks of the options and the chain of execute() are far apart and list
\* the main options each on its own: a line that passes the check never has a
\* main option that execute() drops in favour of another one.
OneOperation ==
    kind # "none" =>
        \A i \in DOMAIN Order(o.mode) :
           LET option == Order(o.mode)[i]
           IN  Given(o, option) =>
                   option = mainOption \/ {option, mainOption} \cap NotCounted(o.mode) # {}

\* Operations that are about no cluster, and those that create one.
OfNoCluster ==
    {"inspect_host", "sync_clusters", "remove_cluster", "create_cluster", "add_cluster",
     "addController", "removeController", "updateCmonVersion"}
OpsOfNoCluster ==
    {"deleteJobInstance", "updateJobInstance", "killJobInstance", "getJobInstance", "getJobLog",
     "deleteBackupRecord", "deleteBackupList", "removeMaintenance", "getMaintenance", "setHost",
     "listControllers", "setPoolMode", "startController", "stopController",
     "setmaxclusterscapacity"}
\* Those that know a cluster by its identifier alone.
IdentifierOnly ==
    {"error_report", "deploy_agents", "deploy_cmonagents", "uninstall_cmonagents",
     "setup_audit_logging", "setup_logrotate"}
OpsIdentifierOnly ==
    {"getBackups", "getBinlogBackups", "getBackupSchedules", "getSnapshotRepositories",
     "getAllSnapshotRepositories", "getConfig"}

\* Every function composes its request its own way.  Unless it is of no cluster
\* (or runs a script of the controller), a request is about the cluster of
\* --cluster-id, and --cluster-name reaches it when there is no other choice.
IsAboutItsCluster(c, r) ==
    r.job \notin OfNoCluster /\ r.op \notin OpsOfNoCluster /\ c.mode # "script" =>
        /\ Given(c, "cluster-id") => r.id = "own"
        /\ Given(c, "cluster-name") /\ ~Given(c, "cluster-id") =>
              r.name \/ r.job \in IdentifierOnly \/ r.op \in OpsIdentifierOnly
AboutItsCluster == \A i \in DOMAIN sent : IsAboutItsCluster(o, sent[i].request)

\* A job of a line with --schedule does not run at once, and one of a line with
\* --dry does not change anything: no composer of jobs forgets either.
IsAsAsked(c, r) ==
    r.op = "createJobInstance" /\ r.job # "none" =>
        /\ Given(c, "schedule") => r.scheduled
        /\ Given(c, "dry") => r.dry
JobAsAsked == \A i \in DOMAIN sent : IsAsAsked(o, sent[i].request)

\* The branches that print what came back and leave the exit status alone.
Unheard ==
    {"deleteJobInstance", "addCredentials", "removeCredentials", "listCredentials", "checkHosts",
     "addMaintenance", "createWatchlist", "updateWatchlist", "deleteWatchlist", "listWatchlists",
     "executeExternalScript", "dirTree", "getAllClusterInfo", "getClusterInfo", "getdbgrowth",
     "getClusterTypes", "getDbVersions", "getVendors", "getGroups", "getJobInstance",
     "getJobInstances", "getJobLog", "getCurrentMaintenance", "getNextMaintenance",
     "getMaintenance", "getMetaTypes", "getMetaTypeInfo", "getSupportedClusterTypes", "getConfig",
     "assignedController", "listControllers", "getRunningProcesses", "getSpreadsheet",
     "getSpreadsheetNames", "getTree", "getUsers", "getKeys", "whoAmI"}

\* A run that ends with exit status 0 asked for nothing that was refused or
\* lost, waited for no job that failed, and when it was told to wait, with
\* --wait or --log, the job it registered is over: reply, success and the exit
\* status are set in three places.
SuccessIsTrue ==
    pc = "done" /\ exit = "Ok" =>
        /\ \A i \in DOMAIN sent : sent[i].reply = "ok" \/ sent[i].request.op \in Unheard
        /\ job \in {"none", "finished"}
        /\ waitRequested =>
              \A i \in DOMAIN sent : sent[i].request.op = "createJobInstance" => job = "finished"

\* The exit status has six writers: once it is bad, none of them makes it good
\* again (a ping starts over).
StaysBad == [][exit # "Ok" => exit' # "Ok" \/ kind = "again"]_vars
=============================================================================
