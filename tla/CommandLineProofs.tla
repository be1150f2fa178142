--------------------------- MODULE CommandLineProofs ---------------------------
(***************************************************************************)
(* Proofs about the command line, for every one that passes the checks of  *)
(* the options and every status the controller may answer with.  First the *)
(* requests: one is about the cluster that was asked for, a job is         *)
(* scheduled and dry as asked, and the branch that sends a request asks    *)
(* for the outcome of those that matter.  Then the run of the program, and *)
(* what becomes of the exit status.                                        *)
(***************************************************************************)
EXTENDS CommandLine, SequenceTheorems, WellFoundedInduction, TLAPS

Known(c) == Given(c, "cluster-id") \/ Given(c, "cluster-name")

\* What reading a command line leaves of it, as far as it decides about the
\* requests: not every mode takes the options that name a cluster.
Lawful(c) ==
    /\ c.mode \in {"cloud-credentials", "container", "controller", "dbversions", "group", "metatype",
                   "server", "tree", "user", "watchlists", "none"} => ~Known(c)
    /\ c.mode \in {"pool-controllers", "dbschema", "maintenance", "process", "script", "sheet"} =>
          ~Given(c, "cluster-name")
    /\ c.mode # "backup" => ~Given(c, "dry")

\* The map of a request is about the cluster; or is, if an identifier is enough.
ById(c, map) ==
    /\ IsRequest(map) /\ map.job = "none"
    /\ Given(c, "cluster-id") => map.id = "own"
About(c, map) ==
    /\ ById(c, map)
    /\ Given(c, "cluster-name") /\ ~Given(c, "cluster-id") => map.name

\* A request is what the command line asks for.
Fits(c, r) == IsRequest(r) /\ IsAboutItsCluster(c, r) /\ IsAsAsked(c, r)

\* The operation is one whose outcome may be left alone, one that registers no
\* job that may be waited for, or any.
OfClass(op, class) ==
    /\ class \in {"unheard", "call"} => op # "createJobInstance"
    /\ class = "unheard" => op \in Unheard
\* A function sends no request, or one that fits, of the class.
Good(c, result, class) ==
    /\ result.status \in {"Ok", "BadOptions"}
    /\ result.sent = << >> \/ \E r : Fits(c, r) /\ OfClass(r.op, class) /\ result.sent = <<r>>

\* A branch sends requests that fit; the outcome is asked for by those that set
\* the exit status, and the registration of a job by those that wait for it.
BranchGood(c, b) ==
    /\ b.kind \in {"reported", "silent", "own", "job", "again", "screen", "waited", "unknown"}
    /\ b.status \in {"Ok", "BadOptions"}
    /\ \E S : b.sent \in Seq(S)
    /\ \A i \in DOMAIN b.sent : Fits(c, b.sent[i])
    /\ \A i \in DOMAIN b.sent : i < Len(b.sent) \/ b.kind = "silent" => b.sent[i].op \in Unheard
    /\ \A i \in DOMAIN b.sent : b.kind # "job" => b.sent[i].op # "createJobInstance"
    /\ b.kind \in Unattended => b.sent = << >>
    /\ b.kind = "again" => b.sent # << >>

-----------------------------------------------------------------------------
(* The maps the requests start from *)

LEMMA Maps ==
    ASSUME NEW c
    PROVE  /\ About(c, composeRequest(c)) /\ About(c, ForValidOrName(c)) /\ About(c, ForIdOrName(c))
           /\ ById(c, ForCluster(c)) /\ ById(c, ForValid(c)) /\ ById(c, ForOption(c))
           /\ IsRequest(EmptyMap) /\ EmptyMap.job = "none"
           /\ IsRequest(ForZero) /\ ForZero.job = "none"
<1>1. clusterId(c) \in {"own", "default", "invalid"}
  BY DEF clusterId
<1>2. Given(c, "cluster-id") => clusterId(c) = "own"
  BY DEF clusterId, Given
<1>3. IsRequest(EmptyMap) /\ EmptyMap.job = "none"
  BY DEF EmptyMap, IsRequest
<1>4. GivenAny(c, {"with-tags", "without-tags"}) \in BOOLEAN
  BY DEF GivenAny
<1> DEFINE tags == GivenAny(c, {"with-tags", "without-tags"})
           id   == IF clusterId(c) = "invalid" THEN "none" ELSE clusterId(c)
           name == Given(c, "cluster-name")
<1>a. /\ id \in {"none", "own", "default"} /\ tags \in BOOLEAN /\ name \in BOOLEAN
      /\ Given(c, "cluster-id") => id = "own"
  BY <1>1, <1>2, <1>4 DEF Given
<1>b. composeRequest(c) = [EmptyMap EXCEPT !.id = id, !.name = name, !.tags = tags]
  BY DEF composeRequest
<1> HIDE DEF id, tags
<1>c. /\ composeRequest(c).id = id /\ composeRequest(c).name = name
      /\ IsRequest(composeRequest(c)) /\ composeRequest(c).job = "none"
  BY <1>a, <1>b DEF EmptyMap, IsRequest
<1>5. About(c, composeRequest(c))
  BY <1>a, <1>c DEF About, ById
<1>6. ById(c, ForCluster(c))
  BY <1>1, <1>2, <1>4 DEF About, ById, Given, ForCluster, EmptyMap, IsRequest
<1>7. ById(c, ForValid(c)) /\ About(c, ForValidOrName(c))
  BY <1>a, <1>c DEF About, ById, ForValid, ForValidOrName, EmptyMap, IsRequest
<1>8. ById(c, ForOption(c)) /\ About(c, ForIdOrName(c))
  BY <1>1, <1>2, <1>4 DEF About, ById, Given, ForOption, ForIdOrName, EmptyMap, IsRequest
<1>9. IsRequest(ForZero) /\ ForZero.job = "none"
  BY DEF ForZero, EmptyMap, IsRequest
<1> QED
  BY <1>3, <1>5, <1>6, <1>7, <1>8, <1>9

\* Which maps do for a call, and for a job.
Serves(c, map, exempt, identifier) ==
    /\ IsRequest(map) /\ map.job = "none"
    /\ \/ About(c, map)
       \/ ById(c, map) /\ (identifier \/ ~Given(c, "cluster-name"))
       \/ exempt \/ ~Known(c) \/ c.mode = "script"

LEMMA CallGood ==
    ASSUME NEW c, NEW map, NEW class, NEW op, OfClass(op, class), op # "createJobInstance",
           Serves(c, map, op \in OpsOfNoCluster, op \in OpsIdentifierOnly)
    PROVE  Good(c, Call(map, op), class)
<1> DEFINE r == Op(map, op)
<1>1. /\ IsRequest(r) /\ r.op = op /\ r.job = "none" /\ r.id = map.id /\ r.name = map.name
  BY DEF Op, Serves, IsRequest
<1> HIDE DEF r
<1>2. IsAboutItsCluster(c, r)
  BY <1>1 DEF Serves, About, ById, Known, IsAboutItsCluster
<1>3. IsAsAsked(c, r)
  BY <1>1 DEF IsAsAsked
<1>4. Fits(c, r)
  BY <1>1, <1>2, <1>3 DEF Fits
<1>5. Call(map, op) = [sent |-> <<r>>, status |-> "Ok"]
  BY DEF Call, Send, Result, r
<1> QED
  BY <1>1, <1>4, <1>5 DEF Good

LEMMA JobGood ==
    ASSUME NEW c, NEW map, NEW command,
           Serves(c, map, command \in OfNoCluster, command \in IdentifierOnly)
    PROVE  /\ Good(c, Job(c, map, command), "any")
           /\ ~Given(c, "dry") => Good(c, BareJob(c, map, command), "any")
<1> DEFINE bare == [composeJob(c, map) EXCEPT !.op = "createJobInstance", !.job = command,
                                              !.title = "own"]
           r == [composeJob(c, composeJobData(c, map)) EXCEPT
                    !.op = "createJobInstance", !.job = command, !.title = "own"]
<1>0. IsRequest(map) /\ Given(c, "dry") \in BOOLEAN /\ Given(c, "job-title") \in BOOLEAN
      /\ GivenAny(c, {"schedule", "recurrence"}) \in BOOLEAN
      /\ (Given(c, "schedule") => GivenAny(c, {"schedule", "recurrence"}))
  BY DEF Serves, Given, GivenAny
<1>1. /\ IsRequest(bare) /\ bare.op = "createJobInstance" /\ bare.job = command
      /\ bare.id = map.id /\ bare.name = map.name
      /\ bare.scheduled = GivenAny(c, {"schedule", "recurrence"})
  BY <1>0 DEF composeJob, IsRequest, Given
<1>2. /\ IsRequest(r) /\ r.op = "createJobInstance" /\ r.job = command
      /\ r.id = map.id /\ r.name = map.name
      /\ r.scheduled = GivenAny(c, {"schedule", "recurrence"}) /\ r.dry = Given(c, "dry")
  BY <1>0 DEF composeJob, composeJobData, IsRequest, Given
<1>3. Job(c, map, command) = [sent |-> <<r>>, status |-> "Ok"]
  BY DEF Job, BareJob, Send, Result, r
<1>4. BareJob(c, map, command) = [sent |-> <<bare>>, status |-> "Ok"]
  BY DEF BareJob, Send, Result, bare
<1> HIDE DEF bare, r
<1>5. IsAboutItsCluster(c, r) /\ IsAboutItsCluster(c, bare)
  BY <1>1, <1>2 DEF Serves, About, ById, Known, IsAboutItsCluster
<1>6. IsAsAsked(c, r) /\ (~Given(c, "dry") => IsAsAsked(c, bare))
  BY <1>0, <1>1, <1>2 DEF IsAsAsked
<1>7. Fits(c, r)
  BY <1>2, <1>5, <1>6 DEF Fits
<1>8. ASSUME ~Given(c, "dry") PROVE Fits(c, bare)
  BY <1>1, <1>5, <1>6, <1>8 DEF Fits
<1>9. Good(c, Job(c, map, command), "any")
  BY <1>2, <1>3, <1>7 DEF Good, OfClass
<1>10. ASSUME ~Given(c, "dry") PROVE Good(c, BareJob(c, map, command), "any")
  BY <1>1, <1>4, <1>8, <1>10 DEF Good, OfClass
<1> QED
  BY <1>9, <1>10

\* A function that refuses sends nothing.
LEMMA RefuseGood ==
    ASSUME NEW c, NEW class PROVE Good(c, RefuseQuietly, class) /\ Good(c, RefuseBadOptions, class)
  BY DEF Good, RefuseQuietly, RefuseBadOptions, Result

LEMMA BranchesGood ==
    ASSUME NEW c, NEW result
    PROVE  /\ Good(c, result, "call") =>
                 /\ BranchGood(c, Reported(result)) /\ BranchGood(c, Own(result))
                 /\ result.sent # << >> => BranchGood(c, Again(result))
           /\ Good(c, result, "unheard") => BranchGood(c, Silent(result))
           /\ Good(c, result, "any") => BranchGood(c, Registered(result))
           /\ BranchGood(c, Screen(RefuseQuietly)) /\ BranchGood(c, Waited)
           /\ BranchGood(c, Unknown) /\ BranchGood(c, UnknownBad) /\ BranchGood(c, Nothing)
<1>1. ASSUME NEW class, NEW how \in {"reported", "own", "again", "silent", "job"},
             Good(c, result, class), class = "unheard" \/ how # "silent",
             class \in {"unheard", "call"} \/ how = "job", how = "again" => result.sent # << >>
      PROVE  BranchGood(c, Branch(how, result))
  <2>1. CASE result.sent = << >>
    <3> DEFINE b == Branch(how, result)
    <3>1. b.kind = how /\ b.status \in {"Ok", "BadOptions"} /\ b.sent = << >>
      BY <1>1, <2>1 DEF Branch, Good
    <3> HIDE DEF b
    <3>2. << >> \in Seq({}) /\ DOMAIN << >> = {}
      OBVIOUS
    <3> QED
      BY <1>1, <2>1, <3>1, <3>2 DEF BranchGood, b
  <2>2. ASSUME NEW r, Fits(c, r), OfClass(r.op, class), result.sent = <<r>>
        PROVE  BranchGood(c, Branch(how, result))
    <3> DEFINE b == Branch(how, result)
    <3>1. b.kind = how /\ b.status \in {"Ok", "BadOptions"} /\ b.sent = <<r>>
      BY <1>1, <2>2 DEF Branch, Good
    <3>2. <<r>> \in Seq({r}) /\ DOMAIN <<r>> = {1} /\ Len(<<r>>) = 1 /\ <<r>>[1] = r
      OBVIOUS
    <3> HIDE DEF b
    <3>3. how \notin Unattended
      BY <1>1 DEF Unattended
    <3>4. (how = "silent" => r.op \in Unheard) /\ (how # "job" => r.op # "createJobInstance")
      BY <1>1, <2>2 DEF OfClass
    <3>5. /\ \E S : b.sent \in Seq(S)
          /\ DOMAIN b.sent = {1} /\ Len(b.sent) = 1 /\ b.sent[1] = r
      BY <3>1, <3>2
    <3> QED
      BY <1>1, <2>2, <3>1, <3>3, <3>4, <3>5 DEF BranchGood, b
  <2> QED
    BY <1>1, <2>1, <2>2 DEF Good
<1>3. /\ BranchGood(c, Screen(RefuseQuietly)) /\ BranchGood(c, Waited)
      /\ BranchGood(c, Unknown) /\ BranchGood(c, UnknownBad) /\ BranchGood(c, Nothing)
  BY DEF BranchGood, Screen, Waited, Unknown, UnknownBad, Nothing, Silent, Branch, RefuseQuietly,
         RefuseBadOptions, Result
<1>4. Good(c, result, "call") =>
         /\ BranchGood(c, Reported(result)) /\ BranchGood(c, Own(result))
         /\ result.sent # << >> => BranchGood(c, Again(result))
  BY <1>1 DEF Reported, Own, Again
<1>5. Good(c, result, "unheard") => BranchGood(c, Silent(result))
  BY <1>1 DEF Silent
<1>6. Good(c, result, "any") => BranchGood(c, Registered(result))
  BY <1>1 DEF Registered
<1> QED
  BY <1>3, <1>4, <1>5, <1>6

\* The calls and the jobs that start from a map that is about the cluster.
LEMMA AboutGood ==
    ASSUME NEW c, NEW map \in {composeRequest(c), ForValidOrName(c), ForIdOrName(c)}
    PROVE  /\ \A op, class : OfClass(op, class) /\ op # "createJobInstance" =>
                 Good(c, Call(map, op), class)
           /\ \A command : Good(c, Job(c, map, command), "any")
           /\ \A command : ~Given(c, "dry") => Good(c, BareJob(c, map, command), "any")
           /\ \A command : Good(c, JobOf(c, command), "any")
<1>1. About(c, map) /\ About(c, composeRequest(c))
  BY Maps
<1>2. \A x, y : Serves(c, map, x, y) /\ Serves(c, composeRequest(c), x, y)
  BY <1>1 DEF Serves, About, ById
<1>3. \A op, class : OfClass(op, class) /\ op # "createJobInstance" => Good(c, Call(map, op), class)
  BY <1>2, CallGood
<1>4. \A command : Good(c, Job(c, map, command), "any")
  BY <1>2, JobGood
<1>5. \A command : ~Given(c, "dry") => Good(c, BareJob(c, map, command), "any")
  BY <1>2, JobGood
<1>6. \A command : Good(c, JobOf(c, command), "any")
  BY <1>2, JobGood DEF JobOf
<1> QED
  BY <1>3, <1>4, <1>5, <1>6

\* Those that start from no map, or from one with the identifier alone.
LEMMA ExemptGood ==
    ASSUME NEW c, NEW map, IsRequest(map), map.job = "none"
    PROVE  /\ \A op, class : op \in OpsOfNoCluster /\ OfClass(op, class) => Good(c, Call(map, op), class)
           /\ \A command \in OfNoCluster : Good(c, Job(c, map, command), "any")
           /\ \A command \in OfNoCluster : ~Given(c, "dry") => Good(c, BareJob(c, map, command), "any")
           /\ ~Known(c) \/ c.mode = "script" =>
                 /\ \A op, class : OfClass(op, class) /\ op # "createJobInstance" =>
                       Good(c, Call(map, op), class)
                 /\ \A command : Good(c, Job(c, map, command), "any")
                 /\ \A command : ~Given(c, "dry") => Good(c, BareJob(c, map, command), "any")
<1>1. \A y : Serves(c, map, TRUE, y) /\ (~Known(c) \/ c.mode = "script" => \A x : Serves(c, map, x, y))
  BY DEF Serves
<1>2. ASSUME NEW op \in OpsOfNoCluster, NEW class, OfClass(op, class)
      PROVE  Good(c, Call(map, op), class)
  <2>1. op # "createJobInstance"
    BY DEF OpsOfNoCluster
  <2> QED
    BY <1>1, <1>2, <2>1, CallGood DEF Serves
<1>3. ASSUME NEW command \in OfNoCluster
      PROVE  /\ Good(c, Job(c, map, command), "any")
             /\ ~Given(c, "dry") => Good(c, BareJob(c, map, command), "any")
  <2>1. Serves(c, map, command \in OfNoCluster, command \in IdentifierOnly)
    BY <1>3 DEF Serves
  <2> QED
    BY <2>1, JobGood
<1>4. ASSUME ~Known(c) \/ c.mode = "script" 
      PROVE  /\ \A op, class : OfClass(op, class) /\ op # "createJobInstance" =>
                   Good(c, Call(map, op), class)
             /\ \A command : Good(c, Job(c, map, command), "any")
             /\ \A command : ~Given(c, "dry") => Good(c, BareJob(c, map, command), "any")
  <2>1. \A x, y : Serves(c, map, x, y)
    BY <1>4 DEF Serves
  <2> QED
    BY <2>1, CallGood, JobGood
<1> QED
  BY <1>2, <1>3, <1>4

LEMMA IdentifierGood ==
    ASSUME NEW c, NEW map \in {ForCluster(c), ForValid(c), ForOption(c)}
    PROVE  /\ \A op, class : op \in OpsIdentifierOnly /\ OfClass(op, class) => Good(c, Call(map, op), class)
           /\ \A command \in IdentifierOnly : Good(c, Job(c, map, command), "any")
           /\ ~Given(c, "cluster-name") =>
                 \A op, class : OfClass(op, class) /\ op # "createJobInstance" =>
                    Good(c, Call(map, op), class)
           /\ ~Given(c, "cluster-name") /\ ~Given(c, "dry") =>
                 \A command : Good(c, BareJob(c, map, command), "any")
<1>1. ById(c, map) /\ IsRequest(map) /\ map.job = "none"
  BY Maps DEF ById
<1>2. ASSUME NEW op \in OpsIdentifierOnly, NEW class, OfClass(op, class)
      PROVE  Good(c, Call(map, op), class)
  <2>1. op # "createJobInstance"
    BY DEF OpsIdentifierOnly
  <2>2. Serves(c, map, op \in OpsOfNoCluster, op \in OpsIdentifierOnly)
    BY <1>1, <1>2 DEF Serves
  <2> QED
    BY <1>2, <2>1, <2>2, CallGood
<1>3. ASSUME NEW command \in IdentifierOnly PROVE Good(c, Job(c, map, command), "any")
  <2>1. Serves(c, map, command \in OfNoCluster, command \in IdentifierOnly)
    BY <1>1, <1>3 DEF Serves
  <2> QED
    BY <2>1, JobGood
<1>4. ASSUME ~Given(c, "cluster-name") PROVE \A x, y : Serves(c, map, x, y)
  BY <1>1, <1>4 DEF Serves
<1> QED
  BY <1>2, <1>3, <1>4, CallGood, JobGood

\* The two requests of one branch, the outcome of the first of which is not
\* looked at.
LEMMA ThenGood ==
    ASSUME NEW c, NEW first, NEW second, Good(c, first, "unheard"), Good(c, second, "call")
    PROVE  BranchGood(c, Reported(Then(first, second)))
<1> DEFINE b == Reported(Then(first, second))
<1>1. b.kind = "reported" /\ b.status \in {"Ok", "BadOptions"} /\ b.sent = first.sent \o second.sent
  BY DEF Reported, Branch, Then, Result, Good
<1> HIDE DEF b
<1>2. "reported" \notin Unattended
  BY DEF Unattended
<1>3. \A r : <<r>> \in Seq({r}) /\ Len(<<r>>) = 1 /\ DOMAIN <<r>> = {1} /\ <<r>>[1] = r
  OBVIOUS
<1>4. CASE first.sent = << >>
  <2>1. second.sent = << >> => b.sent = << >>
    BY <1>1, <1>4
  <2>2. \A r : second.sent = <<r>> => b.sent = <<r>>
    BY <1>1, <1>3, <1>4, ConcatEmptySeq
  <2>3. << >> \in Seq({}) /\ DOMAIN << >> = {}
    OBVIOUS
  <2>4. ASSUME second.sent = << >> PROVE BranchGood(c, b)
    <3>1. (\E S : b.sent \in Seq(S)) /\ DOMAIN b.sent = {}
      BY <2>1, <2>3, <2>4
    <3> QED
      BY <1>1, <1>2, <3>1 DEF BranchGood
  <2>5. ASSUME NEW r, Fits(c, r), OfClass(r.op, "call"), second.sent = <<r>> PROVE BranchGood(c, b)
    <3>1. b.sent = <<r>>
      BY <2>2, <2>5
    <3>2. /\ \E S : b.sent \in Seq(S)
          /\ DOMAIN b.sent = {1} /\ Len(b.sent) = 1 /\ b.sent[1] = r
      BY <1>3, <3>1
    <3> QED
      BY <1>1, <1>2, <2>5, <3>2 DEF BranchGood, OfClass
  <2> QED
    BY <2>4, <2>5 DEF Good, b
<1>5. ASSUME NEW r, Fits(c, r), OfClass(r.op, "unheard"), first.sent = <<r>> PROVE BranchGood(c, b)
  <2>1. CASE second.sent = << >>
    <3>1. b.sent = <<r>>
      BY <1>1, <1>3, <1>5, <2>1, ConcatEmptySeq
    <3>2. /\ \E S : b.sent \in Seq(S)
          /\ DOMAIN b.sent = {1} /\ Len(b.sent) = 1 /\ b.sent[1] = r
      BY <1>3, <3>1
    <3> QED
      BY <1>1, <1>2, <1>5, <3>2 DEF BranchGood, OfClass
  <2>2. ASSUME NEW q, Fits(c, q), OfClass(q.op, "call"), second.sent = <<q>> PROVE BranchGood(c, b)
    <3>1. <<q>> \in Seq({q, r}) /\ <<r>> \in Seq({q, r}) /\ Len(<<q>>) = 1 /\ Len(<<r>>) = 1
      OBVIOUS
    <3>2. /\ b.sent \in Seq({q, r}) /\ Len(b.sent) = 2 /\ DOMAIN b.sent = 1..2
          /\ b.sent[1] = r /\ b.sent[2] = q
      BY <1>1, <1>5, <2>2, <3>1, ConcatProperties
    <3>3. \E S : b.sent \in Seq(S)
      BY <3>2
    <3>4. \A i \in DOMAIN b.sent : 
            (b.sent[i] = r /\ i < Len(b.sent)) \/ (b.sent[i] = q /\ i = Len(b.sent))
      BY <3>2
    <3> QED
      BY <1>1, <1>2, <1>5, <2>2, <3>3, <3>4 DEF BranchGood, OfClass
  <2> QED
    BY <2>1, <2>2 DEF Good
<1> QED
  BY <1>4, <1>5 DEF Good, b

-----------------------------------------------------------------------------
(* The branches, mode by mode *)

\* A backup that is not understood is no job.
LEMMA BackupJobGood ==
    ASSUME NEW c, Lawful(c), c.mode = "backup"
    PROVE  Good(c, createBackup(c), "any") /\ Good(c, createBackupSchedule(c), "call")
<1> DEFINE map == composeRequest(c)
           request == Op(composeBackupJob(c, map), "createJobInstance")
           r == [request EXCEPT !.scheduled = request.job # "none" /\ Given(c, "schedule")]
           q == [composeBackupJob(c, map) EXCEPT
                    !.op = "scheduleBackup", !.scheduled = TRUE, !.title = "none"]
           job_ == composeBackupJob(c, map)
<1>1. About(c, map) /\ IsRequest(map) /\ map.job = "none"
  BY Maps DEF About, ById
<1> HIDE DEF map
<1>2. /\ IsRequest(job_) /\ job_.id = map.id /\ job_.name = map.name
      /\ job_ = map \/ (job_.job = "backup" /\ job_.dry = Given(c, "dry"))
  <2>1. GivenAny(c, {"schedule", "recurrence"}) \in BOOLEAN /\ Given(c, "dry") \in BOOLEAN
    BY DEF GivenAny, Given
  <2> QED
    BY <1>1, <2>1 DEF composeBackupJob, composeJob, composeJobData, IsRequest
<1> HIDE DEF job_
<1>3. /\ r = [job_ EXCEPT !.op = "createJobInstance",
                         !.scheduled = job_.job # "none" /\ Given(c, "schedule")]
      /\ q = [job_ EXCEPT !.op = "scheduleBackup", !.scheduled = TRUE, !.title = "none"]
  BY <1>2 DEF job_, Op, IsRequest
<1> HIDE DEF r, q
<1>4. /\ IsRequest(r) /\ r.op = "createJobInstance" /\ r.job = job_.job /\ r.dry = job_.dry
      /\ r.id = map.id /\ r.name = map.name /\ r.scheduled = (job_.job # "none" /\ Given(c, "schedule"))
      /\ IsRequest(q) /\ q.op = "scheduleBackup" /\ q.job = job_.job
      /\ q.id = map.id /\ q.name = map.name
  BY <1>2, <1>3 DEF IsRequest, Given
<1>5. Fits(c, r) /\ Fits(c, q)
  BY <1>1, <1>2, <1>4 DEF Fits, IsAboutItsCluster, IsAsAsked, About, ById
<1>6. createBackup(c) \in {RefuseQuietly, Result(<<r>>, "Ok")}
  BY Zenon DEF createBackup, Send, r, map
<1>7. createBackupSchedule(c) \in {RefuseQuietly, Result(<<q>>, "Ok")}
  BY Zenon DEF createBackupSchedule, Send, q, map
<1>8. Good(c, Result(<<r>>, "Ok"), "any") /\ Good(c, Result(<<q>>, "Ok"), "call")
  BY <1>4, <1>5 DEF Good, Result, OfClass
<1> QED
  BY <1>6, <1>7, <1>8, RefuseGood

LEMMA BackupGood ==
    ASSUME NEW c, Lawful(c), c.mode = "backup", NEW i \in DOMAIN BackupOrder
    PROVE  BranchGood(c, BackupBranch(c, BackupOrder[i]))
<1>1. /\ Good(c, verifyBackup(c), "any") /\ Good(c, restoreBackup(c), "any")
      /\ Good(c, deleteOldBackups(c), "any") /\ Good(c, deleteAllBackups(c), "any")
  BY AboutGood, RefuseGood DEF verifyBackup, restoreBackup, deleteOldBackups, deleteAllBackups
<1>2. /\ Good(c, saveCluster(c), "any") /\ Good(c, restoreCluster(c), "any")
      /\ Good(c, saveController(c), "any") /\ Good(c, restoreController(c), "any")
  BY AboutGood DEF saveCluster, restoreCluster, saveController, restoreController
<1>3. /\ Good(c, createSnapshotRepository(c), "call") /\ Good(c, deleteSnapshotRepository(c), "call")
  BY AboutGood, RefuseGood DEF createSnapshotRepository, deleteSnapshotRepository, OfClass
<1>4. /\ Good(c, getBackups(c), "call") /\ Good(c, getBinlogBackups(c), "call")
      /\ Good(c, getBackupSchedules(c), "call") /\ Good(c, getSnapshotRepositories(c), "call")
  BY IdentifierGood DEF getBackups, getBinlogBackups, getBackupSchedules, getSnapshotRepositories,
                        OpsIdentifierOnly, OfClass
<1>5. /\ Good(c, deleteBackupSchedule(c), "unheard") /\ Good(c, deleteBackupRecord(c), "call")
  BY Maps, ExemptGood, RefuseGood DEF deleteBackupSchedule, deleteBackupRecord, OpsOfNoCluster,
                                      OfClass, Unheard
<1> QED
  BY <1>1, <1>2, <1>3, <1>4, <1>5, BackupJobGood, BranchesGood
     DEF BackupBranch, BackupOrder, executeBackupList, executeBinlogBackupList, printBackupSchedules,
         printSnapshotRepositories, executeDeleteSnapshotRepository

LEMMA AccountGood ==
    ASSUME NEW c, Lawful(c), c.mode = "account", NEW i \in DOMAIN AccountOrder
    PROVE  BranchGood(c, AccountBranch(c, AccountOrder[i]))
<1>1. Good(c, getClusters(c), "unheard") /\ Good(c, getAccounts(c), "call")
  BY AboutGood
     DEF getClusters, getCluster, getAccounts, OfClass, Unheard
<1>2. /\ Good(c, createAccount(c), "call") /\ Good(c, grantPrivileges(c), "call")
      /\ Good(c, revokePrivileges(c), "call") /\ Good(c, deleteAccount(c), "call")
  BY AboutGood
     DEF createAccount, grantPrivileges, revokePrivileges, deleteAccount, OfClass
<1> QED
  BY <1>1, <1>2, BranchesGood, ThenGood
     DEF AccountBranch, AccountOrder, executeAccountList

LEMMA AlarmGood ==
    ASSUME NEW c, Lawful(c), c.mode = "alarm", NEW i \in DOMAIN AlarmOrder
    PROVE  BranchGood(c, AlarmBranch(c, AlarmOrder[i]))
<1>1. Good(c, getAlarmStatistics(c), "call") /\ Good(c, ignoreAlarm(c), "call")
  BY AboutGood, RefuseGood
     DEF getAlarmStatistics, ignoreAlarm, OfClass
<1>2. Good(c, getAlarms(c), "call")
  <2> DEFINE map == [composeRequest(c) EXCEPT !.id = IF Given(c, "cluster-id")
                                                 THEN "own" ELSE @]
  <2>1. About(c, composeRequest(c)) /\ About(c, ForValidOrName(c))
    BY Maps
  <2>2. /\ clusterId(c) \in {"own", "default", "invalid"}
        /\ Given(c, "cluster-id") => clusterId(c) = "own"
        /\ Given(c, "with-tags") \in BOOLEAN
    BY DEF clusterId, Given
  <2>3. About(c, map)
    BY <2>1, <2>2 DEF About, ById, IsRequest
  <2> HIDE DEF map
  <2>4. \A x, y : Serves(c, map, x, y)
    BY <2>3 DEF Serves, About, ById
  <2> QED
    BY <2>4, CallGood DEF getAlarms, map, OfClass
<1> QED
  BY <1>1, <1>2, BranchesGood
     DEF AlarmBranch, AlarmOrder

LEMMA CloudCredentialsGood ==
    ASSUME NEW c, Lawful(c), c.mode = "cloud-credentials", NEW i \in DOMAIN CloudCredentialsOrder
    PROVE  BranchGood(c, CloudCredentialsBranch(c, CloudCredentialsOrder[i]))
<1>1. /\ Good(c, createCloudCredentials, "unheard")
      /\ Good(c, listCloudCredentials, "unheard")
      /\ Good(c, deleteCloudCredentials, "unheard")
  BY Maps, ExemptGood
     DEF Lawful, createCloudCredentials, listCloudCredentials, deleteCloudCredentials, OfClass,
         Unheard
<1> QED
  BY <1>1, BranchesGood
     DEF CloudCredentialsBranch, CloudCredentialsOrder

LEMMA ContainerGood ==
    ASSUME NEW c, Lawful(c), c.mode = "container", NEW i \in DOMAIN ContainerOrder
    PROVE  BranchGood(c, ContainerBranch(c, ContainerOrder[i]))
<1>1. Good(c, getContainers, "call")
  BY Maps, ExemptGood
     DEF Lawful, getContainers, OfClass
<1>2. /\ Good(c, createContainerWithJob(c), "any")
      /\ Good(c, deleteContainerWithJob(c), "any") /\ Good(c, stopContainerWithJob(c), "any")
      /\ Good(c, startContainerWithJob(c), "any")
  BY Maps, ExemptGood, RefuseGood
     DEF Lawful, createContainerWithJob, deleteContainerWithJob, stopContainerWithJob,
         startContainerWithJob, ContainerJob, composeJobDataOneContainer
<1> QED
  BY <1>1, <1>2, BranchesGood
     DEF ContainerBranch, ContainerOrder

LEMMA ControllerGood ==
    ASSUME NEW c, Lawful(c), c.mode = "controller", NEW i \in DOMAIN ControllerOrder
    PROVE  BranchGood(c, ControllerBranch(c, ControllerOrder[i]))
<1>1. /\ Good(c, pingController, "call") /\ Good(c, enableCmonHa, "call")
      /\ Good(c, getControllers, "call")
  BY Maps, ExemptGood
     DEF Lawful, pingController, enableCmonHa, setContentOf, getControllers, OfClass
<1>2. pingController.sent # << >>
  BY DEF pingController, Call, Send, Result
<1>3. Good(c, createSnapshotJob(c), "any")
  BY AboutGood
     DEF createSnapshotJob
<1>4. /\ Good(c, getClusterInfoCacheStatistics(c), "call")
      /\ Good(c, getLdapConfig(c), "call") /\ Good(c, setLdapConfig(c), "call")
  BY AboutGood, RefuseGood
     DEF getClusterInfoCacheStatistics, getLdapConfig, setLdapConfig, OfClass
<1> QED
  BY <1>1, <1>2, <1>3, <1>4, BranchesGood
     DEF ControllerBranch, ControllerOrder, executeControllerPing

LEMMA ControllersGood ==
    ASSUME NEW c, Lawful(c), c.mode = "pool-controllers", NEW i \in DOMAIN ControllersOrder
    PROVE  BranchGood(c, ControllersBranch(c, ControllersOrder[i]))
<1>1. Good(c, listControllers, "unheard") /\ Good(c, assignedController(c), "unheard")
  BY Maps, ExemptGood, IdentifierGood, RefuseGood
     DEF Lawful, listControllers, assignedController, OpsOfNoCluster, OfClass, Unheard
<1>2. /\ Good(c, setPoolMode, "call") /\ Good(c, startController(c), "call")
      /\ Good(c, stopController(c), "call") /\ Good(c, setMaxClustersCapacity(c), "call")
  BY Maps, ExemptGood, RefuseGood
     DEF setPoolMode, startController, stopController, setMaxClustersCapacity, OfController,
         OpsOfNoCluster, OfClass
<1>3. /\ Good(c, addNewController(c), "any") /\ Good(c, removeController(c), "any")
      /\ Good(c, updateCmon(c), "any")
  BY Maps, ExemptGood, RefuseGood
     DEF addNewController, removeController, updateCmon, OfController, OfNoCluster
<1> QED
  BY <1>1, <1>2, <1>3, BranchesGood
     DEF ControllersBranch, ControllersOrder

LEMMA DbSchemaGood ==
    ASSUME NEW c, Lawful(c), c.mode = "dbschema", NEW i \in DOMAIN DbSchemaOrder
    PROVE  BranchGood(c, DbSchemaBranch(c, DbSchemaOrder[i]))
<1>1. Good(c, getDbGrowth(c), "unheard")
  BY IdentifierGood
     DEF Lawful, getDbGrowth, OfClass, Unheard
<1>2. Good(c, calculateDbGrowth(c), "any")
  BY Maps, ExemptGood, IdentifierGood
     DEF Lawful, Known, calculateDbGrowth
<1> QED
  BY <1>1, <1>2, BranchesGood
     DEF DbSchemaBranch, DbSchemaOrder

LEMMA DbVersionsGood ==
    ASSUME NEW c, Lawful(c), c.mode = "dbversions", NEW i \in DOMAIN DbVersionsOrder
    PROVE  BranchGood(c, DbVersionsBranch(c, DbVersionsOrder[i]))
<1>1. /\ Good(c, getDbVersions, "unheard") /\ Good(c, getClusterTypes, "unheard")
      /\ Good(c, getVendors, "unheard")
  BY Maps, ExemptGood
     DEF Lawful, getDbVersions, getClusterTypes, getVendors, OfClass, Unheard
<1> QED
  BY <1>1, BranchesGood
     DEF DbVersionsBranch, DbVersionsOrder

LEMMA GroupGood ==
    ASSUME NEW c, Lawful(c), c.mode = "group", NEW i \in DOMAIN GroupOrder
    PROVE  BranchGood(c, GroupBranch(c, GroupOrder[i]))
<1>1. Good(c, getGroups, "unheard")
  BY Maps, ExemptGood
     DEF Lawful, getGroups, OfClass, Unheard
<1>2. Good(c, createGroup(c), "call") /\ Good(c, deleteGroup(c), "call")
  BY Maps, ExemptGood, RefuseGood
     DEF Lawful, createGroup, deleteGroup, OneArgumentOrBad, OfClass
<1> QED
  BY <1>1, <1>2, BranchesGood
     DEF GroupBranch, GroupOrder, executeGroupList

LEMMA JobsGood ==
    ASSUME NEW c, Lawful(c), c.mode = "job", NEW i \in DOMAIN JobOrder
    PROVE  BranchGood(c, JobBranch(c, JobOrder[i]))
<1>1. Good(c, getJobInstance, "unheard") /\ Good(c, getJobLog, "unheard")
  BY Maps, ExemptGood
     DEF getJobInstance, getJobLog, OpsOfNoCluster, OfClass, Unheard
<1>2. /\ Good(c, deleteJobInstance, "call") /\ Good(c, enableJobInstance, "call")
      /\ Good(c, disableJobInstance, "call") /\ Good(c, killJobInstance, "call")
  BY Maps, ExemptGood
     DEF deleteJobInstance, enableJobInstance, disableJobInstance, killJobInstance,
         OpsOfNoCluster, OfClass
<1>3. Good(c, getJobInstances(c), "unheard")
  <2> DEFINE map == [ForValidOrName(c) EXCEPT !.tags = Given(c, "with-tags")]
  <2>1. About(c, composeRequest(c)) /\ About(c, ForValidOrName(c))
    BY Maps
  <2>2. /\ clusterId(c) \in {"own", "default", "invalid"}
        /\ Given(c, "cluster-id") => clusterId(c) = "own"
        /\ Given(c, "with-tags") \in BOOLEAN
    BY DEF clusterId, Given
  <2>3. About(c, map)
    BY <2>1, <2>2 DEF About, ById, IsRequest
  <2> HIDE DEF map
  <2>4. \A x, y : Serves(c, map, x, y)
    BY <2>3 DEF Serves, About, ById
  <2> QED
    BY <2>4, CallGood DEF getJobInstances, map, OfClass, Unheard
<1>4. /\ Good(c, createFailJob(c), "any") /\ Good(c, createSuccessJob(c), "any")
      /\ Good(c, cloneJobInstance(c), "any")
  BY AboutGood
     DEF createFailJob, createSuccessJob, cloneJobInstance, OfClass
<1> QED
  BY <1>1, <1>2, <1>3, <1>4, BranchesGood
     DEF JobBranch, JobOrder, executeJobList, executeJobLog

LEMMA MaintenanceGood ==
    ASSUME NEW c, Lawful(c), c.mode = "maintenance", NEW i \in DOMAIN MaintenanceOrder
    PROVE  BranchGood(c, MaintenanceBranch(c, MaintenanceOrder[i]))
<1>1. /\ Good(c, getCurrentMaintenance(c), "unheard")
      /\ Good(c, getNextMaintenance(c), "unheard")
  BY IdentifierGood, RefuseGood
     DEF Lawful, getCurrentMaintenance, getNextMaintenance, OfAtMostOneNode, OfClass, Unheard
<1>2. Good(c, getMaintenance, "unheard") /\ Good(c, deleteMaintenance(c), "call")
  BY Maps, ExemptGood, RefuseGood
     DEF getMaintenance, deleteMaintenance, deleteMaintenanceOf, OpsOfNoCluster, OfClass, Unheard
<1>3. Good(c, createMaintenance(c), "unheard")
  BY Maps, ExemptGood, IdentifierGood, RefuseGood
     DEF Lawful, Known, createMaintenance, createMaintenanceOfNodes, createMaintenanceOfCluster,
         OfClass, Unheard
<1>4. Good(c, createMaintenanceWithJob(c), "any")
  BY AboutGood
     DEF createMaintenanceWithJob
<1> QED
  BY <1>1, <1>2, <1>3, <1>4, BranchesGood
     DEF MaintenanceBranch, MaintenanceOrder, executeMaintenanceList, executeMaintenanceCreate

LEMMA MetaTypeGood ==
    ASSUME NEW c, Lawful(c), c.mode = "metatype", NEW i \in DOMAIN MetaTypeOrder
    PROVE  BranchGood(c, MetaTypeBranch(c, MetaTypeOrder[i]))
<1>1. Good(c, getMetaTypes(c), "unheard") /\ Good(c, getMetaTypeProperties(c), "unheard")
  BY AboutGood
     DEF getMetaTypes, getMetaTypeProperties, OfClass, Unheard
<1>2. Good(c, getSupportedClusterTypes, "unheard")
  BY Maps, ExemptGood
     DEF Lawful, getSupportedClusterTypes, OfClass, Unheard
<1> QED
  BY <1>1, <1>2, BranchesGood
     DEF MetaTypeBranch, MetaTypeOrder, executeMetaTypeList, executeMetaTypePropertyList

LEMMA ProcessGood ==
    ASSUME NEW c, Lawful(c), c.mode = "process", NEW i \in DOMAIN ProcessOrder
    PROVE  BranchGood(c, ProcessBranch(c, ProcessOrder[i]))
<1>1. /\ Good(c, getRunningProcesses(c), "unheard") /\ Good(c, getSqlProcesses(c), "call")
      /\ Good(c, getTopQueries(c), "call")
  BY AboutGood
     DEF getRunningProcesses, getSqlProcesses, getTopQueries, OfClass, Unheard
<1> QED
  BY <1>1, BranchesGood
     DEF ProcessBranch, ProcessOrder, executeProcessList, executeTop

LEMMA ReplicationGood ==
    ASSUME NEW c, Lawful(c), c.mode = "replication", NEW i \in DOMAIN ReplicationOrder
    PROVE  BranchGood(c, ReplicationBranch(c, ReplicationOrder[i]))
<1>1. Good(c, getClusters(c), "unheard")
  BY AboutGood
     DEF getClusters, getCluster, OfClass, Unheard
<1>2. /\ Good(c, stopSlave(c), "any") /\ Good(c, startSlave(c), "any")
      /\ Good(c, failoverMaster(c), "any") /\ Good(c, stageSlave(c), "any")
      /\ Good(c, toggleSync(c), "any") /\ Good(c, promoteReplicationSlave(c), "any")
      /\ Good(c, resetSlave(c), "any")
  BY AboutGood, RefuseGood
     DEF stopSlave, startSlave, failoverMaster, stageSlave, toggleSync, promoteReplicationSlave,
         resetSlave, OfSlave
<1> QED
  BY <1>1, <1>2, BranchesGood
     DEF ReplicationBranch, ReplicationOrder

LEMMA ReportGood ==
    ASSUME NEW c, Lawful(c), c.mode = "report", NEW i \in DOMAIN ReportOrder
    PROVE  BranchGood(c, ReportBranch(c, ReportOrder[i]))
<1>1. /\ Good(c, getReports(c), "call") /\ Good(c, getReportTemplates(c), "call")
      /\ Good(c, generateReport(c), "call") /\ Good(c, getReport(c), "call")
      /\ Good(c, deleteReport(c), "call")
  BY AboutGood
     DEF getReports, getReportTemplates, generateReport, getReport, deleteReport, OfClass
<1> QED
  BY <1>1, BranchesGood
     DEF ReportBranch, ReportOrder

LEMMA ScriptGood ==
    ASSUME NEW c, Lawful(c), c.mode = "script", NEW i \in DOMAIN ScriptOrder
    PROVE  BranchGood(c, ScriptBranch(c, ScriptOrder[i]))
<1>1. Good(c, treeScripts(c), "unheard") /\ Good(c, executeExternalScript(c), "unheard")
  BY AboutGood
     DEF treeScripts, executeExternalScript, OfClass, Unheard
<1>2. /\ Good(c, executeCdtEntry(c), "any") /\ Good(c, executeSystemCommand(c), "any")
      /\ Good(c, executeSystemScript(c), "any")
  BY Maps, AboutGood, ExemptGood, RefuseGood
     DEF executeCdtEntry, executeCdtEntryOf, executeSystemCommand, executeSystemScript
<1> QED
  BY <1>1, <1>2, BranchesGood
     DEF ScriptBranch, ScriptOrder, executeScriptTree, executeExecute, executeSystemCommandOf,
         Given

LEMMA ServerGood ==
    ASSUME NEW c, Lawful(c), c.mode = "server", NEW i \in DOMAIN ServerOrder
    PROVE  BranchGood(c, ServerBranch(c, ServerOrder[i]))
<1>1. /\ Good(c, getAcl(c), "call") /\ Good(c, deleteFromTree(c), "call")
      /\ Good(c, getContainers, "call") /\ Good(c, getServers, "call")
      /\ Good(c, startServers, "call") /\ Good(c, stopServers, "call")
      /\ Good(c, registerServers, "call") /\ Good(c, unregisterServers, "call")
  BY Maps, ExemptGood, RefuseGood
     DEF Lawful, getAcl, deleteFromTree, deleteFromTreeOf, getContainers, getServers,
         startServers, stopServers, registerServers, unregisterServers, OneArgument, OfClass
<1>2. Good(c, addAcl(c), "call") /\ Good(c, createServer(c), "any")
  BY Maps, ExemptGood, RefuseGood
     DEF Lawful, addAcl, With, createServer, OneArgument, OfClass
<1> QED
  BY <1>1, <1>2, BranchesGood
     DEF ServerBranch, ServerOrder

LEMMA SheetGood ==
    ASSUME NEW c, Lawful(c), c.mode = "sheet", NEW i \in DOMAIN SheetOrder
    PROVE  BranchGood(c, SheetBranch(c, SheetOrder[i]))
<1>1. /\ Good(c, getSpreadsheets(c), "unheard") /\ Good(c, getSpreadsheet(c), "unheard")
      /\ Good(c, createSpreadsheet(c), "call")
  BY AboutGood, RefuseGood
     DEF getSpreadsheets, getSpreadsheet, createSpreadsheet, OneArgumentOrBad, OfClass, Unheard
<1> QED
  BY <1>1, BranchesGood
     DEF SheetBranch, SheetOrder

LEMMA TreeGood ==
    ASSUME NEW c, Lawful(c), c.mode = "tree", NEW i \in DOMAIN TreeOrder
    PROVE  BranchGood(c, TreeBranch(c, TreeOrder[i]))
<1>1. Good(c, getTree, "unheard")
  BY Maps, ExemptGood
     DEF Lawful, getTree, OfClass, Unheard
<1>2. /\ Good(c, checkAccess(c), "call") /\ Good(c, addAcl(c), "call")
      /\ Good(c, addTag(c), "call") /\ Good(c, removeTag(c), "call")
      /\ Good(c, removeAcl(c), "call") /\ Good(c, chOwn(c), "call")
  BY Maps, ExemptGood, RefuseGood
     DEF Lawful, checkAccess, addAcl, addTag, removeTag, removeAcl, chOwn, With, OneArgument,
         OfClass
<1>3. /\ Good(c, cat(c), "call") /\ Good(c, getObject(c), "call")
      /\ Good(c, getAcl(c), "call") /\ Good(c, mkdir(c), "call")
      /\ Good(c, setContent(c), "call")
  BY Maps, ExemptGood, RefuseGood
     DEF Lawful, cat, getObject, getObjectOf, getAcl, mkdir, mkdirOf, setContent, setContentOf,
         OneArgument, OfClass
<1>4. /\ Good(c, rmdir(c), "call") /\ Good(c, mkfile(c), "call")
      /\ Good(c, deleteFromTree(c), "call") /\ Good(c, renameOrMove(c), "call")
  BY Maps, ExemptGood, RefuseGood
     DEF Lawful, rmdir, mkfile, mkfileOf, deleteFromTree, deleteFromTreeOf, renameOrMove,
         moveInTree, rename, OneArgument, OfClass
<1> QED
  BY <1>1, <1>2, <1>3, <1>4, BranchesGood
     DEF TreeBranch, TreeOrder

LEMMA UserGood ==
    ASSUME NEW c, Lawful(c), c.mode = "user", NEW i \in DOMAIN UserOrder
    PROVE  BranchGood(c, UserBranch(c, UserOrder[i]))
<1>1. /\ Good(c, whoAmI, "unheard") /\ Good(c, getKeys(c), "unheard")
      /\ Good(c, getGroups, "unheard")
  BY Maps, ExemptGood, RefuseGood
     DEF Lawful, whoAmI, getKeys, getGroups, AtMostOne, OfClass, Unheard
<1>2. Good(c, getUsers(c), "unheard")
  BY AboutGood
     DEF getUsers, OfClass, Unheard
<1>3. /\ Good(c, setUser(c), "call") /\ Good(c, disableUser(c), "call")
      /\ Good(c, enableUser(c), "call") /\ Good(c, setPassword(c), "call")
      /\ Good(c, addKey(c), "call")
  BY Maps, ExemptGood, RefuseGood
     DEF Lawful, setUser, disableUser, enableUser, setPassword, addKey, AtMostOne, OfClass
<1>4. /\ Good(c, deleteUser(c), "call") /\ Good(c, addToGroup(c), "call")
      /\ Good(c, removeFromGroup(c), "call") /\ Good(c, setGroup(c), "call")
  BY Maps, ExemptGood, RefuseGood
     DEF Lawful, deleteUser, addToGroup, addToGroupOf, removeFromGroup, setGroup,
         OneArgumentOrBad, OfClass
<1>5. /\ Good(c, resetPassword, "call") /\ Good(c, getUserPreferences, "call")
      /\ Good(c, setUserPreferences(c), "call") /\ Good(c, deleteUserPreferences(c), "call")
  BY Maps, ExemptGood, RefuseGood
     DEF Lawful, resetPassword, getUserPreferences, setUserPreferences, deleteUserPreferences,
         OfClass
<1>6. Good(c, createUser, "call")
  BY Maps, ExemptGood
     DEF Lawful, createUser, createUserRequest, Call, OfClass
<1> QED
  BY <1>1, <1>2, <1>3, <1>4, <1>5, <1>6, BranchesGood
     DEF UserBranch, UserOrder, executeUserList, executeGroupList, executePrintKeys

LEMMA WatchlistsGood ==
    ASSUME NEW c, Lawful(c), c.mode = "watchlists", NEW i \in DOMAIN WatchlistsOrder
    PROVE  BranchGood(c, WatchlistsBranch(c, WatchlistsOrder[i]))
<1>1. /\ Good(c, createWatchlist, "unheard") /\ Good(c, updateWatchlist, "unheard")
      /\ Good(c, listWatchlists, "unheard") /\ Good(c, deleteWatchlist, "unheard")
  BY Maps, ExemptGood
     DEF Lawful, createWatchlist, updateWatchlist, listWatchlists, deleteWatchlist, OfClass,
         Unheard
<1> QED
  BY <1>1, BranchesGood
     DEF WatchlistsBranch, WatchlistsOrder

LEMMA NodeGood ==
    ASSUME NEW c, Lawful(c), c.mode = "node", NEW i \in DOMAIN NodeOrder
    PROVE  BranchGood(c, NodeBranch(c, NodeOrder[i]))
<1>1. Good(c, getClusters(c), "call") /\ Good(c, getStats(c), "call")
  BY AboutGood
     DEF getClusters, getCluster, getStats, OfClass, Unheard
<1>2. Good(c, setHost(c), "call")
  BY Maps, ExemptGood, RefuseGood
     DEF setHost, setHostOf, OpsOfNoCluster, OfClass
<1>3. Good(c, getConfig(c), "unheard") /\ Good(c, getConfig(c), "call")
  BY IdentifierGood, RefuseGood
     DEF getConfig, OpsIdentifierOnly, OfClass, Unheard
<1>4. /\ Good(c, setConfig(c), "call") /\ Good(c, unsetConfig(c), "call")
      /\ Good(c, unregisterHost(c), "call")
  BY AboutGood, RefuseGood
     DEF setConfig, unsetConfig, unregisterHost, OfClass
<1>5. /\ Good(c, startNode(c), "any") /\ Good(c, stopNode(c), "any")
      /\ Good(c, restartNode(c), "any") /\ Good(c, rebootHost(c), "any")
      /\ Good(c, registerHost(c), "any")
  BY AboutGood, RefuseGood
     DEF startNode, stopNode, restartNode, rebootHost, registerHost, OneNode
<1>6. /\ Good(c, setNodeReadOnly(c), "any") /\ Good(c, setNodeReadWrite(c), "any")
      /\ Good(c, enableBinaryLogging(c), "any")
  BY AboutGood, RefuseGood
     DEF setNodeReadOnly, setNodeReadWrite, startNodeJob, enableBinaryLogging, OneNode
<1>7. Good(c, inspectHost(c), "any")
  BY Maps, ExemptGood
     DEF inspectHost, OfNoCluster
<1>8. Good(c, configureWal(c), "any")
  <2> DEFINE map == [composeRequest(c) EXCEPT !.id = clusterId(c)]
  <2>1. About(c, composeRequest(c)) /\ About(c, ForValidOrName(c))
    BY Maps
  <2>2. /\ clusterId(c) \in {"own", "default", "invalid"}
        /\ Given(c, "cluster-id") => clusterId(c) = "own"
        /\ Given(c, "with-tags") \in BOOLEAN
    BY DEF clusterId, Given
  <2>3. About(c, map)
    BY <2>1, <2>2 DEF About, ById, IsRequest
  <2> HIDE DEF map
  <2>4. \A x, y : Serves(c, map, x, y)
    BY <2>3 DEF Serves, About, ById
  <2> QED
    BY <2>4, JobGood, RefuseGood DEF configureWal, map, OneNode
<1>9. BranchGood(c, executeNodeGraph(c)) /\ BranchGood(c, executePullConfig(c))
  BY <1>1, <1>3, BranchesGood, Zenon DEF executeNodeGraph, executePullConfig
<1>10. BranchGood(c, executeNodeList(c))
  BY <1>1, BranchesGood DEF executeNodeList
<1> QED
  BY <1>1, <1>2, <1>3, <1>4, <1>5, <1>6, <1>7, <1>8, <1>9, <1>10, BranchesGood
     DEF NodeBranch, NodeOrder, executeNodeSet, executeConfigList, Given

\* A cluster that does not exist yet is created in no cluster, or in cluster 0.
LEMMA CreateGood ==
    ASSUME NEW c
    PROVE  Good(c, createCluster(c), "any") /\ Good(c, registerCluster(c), "any")
<1>1. Good(c, NewCluster(c), "any") /\ Good(c, ExistingCluster(c), "any")
  BY Maps, ExemptGood DEF NewCluster, ExistingCluster, OfNoCluster
<1>2. ASSUME NEW command \in {"create_cluster", "add_cluster"}
      PROVE  Good(c, InClusterZero(Job(c, EmptyMap, command)), "any")
  <2>1. Good(c, Job(c, ForZero, command), "any")
    BY Maps, ExemptGood DEF OfNoCluster
  <2>2. InClusterZero(Job(c, EmptyMap, command)) = Job(c, ForZero, command)
    <3> DEFINE r == [composeJob(c, composeJobData(c, EmptyMap)) EXCEPT
                        !.op = "createJobInstance", !.job = command, !.title = "own"]
               z == [composeJob(c, composeJobData(c, ForZero)) EXCEPT
                        !.op = "createJobInstance", !.job = command, !.title = "own"]
    <3>1. [r EXCEPT !.id = "zero"] = z
      BY DEF composeJob, composeJobData, EmptyMap, ForZero
    <3>2. /\ Job(c, EmptyMap, command) = [sent |-> <<r>>, status |-> "Ok"]
          /\ Job(c, ForZero, command) = [sent |-> <<z>>, status |-> "Ok"]
      BY DEF Job, BareJob, Send, Result
    <3> HIDE DEF r, z
    <3>3. [i \in DOMAIN <<r>> |-> [<<r>>[i] EXCEPT !.id = "zero"]] = <<z>>
      BY <3>1
    <3> QED
      BY <3>2, <3>3 DEF InClusterZero
  <2> QED
    BY <2>1, <2>2
<1>3. Good(c, createNdbCluster(c), "any") /\ Good(c, registerNdbCluster(c), "any")
      /\ Good(c, createGroupReplication(c), "any")
  BY <1>1, <1>2, RefuseGood
     DEF createNdbCluster, registerNdbCluster, createGroupReplication, NewCluster, ExistingCluster,
         WithNodes
<1>4. /\ Good(c, createGaleraCluster(c), "any") /\ Good(c, createMySqlSingleCluster(c), "any")
      /\ Good(c, createMySqlReplication(c), "any") /\ Good(c, createMongoCluster(c), "any")
      /\ Good(c, createElasticsearch(c), "any") /\ Good(c, createClickHouseCluster(c), "any")
      /\ Good(c, createMsSqlSingle(c), "any") /\ Good(c, createPostgreSql(c), "any")
      /\ Good(c, createLogicalPostgreSql(c), "any")
      /\ Good(c, createRedisOrValkeySharded(c), "any")
      /\ Good(c, createRedisOrValkeySentinel(c), "any")
      /\ Good(c, NdbOnly(c, createNdbCluster(c)), "any")
  BY <1>1, <1>3, RefuseGood, Zenon
     DEF createGaleraCluster, createMySqlSingleCluster, createMySqlReplication, createMongoCluster,
         createElasticsearch, createClickHouseCluster, createMsSqlSingle, createPostgreSql,
         createLogicalPostgreSql, createRedisOrValkeySharded, createRedisOrValkeySentinel,
         WithNodes, NdbOnly
<1>5. /\ Good(c, registerGaleraCluster(c), "any") /\ Good(c, registerMySqlReplication(c), "any")
      /\ Good(c, registerGroupReplication(c), "any") /\ Good(c, registerPostgreSql(c), "any")
      /\ Good(c, registerMongoDbCluster(c), "any") /\ Good(c, registerClickHouseCluster(c), "any")
      /\ Good(c, registerElasticsearchCluster(c), "any")
      /\ Good(c, registerRedisOrValkeyShardedCluster(c), "any")
      /\ Good(c, registerRedisOrValkeyCluster(c), "any")
      /\ Good(c, NdbOnly(c, registerNdbCluster(c)), "any")
  BY <1>1, <1>3, RefuseGood, Zenon
     DEF registerGaleraCluster, registerMySqlReplication, registerGroupReplication,
         registerPostgreSql, registerMongoDbCluster, registerClickHouseCluster,
         registerElasticsearchCluster, registerRedisOrValkeyShardedCluster,
         registerRedisOrValkeyCluster, WithNodes, WithOneNode, NdbOnly
<1>6. Good(c, createCluster(c), "any")
  BY <1>3, <1>4, RefuseGood DEF createCluster
<1>7. Good(c, registerCluster(c), "any")
  BY <1>3, <1>5, RefuseGood DEF registerCluster
<1> QED
  BY <1>6, <1>7

\* The nodes that are added, installed or configured again.
LEMMA NodeJobsGood ==
    ASSUME NEW c
    PROVE  /\ Good(c, createNode(c), "any") /\ Good(c, reinstallNode(c), "any")
           /\ Good(c, reconfigureNode(c), "any") /\ Good(c, removeNode(c), "any")
           /\ Good(c, promoteSlave(c), "any") /\ Good(c, demoteNode(c), "any")
<1>1. \A command : Good(c, JobOf(c, command), "any")
  BY AboutGood
<1>2. /\ Good(c, addNode(c), "any") /\ Good(c, addReplicationSlave(c), "any")
      /\ Good(c, addHaProxy(c), "any") /\ Good(c, addKeepalived(c), "any")
      /\ Good(c, addPgBackRest(c), "any") /\ Good(c, addPgBouncer(c), "any")
      /\ Good(c, addPBMAgent(c), "any") /\ Good(c, addNFSClient(c), "any")
  BY <1>1, RefuseGood, Zenon
     DEF addNode, addReplicationSlave, addHaProxy, addKeepalived, addPgBackRest, addPgBouncer,
         addPBMAgent, addNFSClient, WithProtocol
<1>3. /\ Good(c, addNFSServer(c), "any") /\ Good(c, addProxySql(c), "any")
      /\ Good(c, addMaxScale(c), "any") /\ Good(c, addMongoNode(c), "any")
      /\ Good(c, addElasticNode(c), "any") /\ Good(c, addRedisShardedNode(c), "any")
  BY <1>1, RefuseGood, Zenon
     DEF addNFSServer, addProxySql, addMaxScale, addMongoNode, addElasticNode,
         addRedisShardedNode, OneNode
<1>4. Good(c, createNode(c), "any")
  BY <1>2, <1>3, RefuseGood, Zenon DEF createNode
<1>5. \A p : Good(c, AgentJob(c, p), "any")
  BY <1>1, RefuseGood, Zenon DEF AgentJob, WithProtocol
<1>6. Good(c, reinstallNode(c), "any") /\ Good(c, reconfigureNode(c), "any")
  BY <1>5, RefuseGood, Zenon
     DEF reinstallNode, reconfigureNode, reconfigurePBMAgent, reconfigureNFSClient,
         reconfigurePgBackRest, reinstallPBMAgent, reinstallNFSClient, reinstallPgBackRest
<1>7. /\ Good(c, removeNode(c), "any") /\ Good(c, promoteSlave(c), "any")
      /\ Good(c, demoteNode(c), "any")
  BY <1>1, RefuseGood, Zenon DEF removeNode, promoteSlave, demoteNode, OneNode
<1> QED
  BY <1>4, <1>6, <1>7

\* Two jobs are composed without the functions of the others.
LEMMA OwnJobGood ==
    ASSUME NEW c, ~Given(c, "dry")
    PROVE  Good(c, importConfig(c), "any") /\ Good(c, dropCluster(c), "any")
<1>0. /\ GivenAny(c, {"schedule", "recurrence"}) \in BOOLEAN
      /\ Given(c, "dry") \in BOOLEAN /\ Given(c, "job-title") \in BOOLEAN
      /\ Given(c, "schedule") => GivenAny(c, {"schedule", "recurrence"})
  BY DEF Given, GivenAny
<1>1. About(c, composeRequest(c)) /\ IsRequest(EmptyMap)
  BY Maps
<1> DEFINE r == [composeJob(c, composeRequest(c)) EXCEPT
                    !.op = "createJobInstance", !.job = "import_config",
                    !.title = IF @ = "given" THEN @ ELSE "own"]
           d == [composeJobData(c, composeJob(c, EmptyMap)) EXCEPT
                    !.op = "createJobInstance", !.job = "remove_cluster",
                    !.title = IF Given(c, "title") THEN "own" ELSE @]
<1>2. /\ IsRequest(r) /\ r.op = "createJobInstance" /\ r.job = "import_config"
      /\ r.id = composeRequest(c).id /\ r.name = composeRequest(c).name
      /\ r.scheduled = GivenAny(c, {"schedule", "recurrence"})
  BY <1>0, <1>1 DEF composeJob, About, ById, IsRequest
<1>3. /\ IsRequest(d) /\ d.op = "createJobInstance" /\ d.job = "remove_cluster"
      /\ d.scheduled = GivenAny(c, {"schedule", "recurrence"})
  BY <1>0, <1>1 DEF composeJobData, composeJob, IsRequest, Given
<1>4. importConfig(c) = [sent |-> <<r>>, status |-> "Ok"]
  BY DEF importConfig, Send, Result
<1>5. dropCluster(c) = [sent |-> <<d>>, status |-> "Ok"]
  BY DEF dropCluster, Send, Result
<1> HIDE DEF r, d
<1>6. Fits(c, r)
  BY <1>0, <1>1, <1>2 DEF Fits, IsAboutItsCluster, IsAsAsked, About, ById
<1>7. Fits(c, d)
  BY <1>0, <1>3 DEF Fits, IsAboutItsCluster, IsAsAsked, OfNoCluster
<1> QED
  BY <1>2, <1>3, <1>4, <1>5, <1>6, <1>7 DEF Good, OfClass

LEMMA ClusterGood ==
    ASSUME NEW c, Lawful(c), c.mode = "cluster", NEW i \in DOMAIN ClusterOrder
    PROVE  BranchGood(c, ClusterBranch(c, ClusterOrder[i]))
<1>0. ~Given(c, "dry")
  BY DEF Lawful
<1>1. /\ Good(c, pingCluster(c), "call") /\ Good(c, getClusters(c), "unheard")
      /\ Good(c, checkHosts(c), "unheard")
  BY AboutGood, RefuseGood DEF pingCluster, getClusters, getCluster, checkHosts, OfClass, Unheard
<1>2. BranchGood(c, executeClusterPing(c))
  <2>1. pingCluster(c).sent # << >>
    BY DEF pingCluster, Call, Send, Result
  <2> QED
    BY <1>1, <2>1, BranchesGood DEF executeClusterPing
<1>3. /\ Good(c, getClusterConfig(c), "call") /\ Good(c, setClusterConfig(c), "call")
      /\ Good(c, createAccount(c), "call") /\ Good(c, grantPrivileges(c), "call")
      /\ Good(c, revokePrivileges(c), "call") /\ Good(c, deleteAccount(c), "call")
      /\ Good(c, createDatabase(c), "call") /\ Good(c, availableUpgrades(c), "call")
  BY AboutGood
     DEF getClusterConfig, setClusterConfig, createAccount, grantPrivileges, revokePrivileges,
         deleteAccount, createDatabase, availableUpgrades, OfClass
<1>4. Good(c, getDatabases(c), "call")
  <2>1. Good(c, Call(ForIdOrName(c), "getClusterInfo"), "call")
    BY AboutGood DEF OfClass
  <2>2. ASSUME ~Known(c) PROVE Good(c, Call(EmptyMap, "getAllClusterInfo"), "call")
    BY <2>2, Maps, ExemptGood DEF OfClass
  <2>3. ~GivenAny(c, {"cluster-id", "cluster-name"}) => ~Known(c)
    BY DEF GivenAny, Known, Given
  <2> QED
    BY <2>1, <2>2, <2>3, Zenon DEF getDatabases
<1>5. /\ Good(c, addPublication(c), "call") /\ Good(c, modifyPublication(c), "call")
      /\ Good(c, dropPublication(c), "call") /\ Good(c, listPublications(c), "call")
      /\ Good(c, addSubscription(c), "call") /\ Good(c, modifySubscription(c), "call")
      /\ Good(c, dropSubscription(c), "call") /\ Good(c, listSubscriptions(c), "call")
  <2>1. \A ok, op : op # "createJobInstance" => Good(c, Require(c, ok, op), "call")
    BY AboutGood, RefuseGood, Zenon DEF Require, OfClass
  <2> QED
    BY <2>1 DEF addPublication, modifyPublication, dropPublication, listPublications,
                addSubscription, modifySubscription, dropSubscription, listSubscriptions
<1>6. /\ Good(c, syncClusters(c), "any") /\ Good(c, rollingRestart(c), "any")
      /\ Good(c, enableRecoveryWithJob(c), "any") /\ Good(c, disableRecoveryWithJob(c), "any")
      /\ Good(c, setClusterReadOnly(c), "any") /\ Good(c, disableClusterReadOnly(c), "any")
      /\ Good(c, collectLogs(c), "any") /\ Good(c, enableSsl(c), "any")
      /\ Good(c, disableSsl(c), "any") /\ Good(c, stopCluster(c), "any")
  BY <1>0, Maps, AboutGood, ExemptGood
     DEF syncClusters, rollingRestart, enableRecoveryWithJob, disableRecoveryWithJob,
         setClusterReadOnly, disableClusterReadOnly, collectLogs, enableSsl, disableSsl,
         stopCluster, OfNoCluster
<1>7. /\ Good(c, startCluster(c), "any") /\ Good(c, upgradeCluster(c), "any")
      /\ Good(c, checkPkgUpgrades(c), "any") /\ Good(c, renewCert(c), "any")
      /\ Good(c, createDeleteDatabaseJob(c), "any")
  BY AboutGood
     DEF startCluster, upgradeCluster, checkPkgUpgrades, renewCert, createDeleteDatabaseJob
<1>8. /\ Good(c, setupAuditLogging(c), "any") /\ Good(c, setupLogRotate(c), "any")
      /\ Good(c, createReport(c), "any") /\ Good(c, deployAgents(c), "any")
      /\ Good(c, deployCmonAgents(c), "any") /\ Good(c, uninstallCmonAgents(c), "any")
  BY IdentifierGood, RefuseGood
     DEF setupAuditLogging, setupLogRotate, createReport, deployAgents, deployCmonAgents,
         uninstallCmonAgents, IdentifierOnly
<1>9. \A b \in DirectCalls : BranchGood(c, Reported(DirectCall(c, b)))
  BY <1>3, <1>4, <1>5, BranchesGood DEF DirectCalls, DirectCall
<1>10. ASSUME NEW b, b = ClusterOrder[i], b \notin DirectCalls \cup {"ping", "list", "stat", "check-hosts"}
      PROVE  Good(c, RegisteredJob(c, b), "any")
  BY <1>0, <1>6, <1>7, <1>8, <1>10, CreateGood, NodeJobsGood, OwnJobGood
     DEF RegisteredJob, ClusterOrder, DirectCalls
<1>11. BranchGood(c, executeClusterList(c)) /\ BranchGood(c, Silent(checkHosts(c)))
  BY <1>1, BranchesGood DEF executeClusterList
<1>12. ASSUME NEW b, b = ClusterOrder[i] PROVE BranchGood(c, ClusterBranch(c, b))
  <2>1. b \notin DirectCalls \cup {"ping", "list", "stat", "check-hosts"} =>
           BranchGood(c, Registered(RegisteredJob(c, b)))
    BY <1>10, <1>12, BranchesGood
  <2> QED
    BY <1>2, <1>9, <1>11, <2>1 DEF ClusterBranch
<1> QED
  BY <1>12

-----------------------------------------------------------------------------
(* What reading a command line leaves of it *)

\* No other word is stored under these names, and no fact has them.
LEMMA WordsKept ==
    ASSUME line \in Lines, line.words \subseteq Handled(line.mode),
           NEW x \in {"cluster-id", "cluster-name", "dry"}, Given(o, x)
    PROVE  x \in Handled(line.mode)
<1>1. x \notin line.facts
  BY CommandLineAssumption DEF Facts
<1>2. PICK w \in line.words : x = Key(line.mode, w)
  BY <1>1 DEF Given, o, GivenBy
<1>3. w = x
  BY <1>2 DEF Key
<1> QED
  BY <1>2, <1>3

LEMMA ModeTables ==
    ASSUME NEW mode
    PROVE  /\ mode \in {"cloud-credentials", "container", "controller", "dbversions", "group", "metatype",
                        "server", "tree", "user", "watchlists", "none"} =>
                 {"cluster-id", "cluster-name"} \cap Handled(mode) = {}
           /\ mode \in {"pool-controllers", "dbschema", "maintenance", "process", "script", "sheet"} =>
                 "cluster-name" \notin Handled(mode)
           /\ mode \in Modes /\ mode # "backup" => "dry" \notin Handled(mode)
<1>1. ASSUME mode = "cloud-credentials" PROVE {"cluster-id", "cluster-name", "dry"} \cap Handled(mode) = {}
  BY <1>1
     DEF Handled, CloudCredentialsTable, CloudCredentialsClient, Usual, CloudCredentialsMain
<1>2. ASSUME mode = "container" PROVE {"cluster-id", "cluster-name", "dry"} \cap Handled(mode) = {}
  BY <1>2
     DEF Handled, ContainerClient, Usual, ContainerMain
<1>3. ASSUME mode = "controller" PROVE {"cluster-id", "cluster-name", "dry"} \cap Handled(mode) = {}
  BY <1>3
     DEF Handled, ControllerClient, Usual, ControllerMain
<1>4. ASSUME mode = "dbversions" PROVE {"cluster-id", "cluster-name", "dry"} \cap Handled(mode) = {}
  BY <1>4
     DEF Handled, DbVersionsTable, DbVersionsWords, Usual
<1>5. ASSUME mode = "group" PROVE {"cluster-id", "cluster-name", "dry"} \cap Handled(mode) = {}
  BY <1>5
     DEF Handled, GroupTable, GroupWords, Usual
<1>6. ASSUME mode = "metatype" PROVE {"cluster-id", "cluster-name", "dry"} \cap Handled(mode) = {}
  BY <1>6
     DEF Handled, MetaTypeWords, Usual
<1>7. ASSUME mode = "server" PROVE {"cluster-id", "cluster-name", "dry"} \cap Handled(mode) = {}
  BY <1>7
     DEF Handled, ServerTable, ServerClient, Usual, ServerMain, ServerData
<1>8. ASSUME mode = "tree" PROVE {"cluster-id", "cluster-name", "dry"} \cap Handled(mode) = {}
  BY <1>8
     DEF Handled, TreeTable, TreeClient, Usual, TreeMain, TreeData
<1>9. ASSUME mode = "user" PROVE {"cluster-id", "cluster-name", "dry"} \cap Handled(mode) = {}
  BY <1>9
     DEF Handled, UserTable, UserClient, Usual, UserMain, UserData
<1>10. ASSUME mode = "watchlists" PROVE {"cluster-id", "cluster-name", "dry"} \cap Handled(mode) = {}
  BY <1>10
     DEF Handled, WatchlistsTable, WatchlistsClient, Usual, WatchlistsMain
<1>11. ASSUME mode = "none" PROVE {"cluster-id", "cluster-name", "dry"} \cap Handled(mode) = {}
  BY <1>11
     DEF Handled, NoModeTable, NoModeWords
<1>12. ASSUME mode = "pool-controllers" PROVE {"cluster-name", "dry"} \cap Handled(mode) = {}
  BY <1>12
     DEF Handled, ControllersClient, Usual, ControllersMain, ControllersData
<1>13. ASSUME mode = "dbschema" PROVE {"cluster-name", "dry"} \cap Handled(mode) = {}
  BY <1>13
     DEF Handled, DbSchemaTable, DbSchemaClient, Usual, DbSchemaData
<1>14. ASSUME mode = "maintenance" PROVE {"cluster-name", "dry"} \cap Handled(mode) = {}
  BY <1>14
     DEF Handled, MaintenanceClient, Usual, MaintenanceMain
<1>15. ASSUME mode = "process" PROVE {"cluster-name", "dry"} \cap Handled(mode) = {}
  BY <1>15
     DEF Handled, ProcessTable, ProcessClient, ProcessMain
<1>16. ASSUME mode = "script" PROVE {"cluster-name", "dry"} \cap Handled(mode) = {}
  BY <1>16
     DEF Handled, ScriptTable, ScriptClient, Usual, ScriptMain
<1>17. ASSUME mode = "sheet" PROVE {"cluster-name", "dry"} \cap Handled(mode) = {}
  BY <1>17
     DEF Handled, SheetTable, SheetClient, Usual, SheetMain
<1>18. ASSUME mode = "account" PROVE {"dry"} \cap Handled(mode) = {}
  BY <1>18
     DEF Handled, AccountMain, AccountClient, Usual
<1>19. ASSUME mode = "alarm" PROVE {"dry"} \cap Handled(mode) = {}
  BY <1>19
     DEF Handled, AlarmWords, Usual
<1>20. ASSUME mode = "cluster" PROVE {"dry"} \cap Handled(mode) = {}
  BY <1>20
     DEF Handled, ClusterTable, ClusterClient, ClusterMain, ClusterAccess, ClusterJob,
         ClusterSetup, ClusterUpgrade, ClusterProxy, ClusterCloud, ClusterPublication,
         ClusterExtra
<1>21. ASSUME mode = "event" PROVE {"dry"} \cap Handled(mode) = {}
  BY <1>21
     DEF Handled, EventClient, Usual, EventFilter
<1>22. ASSUME mode = "job" PROVE {"dry"} \cap Handled(mode) = {}
  BY <1>22
     DEF Handled, JobTable, JobClient, Usual, JobData
<1>23. ASSUME mode = "log" PROVE {"dry"} \cap Handled(mode) = {}
  BY <1>23
     DEF Handled, LogWords, Usual
<1>24. ASSUME mode = "node" PROVE {"dry"} \cap Handled(mode) = {}
  BY <1>24
     DEF Handled, NodeTable, NodeClient, NodeMain, NodeJob, NodeData
<1>25. ASSUME mode = "replication" PROVE {"dry"} \cap Handled(mode) = {}
  BY <1>25
     DEF Handled, ReplicationTable, ReplicationClient, Usual, ReplicationMain
<1>26. ASSUME mode = "report" PROVE {"dry"} \cap Handled(mode) = {}
  BY <1>26
     DEF Handled, ReportTable, ReportWords, Usual
<1> QED
  BY <1>1, <1>2, <1>3, <1>4, <1>5, <1>6, <1>7, <1>8, <1>9, <1>10, <1>11, <1>12, <1>13, <1>14,
     <1>15, <1>16, <1>17, <1>18, <1>19, <1>20, <1>21, <1>22, <1>23, <1>24, <1>25, <1>26
     DEF Modes

LEMMA ReadIsLawful ==
    ASSUME line \in Lines, readOptions(line) = "go"
    PROVE  Lawful(o) /\ o.mode \in Modes
<1>1. line.mode \in Modes /\ line.words \subseteq Handled(line.mode)
  BY DEF readOptions
<1>2. o.mode = line.mode
  BY DEF o
<1> QED
  BY <1>1, <1>2, WordsKept, ModeTables DEF Lawful, Known

LEMMA OtherGood ==
    ASSUME NEW c, Lawful(c), NEW b
    PROVE  /\ BranchGood(c, LogBranch(c, b)) /\ BranchGood(c, EventBranch(c, b))
           /\ c.mode = "user" => BranchGood(c, Reported(createUser))
<1>1. Good(c, getLog(c), "call")
  <2>1. /\ Good(c, Call(composeRequest(c), "getLogEntry"), "call")
        /\ Good(c, Call(composeRequest(c), "getLogEntries"), "call")
    BY AboutGood DEF OfClass
  <2> QED
    BY <2>1, Zenon DEF getLog
<1>2. c.mode = "user" => Good(c, createUser, "call")
  BY Maps, ExemptGood DEF Lawful, createUser, createUserRequest, Call, OfClass
<1> QED
  BY <1>1, <1>2, BranchesGood DEF LogBranch, EventBranch, executeLogList

-----------------------------------------------------------------------------
(* The branch that is taken *)

\* The main options of a mode are numbered, and none of them is "none".
Numbered(order) == DOMAIN order \subseteq Nat /\ \A i \in DOMAIN order : order[i] # "none"
LEMMA OrderNumbered ==
    ASSUME NEW mode \in Modes PROVE Numbered(Order(mode))
<1>1. Numbered(ClusterOrder)
  BY DEF Numbered, ClusterOrder
<1>2. Numbered(BackupOrder) /\ Numbered(ServerOrder) /\ Numbered(UserOrder)
  BY DEF Numbered, BackupOrder, ServerOrder, UserOrder
<1>3. /\ Numbered(TreeOrder) /\ Numbered(NodeOrder) /\ Numbered(JobOrder)
      /\ Numbered(ControllerOrder)
  BY DEF Numbered, TreeOrder, NodeOrder, JobOrder, ControllerOrder
<1>4. /\ Numbered(AccountOrder) /\ Numbered(AlarmOrder) /\ Numbered(CloudCredentialsOrder)
      /\ Numbered(ContainerOrder) /\ Numbered(ControllersOrder) /\ Numbered(DbSchemaOrder)
      /\ Numbered(DbVersionsOrder) /\ Numbered(GroupOrder) /\ Numbered(MaintenanceOrder)
  BY DEF Numbered, AccountOrder, AlarmOrder, CloudCredentialsOrder, ContainerOrder,
         ControllersOrder, DbSchemaOrder, DbVersionsOrder, GroupOrder, MaintenanceOrder
<1>5. /\ Numbered(MetaTypeOrder) /\ Numbered(ProcessOrder) /\ Numbered(ReplicationOrder)
      /\ Numbered(ReportOrder) /\ Numbered(ScriptOrder) /\ Numbered(SheetOrder)
      /\ Numbered(WatchlistsOrder)
  BY DEF Numbered, MetaTypeOrder, ProcessOrder, ReplicationOrder, ReportOrder, ScriptOrder,
         SheetOrder, WatchlistsOrder
<1>6. Numbered(<<"list", "watch">>) /\ Numbered(<<"list">>) /\ Numbered(<< >>)
  BY DEF Numbered
<1> QED
  BY <1>1, <1>2, <1>3, <1>4, <1>5, <1>6 DEF Modes, Order

NatLess == OpToRel(<, Nat)
LEMMA LeastPlace ==
    ASSUME NEW S \in SUBSET Nat, S # {}
    PROVE  \E x \in S : \A y \in S : x <= y
<1>1. PICK x \in S : \A y \in S : ~(<<y, x>> \in NatLess)
  BY NatLessThanWellFounded, WFMin DEF NatLess
<1>2. \A y \in S : ~(y < x)
  BY <1>1 DEF OpToRel, NatLess
<1> QED
  BY <1>2

\* The main option is one of the chain and was given; or none of them was.
LEMMA MainOptionIsFirst ==
    ASSUME NEW c, c.mode \in Modes
    PROVE  LET order == Order(c.mode)
           IN  \/ MainOption(c) = "none" /\ \A i \in DOMAIN order : ~Given(c, order[i])
               \/ \E i \in DOMAIN order : /\ MainOption(c) = order[i] /\ Given(c, order[i])
                                         /\ MainOption(c) # "none"
<1> DEFINE order == Order(c.mode)
           given == {i \in DOMAIN order : Given(c, order[i])}
<1>1. Numbered(order)
  BY OrderNumbered
<1>2. CASE given = {}
  BY <1>2 DEF MainOption
<1>3. CASE given # {}
  <2>1. \E i \in given : \A j \in given : i <= j
    BY <1>1, <1>3, LeastPlace DEF Numbered
  <2>2. MainOption(c) = order[CHOOSE i \in given : \A j \in given : i <= j]
    BY <1>3, Zenon DEF MainOption
  <2> QED
    BY <1>1, <2>1, <2>2 DEF Numbered
<1> QED
  BY <1>2, <1>3

\* Whatever branch a command line takes, it is a good one.
LEMMA BranchOfGood ==
    ASSUME NEW c, Lawful(c), c.mode \in Modes
    PROVE  BranchGood(c, BranchOf(c, MainOption(c)))
<1> DEFINE b == MainOption(c)
<1>1. CASE b = "none"
  <2>1. BranchOf(c, b) \in {UnknownBad, Unknown} \/ (c.mode = "user" /\ BranchOf(c, b) = Reported(createUser))
    BY <1>1, Zenon DEF BranchOf
  <2> QED
    BY <2>1, BranchesGood, OtherGood
<1>2. ASSUME NEW i \in DOMAIN Order(c.mode), b = Order(c.mode)[i], b # "none"
      PROVE  BranchGood(c, BranchOf(c, b))
  <2> HIDE DEF b
  <2>1. ASSUME c.mode = "account" PROVE BranchGood(c, AccountBranch(c, b))
    BY <1>2, <2>1, AccountGood DEF Order
  <2>2. ASSUME c.mode = "alarm" PROVE BranchGood(c, AlarmBranch(c, b))
    BY <1>2, <2>2, AlarmGood DEF Order
  <2>3. ASSUME c.mode = "backup" PROVE BranchGood(c, BackupBranch(c, b))
    BY <1>2, <2>3, BackupGood DEF Order
  <2>4. ASSUME c.mode = "cloud-credentials" PROVE BranchGood(c, CloudCredentialsBranch(c, b))
    BY <1>2, <2>4, CloudCredentialsGood DEF Order
  <2>5. ASSUME c.mode = "cluster" PROVE BranchGood(c, ClusterBranch(c, b))
    BY <1>2, <2>5, ClusterGood DEF Order
  <2>6. ASSUME c.mode = "container" PROVE BranchGood(c, ContainerBranch(c, b))
    BY <1>2, <2>6, ContainerGood DEF Order
  <2>7. ASSUME c.mode = "controller" PROVE BranchGood(c, ControllerBranch(c, b))
    BY <1>2, <2>7, ControllerGood DEF Order
  <2>8. ASSUME c.mode = "pool-controllers" PROVE BranchGood(c, ControllersBranch(c, b))
    BY <1>2, <2>8, ControllersGood DEF Order
  <2>9. ASSUME c.mode = "dbschema" PROVE BranchGood(c, DbSchemaBranch(c, b))
    BY <1>2, <2>9, DbSchemaGood DEF Order
  <2>10. ASSUME c.mode = "dbversions" PROVE BranchGood(c, DbVersionsBranch(c, b))
    BY <1>2, <2>10, DbVersionsGood DEF Order
  <2>11. ASSUME c.mode = "group" PROVE BranchGood(c, GroupBranch(c, b))
    BY <1>2, <2>11, GroupGood DEF Order
  <2>12. ASSUME c.mode = "job" PROVE BranchGood(c, JobBranch(c, b))
    BY <1>2, <2>12, JobsGood DEF Order
  <2>13. ASSUME c.mode = "maintenance" PROVE BranchGood(c, MaintenanceBranch(c, b))
    BY <1>2, <2>13, MaintenanceGood DEF Order
  <2>14. ASSUME c.mode = "metatype" PROVE BranchGood(c, MetaTypeBranch(c, b))
    BY <1>2, <2>14, MetaTypeGood DEF Order
  <2>15. ASSUME c.mode = "node" PROVE BranchGood(c, NodeBranch(c, b))
    BY <1>2, <2>15, NodeGood DEF Order
  <2>16. ASSUME c.mode = "process" PROVE BranchGood(c, ProcessBranch(c, b))
    BY <1>2, <2>16, ProcessGood DEF Order
  <2>17. ASSUME c.mode = "replication" PROVE BranchGood(c, ReplicationBranch(c, b))
    BY <1>2, <2>17, ReplicationGood DEF Order
  <2>18. ASSUME c.mode = "report" PROVE BranchGood(c, ReportBranch(c, b))
    BY <1>2, <2>18, ReportGood DEF Order
  <2>19. ASSUME c.mode = "script" PROVE BranchGood(c, ScriptBranch(c, b))
    BY <1>2, <2>19, ScriptGood DEF Order
  <2>20. ASSUME c.mode = "server" PROVE BranchGood(c, ServerBranch(c, b))
    BY <1>2, <2>20, ServerGood DEF Order
  <2>21. ASSUME c.mode = "sheet" PROVE BranchGood(c, SheetBranch(c, b))
    BY <1>2, <2>21, SheetGood DEF Order
  <2>22. ASSUME c.mode = "tree" PROVE BranchGood(c, TreeBranch(c, b))
    BY <1>2, <2>22, TreeGood DEF Order
  <2>23. ASSUME c.mode = "user" PROVE BranchGood(c, UserBranch(c, b))
    BY <1>2, <2>23, UserGood DEF Order
  <2>24. ASSUME c.mode = "watchlists" PROVE BranchGood(c, WatchlistsBranch(c, b))
    BY <1>2, <2>24, WatchlistsGood DEF Order
  <2>25. c.mode # "none"
    BY <1>2 DEF Order
  <2> QED
    BY <1>2, <2>1, <2>2, <2>3, <2>4, <2>5, <2>6, <2>7, <2>8, <2>9, <2>10, <2>11, <2>12, <2>13, <2>14,
       <2>15, <2>16, <2>17, <2>18, <2>19, <2>20, <2>21, <2>22, <2>23, <2>24, <2>25, OtherGood
       DEF BranchOf, Modes
<1> QED
  BY <1>1, <1>2, MainOptionIsFirst

-----------------------------------------------------------------------------
(* The run of the program *)

USE DEF branchVars

IsSeq(s) == \E S : s \in Seq(S)

LEMMA AppendFacts ==
    ASSUME NEW s, IsSeq(s), NEW x
    PROVE  /\ IsSeq(Append(s, x)) /\ Len(s) \in Nat /\ DOMAIN s = 1..Len(s)
           /\ Len(Append(s, x)) = Len(s) + 1 /\ DOMAIN Append(s, x) = 1..(Len(s) + 1)
           /\ \A i \in 1..Len(s) : Append(s, x)[i] = s[i]
           /\ Append(s, x)[Len(s) + 1] = x
           /\ Append(s, x) # << >>
<1>1. PICK S : s \in Seq(S)
  BY DEF IsSeq
<1>2. s \in Seq(S \cup {x})
  BY <1>1
<1>3. Append(s, x) \in Seq(S \cup {x})
  BY <1>2
<1>4. IsSeq(Append(s, x))
  BY <1>3 DEF IsSeq
<1> QED
  BY <1>2, <1>3, <1>4, AppendProperties

LEMMA TailFacts ==
    ASSUME NEW s, IsSeq(s), s # << >>
    PROVE  /\ IsSeq(Tail(s)) /\ Len(s) \in Nat \ {0} /\ DOMAIN s = 1..Len(s)
           /\ Len(Tail(s)) = Len(s) - 1 /\ DOMAIN Tail(s) = 1..(Len(s) - 1)
           /\ \A i \in 1..(Len(s) - 1) : Tail(s)[i] = s[i + 1]
           /\ Head(s) = s[1]
           /\ Tail(s) = << >> <=> Len(s) = 1
<1>1. PICK S : s \in Seq(S)
  BY DEF IsSeq
<1>2. Tail(s) \in Seq(S) /\ Len(s) \in Nat \ {0} /\ Len(Tail(s)) = Len(s) - 1
  BY <1>1
<1>3. IsSeq(Tail(s))
  BY <1>2 DEF IsSeq
<1>4. Tail(s) = << >> <=> Len(Tail(s)) = 0
  BY <1>2
<1>5. \A i \in 1..(Len(s) - 1) : Tail(s)[i] = s[i + 1]
  BY <1>1, <1>2, HeadTailProperties
<1> QED
  BY <1>1, <1>2, <1>3, <1>4, <1>5

-----------------------------------------------------------------------------
(* The inductive invariant *)

\* Where the run is; the command line has passed the checks when it is executed.
Stages ==
    /\ line \in Lines
    /\ pc \in {"read", "info", "login", "execute", "request", "report", "job", "screen", "done"}
    /\ authenticated \in BOOLEAN
    /\ kind \in {"none", "reported", "silent", "own", "job", "again", "screen", "waited", "unknown"}
    /\ success \in BOOLEAN
    /\ reply \in Replies
    /\ job \in {"none", "finished", "failed", "lost"}
    /\ exit \in ExitCodes
    /\ pc \in {"info", "login", "execute"} => readOptions(line) = "go"

\* The requests that are to be sent and those that were: the outcome of all but
\* the last one may be left alone.
Requests ==
    /\ IsSeq(todo) /\ IsSeq(sent)
    /\ pc = "request" <=> todo # << >>
    /\ pc \in {"read", "info", "login", "execute", "screen"} => sent = << >>
    /\ kind = "again" /\ pc = "report" => sent # << >>
    /\ \A i \in DOMAIN todo :
          /\ Fits(o, todo[i])
          /\ i < Len(todo) \/ kind = "silent" => todo[i].op \in Unheard
          /\ kind # "job" => todo[i].op # "createJobInstance"
    /\ \A i \in DOMAIN sent :
          /\ Fits(o, sent[i].request) /\ sent[i].reply \in Statuses \cup {"connectError"}
          /\ i < Len(sent) \/ todo # << >> \/ kind = "silent" => sent[i].request.op \in Unheard
          /\ kind # "job" => sent[i].request.op # "createJobInstance"

\* The exit status: nothing has set it until the command line is read, the last
\* reply is the one it is taken from, and a job is waited for after its request
\* was answered.
Heard(i) == sent[i].reply = "ok" \/ sent[i].request.op \in Unheard
Outcomes ==
    /\ pc = "read" => exit = "Ok"
    /\ job # "none" => pc = "done"
    /\ job \in {"failed", "lost"} => exit # "Ok"
    /\ pc = "report" /\ sent # << >> =>
          /\ reply = sent[Len(sent)].reply
          /\ success <=> reply # "connectError"
    /\ pc = "job" => \A i \in DOMAIN sent : Heard(i)
    /\ SuccessIsTrue

IInv == Stages /\ Requests /\ Outcomes

LEMMA InitInv == ASSUME Init PROVE IInv
<1>1. IsSeq(<< >>) /\ DOMAIN << >> = {}
  <2>1. << >> \in Seq({})
    OBVIOUS
  <2> QED
    BY <2>1 DEF IsSeq
<1>2. Stages
  BY DEF Init, Stages, Replies, ExitCodes
<1>3. Requests
  BY <1>1 DEF Init, Requests
<1>4. Outcomes
  BY DEF Init, Outcomes, SuccessIsTrue
<1> QED
  BY <1>2, <1>3, <1>4 DEF IInv

\* The steps that only move on, with no request sent yet.
Quiet == ReadBad \/ Read \/ Info \/ NoInfo \/ Login \/ Quit
LEMMA QuietStep == ASSUME IInv, Quiet PROVE IInv'
<1> USE DEF Quiet
<1>1. /\ UNCHANGED <<line, branchVars, job>>
      /\ pc \in {"read", "info", "login", "screen"} /\ pc' \in {"info", "login", "execute", "done"}
      /\ pc' # "done" => pc # "screen"
  BY DEF ReadBad, Read, Info, NoInfo, Login, LoginSkipped, CanNotLogin, LoginFails, LoggedIn, Quit
<1>2. sent = << >> /\ sent' = << >> /\ job = "none" /\ todo = << >> /\ todo' = << >>
  BY <1>1 DEF IInv, Stages, Requests, Outcomes
<1>3. Stages'
  <2>1. authenticated' \in BOOLEAN /\ reply' \in Replies
    <3>1. CASE LoginFails
      <4>1. reply' \in {reply, "connectError"} \cup (Statuses \ {"ok"}) /\ UNCHANGED authenticated
        BY <3>1 DEF LoginFails
      <4> QED
        BY <4>1 DEF IInv, Stages, Replies
    <3> QED
      BY <3>1 DEF IInv, Stages, ReadBad, Read, Info, NoInfo, Login, LoginSkipped, CanNotLogin,
                  LoggedIn, Quit, Replies
  <2>2. exit' \in ExitCodes
    <3>1. readOptions(line) \in {"go", "Ok", "BadOptions"}
      BY Zenon DEF readOptions
    <3> QED
      BY <3>1 DEF IInv, Stages, ReadBad, Read, Info, NoInfo, Login, LoginSkipped, CanNotLogin,
                  LoginFails, LoggedIn, Quit, ExitCodes
  <2>3. pc' \in {"info", "login", "execute"} => readOptions(line) = "go"
    BY <1>1 DEF IInv, Stages, ReadBad, Read, Info, NoInfo, Login, LoginSkipped, CanNotLogin,
                LoginFails, LoggedIn, Quit
  <2> QED
    BY <1>1, <2>1, <2>2, <2>3 DEF IInv, Stages
<1>4. Requests'
  BY <1>1, <1>2 DEF IInv, Requests
<1>5. Outcomes'
  <2>1. DOMAIN sent' = {}
    BY <1>2
  <2> QED
    BY <1>1, <1>2, <2>1 DEF Outcomes, SuccessIsTrue
<1> QED
  BY <1>3, <1>4, <1>5 DEF IInv

LEMMA ExecuteStep == ASSUME IInv, Execute PROVE IInv'
<1> DEFINE b == BranchOf(o, MainOption(o))
<1>1. BranchGood(o, b)
  BY ReadIsLawful, BranchOfGood DEF IInv, Stages, Execute
<1>2. /\ kind' = b.kind /\ todo' = b.sent /\ pc' = After(b)
      /\ exit' = IF b.status = "Ok" THEN exit ELSE b.status
      /\ pc = "execute" /\ UNCHANGED <<line, authenticated, sent, success, reply, job>>
  BY Zenon DEF Execute
<1> HIDE DEF b
<1>3. /\ pc' \in {"done", "screen", "job", "report", "request"}
      /\ pc' = "request" <=> b.sent # << >>
      /\ kind' = "again" => pc' = "request"
  <2>1. Unattended = {"screen", "waited", "unknown"}
    BY DEF Unattended
  <2> QED
    BY <1>1, <1>2, <2>1 DEF BranchGood, After
<1>4. sent = << >> /\ sent' = << >> /\ job = "none" /\ o' = o
  BY <1>2 DEF IInv, Stages, Requests, Outcomes, o
<1>5. Stages'
  BY <1>1, <1>2, <1>3 DEF IInv, Stages, BranchGood, ExitCodes
<1>6. Requests'
  BY <1>1, <1>2, <1>3, <1>4 DEF IInv, Requests, BranchGood, IsSeq
<1>7. Outcomes'
  <2>1. DOMAIN sent' = {}
    BY <1>4
  <2> QED
    BY <1>2, <1>3, <1>4, <2>1 DEF Outcomes, SuccessIsTrue
<1> QED
  BY <1>5, <1>6, <1>7 DEF IInv

LEMMA SendingStep == ASSUME IInv, Sending PROVE IInv'
<1>1. PICK status \in Statuses \cup {"connectError"}, done \in BOOLEAN :
         /\ Ask(status, done)
         /\ done <=> status # "connectError"
         /\ exit' = IF done THEN exit ELSE "ConnectionError"
  <2>1. "connectError" \notin Statuses
    BY CommandLineAssumption DEF Refusals
  <2> QED
    BY <2>1 DEF Sending, Answered, Lost
<1> DEFINE r == [request |-> Head(todo), reply |-> status]
<1>2. /\ pc = "request" /\ sent' = Append(sent, r) /\ todo' = Tail(todo)
      /\ reply' = status /\ success' = done /\ pc' = IF Len(todo) = 1 THEN "report" ELSE "request"
      /\ UNCHANGED <<line, authenticated, mainOption, kind, job>>
  BY <1>1 DEF Ask
<1>3. IsSeq(todo) /\ IsSeq(sent) /\ todo # << >> /\ o' = o
  BY <1>2 DEF IInv, Requests, o
<1>4. r.request = todo[1] /\ r.reply = status
  BY <1>3, TailFacts
<1> HIDE DEF r
<1>5. Stages'
  BY <1>1, <1>2 DEF IInv, Stages, Replies, ExitCodes
<1>6. Requests'
  <2>1. /\ IsSeq(todo') /\ IsSeq(sent') /\ (pc' = "request" <=> todo' # << >>)
        /\ sent' # << >> /\ pc' \in {"report", "request"}
        /\ DOMAIN sent' = 1..(Len(sent) + 1) /\ Len(sent') = Len(sent) + 1 /\ Len(sent) \in Nat
        /\ DOMAIN todo' = 1..(Len(todo) - 1) /\ Len(todo') = Len(todo) - 1 /\ Len(todo) \in Nat \ {0}
    BY <1>2, <1>3, AppendFacts, TailFacts
  <2>2. ASSUME NEW i \in DOMAIN todo'
        PROVE  /\ Fits(o', todo'[i])
               /\ i < Len(todo') \/ kind' = "silent" => todo'[i].op \in Unheard
               /\ kind' # "job" => todo'[i].op # "createJobInstance"
    <3>1. todo'[i] = todo[i + 1] /\ i + 1 \in DOMAIN todo /\ (i < Len(todo') => i + 1 < Len(todo))
      BY <1>2, <1>3, <2>1, <2>2, TailFacts
    <3> QED
      BY <1>2, <1>3, <3>1 DEF IInv, Requests
  <2>3. ASSUME NEW i \in DOMAIN sent'
        PROVE  /\ Fits(o', sent'[i].request) /\ sent'[i].reply \in Statuses \cup {"connectError"}
               /\ i < Len(sent') \/ todo' # << >> \/ kind' = "silent" => sent'[i].request.op \in Unheard
               /\ kind' # "job" => sent'[i].request.op # "createJobInstance"
    <3>1. CASE i = Len(sent) + 1
      <4>1. sent'[i] = r /\ 1 \in DOMAIN todo /\ (todo' # << >> => 1 < Len(todo)) /\ ~(i < Len(sent'))
        BY <1>2, <1>3, <2>1, <3>1, AppendFacts, TailFacts
      <4> QED
        BY <1>1, <1>2, <1>3, <1>4, <4>1 DEF IInv, Requests
    <3>2. CASE i # Len(sent) + 1
      <4>1. i \in DOMAIN sent /\ sent'[i] = sent[i]
        BY <1>2, <1>3, <2>1, <3>2, AppendFacts
      <4> QED
        BY <1>2, <1>3, <4>1 DEF IInv, Requests
    <3> QED
      BY <3>1, <3>2
  <2> QED
    BY <2>1, <2>2, <2>3 DEF Requests
<1>7. Outcomes'
  <2>1. pc' \in {"report", "request"} /\ job' = "none"
    BY <1>2 DEF IInv, Stages, Outcomes
  <2>2. sent'[Len(sent')] = r
    BY <1>2, <1>3, AppendFacts
  <2> QED
    BY <1>1, <1>2, <1>4, <2>1, <2>2 DEF Outcomes, SuccessIsTrue
<1> QED
  BY <1>5, <1>6, <1>7 DEF IInv

-----------------------------------------------------------------------------
(* The outcome *)

LEMMA ExitStatusOk ==
    ASSUME NEW status, NEW before
    PROVE  /\ setExitStatus(status, before) \in {before, "NotFound", "AccessDenied", "Failed"}
           /\ setExitStatus(status, before) = "Ok" => status \in {"ok", "none"} /\ before = "Ok"
<1>1. requestStatus(status) = "ok" => status \in {"ok", "none"}
  BY DEF requestStatus
<1>2. \/ requestStatus(status) = "ok" /\ setExitStatus(status, before) = before
      \/ setExitStatus(status, before) \in {"NotFound", "AccessDenied", "Failed"}
  BY Zenon DEF setExitStatus
<1> QED
  BY <1>1, <1>2

\* When the last reply is good, or nobody asks for it, nothing else was lost.
LEMMA AllHeard ==
    ASSUME IInv, pc = "report", sent # << >> => reply \in {"ok", "none"} \/ kind = "silent"
    PROVE  \A i \in DOMAIN sent : Heard(i)
<1> TAKE i \in DOMAIN sent
<1>1. IsSeq(sent) /\ sent # << >> /\ todo = << >>
  BY DEF IInv, Requests
<1>2. i \in 1..Len(sent) /\ Len(sent) \in Nat
  BY <1>1, TailFacts
<1>3. CASE i < Len(sent) \/ kind = "silent"
  BY <1>3 DEF IInv, Requests, Heard
<1>4. CASE i = Len(sent) /\ kind # "silent"
  <2>1. sent[i].reply = reply /\ sent[i].reply \in Statuses \cup {"connectError"}
    BY <1>1, <1>4 DEF IInv, Requests, Outcomes
  <2>2. "none" \notin Statuses
    BY CommandLineAssumption DEF Refusals
  <2> QED
    BY <1>1, <1>4, <2>1, <2>2 DEF Heard
<1> QED
  BY <1>2, <1>3, <1>4

\* The end of a report: the run is over, or waits for the job it registered.
LEMMA ReportEnds ==
    ASSUME IInv, pc = "report", pc' \in {"done", "job"},
           UNCHANGED <<line, branchVars, reply, job>>,
           authenticated' \in BOOLEAN, exit' \in ExitCodes,
           exit' = "Ok" \/ pc' = "job" => \A i \in DOMAIN sent : Heard(i),
           exit' = "Ok" /\ pc' = "done" /\ waitRequested => kind # "job" \/ sent = << >>
    PROVE  IInv'
<1>1. o' = o /\ (waitRequested' <=> waitRequested) /\ job = "none" /\ job' = "none"
  BY DEF o, waitRequested, IInv, Stages, Outcomes
<1>2. Stages'
  BY DEF IInv, Stages
<1>3. Requests'
  BY <1>1 DEF IInv, Requests
<1>4. Outcomes'
  <2>1. \A i \in DOMAIN sent : Heard(i)' <=> Heard(i)
    BY DEF Heard
  <2>2. ASSUME pc' = "done", exit' = "Ok", waitRequested
        PROVE  \A i \in DOMAIN sent : sent[i].request.op # "createJobInstance"
    <3>1. DOMAIN << >> = {}
      OBVIOUS
    <3> QED
      BY <2>2, <3>1 DEF IInv, Requests
  <2> QED
    BY <1>1, <2>1, <2>2 DEF Outcomes, SuccessIsTrue, Heard
<1> QED
  BY <1>2, <1>3, <1>4 DEF IInv

LEMMA ReportStep ==
    ASSUME IInv, Report \/ ReportSilently \/ ReportOwn \/ ReportJob PROVE IInv'
<1>1. CASE Report
  <2>1. exit' = setExitStatus(reply, exit) /\ exit \in ExitCodes /\ authenticated' \in BOOLEAN
    BY <1>1 DEF Report, IInv, Stages
  <2>2. exit' \in ExitCodes /\ (exit' = "Ok" => reply \in {"ok", "none"})
    BY <2>1, ExitStatusOk DEF ExitCodes
  <2> QED
    BY <1>1, <2>1, <2>2, AllHeard, ReportEnds DEF Report
<1>2. CASE ReportSilently
  <2>1. exit' \in ExitCodes /\ authenticated' \in BOOLEAN
    BY <1>2 DEF ReportSilently, IInv, Stages
  <2> QED
    BY <1>2, <2>1, AllHeard, ReportEnds DEF ReportSilently
<1>3. CASE ReportOwn
  <2>1. exit' \in ExitCodes /\ authenticated' \in BOOLEAN /\ (exit' = "Ok" => reply = "ok")
    BY <1>3 DEF ReportOwn, IInv, Stages, ExitCodes
  <2> QED
    BY <1>3, <2>1, AllHeard, ReportEnds DEF ReportOwn
<1>4. CASE ReportJob
  <2>1. exit' = setExitStatus(reply, exit) /\ exit \in ExitCodes /\ authenticated' \in BOOLEAN
    BY <1>4 DEF ReportJob, IInv, Stages
  <2>2. exit' \in ExitCodes /\ (exit' = "Ok" => reply \in {"ok", "none"})
    BY <2>1, ExitStatusOk DEF ExitCodes
  <2>3. pc = "report" /\ pc' = IF success /\ reply = "ok" /\ waitRequested THEN "job" ELSE "done"
    BY <1>4 DEF ReportJob
  <2>4. ASSUME exit' = "Ok", sent # << >> PROVE success /\ reply = "ok"
    <3>1. /\ reply = sent[Len(sent)].reply /\ (success <=> reply # "connectError")
          /\ IsSeq(sent)
      BY <2>3, <2>4 DEF IInv, Requests, Outcomes
    <3>2. Len(sent) \in DOMAIN sent
      BY <2>4, <3>1, TailFacts
    <3>3. reply \in Statuses \cup {"connectError"}
      BY <3>1, <3>2 DEF IInv, Requests
    <3>4. "none" \notin Statuses
      BY CommandLineAssumption DEF Refusals
    <3> QED
      BY <2>2, <2>4, <3>1, <3>3, <3>4
  <2>5. exit' = "Ok" \/ pc' = "job" => \A i \in DOMAIN sent : Heard(i)
    <3>1. ASSUME exit' = "Ok" \/ pc' = "job" PROVE \A i \in DOMAIN sent : Heard(i)
      <4>1. reply \in {"ok", "none"}
        BY <2>2, <2>3, <3>1
      <4> QED
        BY <2>3, <4>1, AllHeard
    <3> QED
      BY <3>1
  <2>6. exit' = "Ok" /\ pc' = "done" /\ waitRequested => sent = << >>
    BY <2>3, <2>4, Zenon
  <2> QED
    BY <1>4, <2>1, <2>2, <2>3, <2>5, <2>6, ReportEnds, Zenon DEF ReportJob
<1> QED
  BY <1>1, <1>2, <1>3, <1>4

LEMMA WaitForJobStep == ASSUME IInv, WaitForJob PROVE IInv'
<1>1. /\ pc = "job" /\ pc' = "done" /\ job' \in {"finished", "failed", "lost"}
      /\ exit' = CASE job' = "finished" -> exit
                   [] job' = "failed" -> "JobFailed"
                   [] job' = "lost" -> "ConnectionError"
      /\ UNCHANGED <<line, authenticated, branchVars, reply>>
  BY DEF WaitForJob
<1>2. /\ exit' \in {exit, "JobFailed", "ConnectionError"}
      /\ job' \in {"failed", "lost"} => exit' \in {"JobFailed", "ConnectionError"}
  BY <1>1
<1>3. Stages'
  BY <1>1, <1>2 DEF IInv, Stages, ExitCodes
<1>4. Requests'
  BY <1>1 DEF IInv, Requests, o
<1>5. Outcomes'
  BY <1>1, <1>2 DEF IInv, Outcomes, SuccessIsTrue, Heard
<1> QED
  BY <1>3, <1>4, <1>5 DEF IInv

\* A ping that is followed by an other one forgets what was sent.
LEMMA PingStep == ASSUME IInv, ReportPing PROVE IInv'
<1>1. /\ pc = "report" /\ kind = "again"
      /\ exit' = IF success THEN setExitStatus(reply, "Ok") ELSE "Failed"
      /\ authenticated' = (authenticated /\ ~forgetsLogin(reply))
      /\ UNCHANGED <<line, mainOption, kind, success, reply, job>>
  BY DEF ReportPing
<1>2. exit' \in ExitCodes /\ authenticated' \in BOOLEAN /\ (exit' = "Ok" => reply \in {"ok", "none"})
  BY <1>1, ExitStatusOk DEF ExitCodes, IInv, Stages
<1>3. CASE Given(o, "wait")
  <2>1. pc' = "request" /\ todo' = <<sent[1].request>> /\ sent' = << >>
    BY <1>3 DEF ReportPing
  <2>2. o' = o /\ job = "none"
    BY <1>1 DEF o, IInv, Outcomes
  <2>3. 1 \in DOMAIN sent
    BY <1>1, TailFacts DEF IInv, Requests
  <2>4. /\ IsSeq(todo') /\ IsSeq(sent') /\ DOMAIN todo' = {1} /\ Len(todo') = 1
        /\ todo'[1] = sent[1].request /\ todo' # << >> /\ DOMAIN sent' = {}
    <3>1. todo' \in Seq({sent[1].request}) /\ << >> \in Seq({})
      BY <2>1
    <3>2. IsSeq(todo') /\ IsSeq(<< >>)
      BY <3>1 DEF IsSeq
    <3> QED
      BY <2>1, <3>2
  <2>5. Stages'
    BY <1>1, <1>2, <2>1 DEF IInv, Stages
  <2>6. Requests'
    BY <1>1, <2>1, <2>2, <2>3, <2>4 DEF IInv, Requests
  <2>7. Outcomes'
    BY <1>1, <2>1, <2>2, <2>4 DEF Outcomes, SuccessIsTrue
  <2> QED
    BY <2>5, <2>6, <2>7 DEF IInv
<1>4. CASE ~Given(o, "wait")
  <2>1. pc' = "done" /\ UNCHANGED <<todo, sent>>
    BY <1>4, Zenon DEF ReportPing
  <2> QED
    BY <1>1, <1>2, <2>1, AllHeard, ReportEnds
<1> QED
  BY <1>3, <1>4

LEMMA NextInv == ASSUME IInv, [Next]_vars PROVE IInv'
<1>1. CASE ReadBad \/ Read \/ Info \/ NoInfo \/ Login \/ Quit
  BY <1>1, QuietStep DEF Quiet
<1>2. CASE Execute
  BY <1>2, ExecuteStep
<1>3. CASE Sending
  BY <1>3, SendingStep
<1>4. CASE Report \/ ReportSilently \/ ReportOwn \/ ReportJob
  BY <1>4, ReportStep
<1>5. CASE WaitForJob
  BY <1>5, WaitForJobStep
<1>6. CASE ReportPing
  BY <1>6, PingStep
<1>7. CASE Ended \/ UNCHANGED vars
  BY <1>7 DEF Ended, vars, IInv, Stages, Requests, Outcomes, SuccessIsTrue, Heard, o, waitRequested
<1> QED
  BY <1>1, <1>2, <1>3, <1>4, <1>5, <1>6, <1>7 DEF Next, Outcome

\* None of the writers of the exit status makes a bad one good.
LEMMA StepStaysBad ==
    ASSUME IInv, Next PROVE exit # "Ok" => exit' # "Ok" \/ kind = "again"
<1> SUFFICES ASSUME exit # "Ok" PROVE exit' # "Ok" \/ kind = "again"
  OBVIOUS
<1>1. CASE ReadBad \/ Read \/ Info \/ NoInfo
  BY <1>1 DEF IInv, Outcomes, ReadBad, Read, Info, NoInfo
<1>2. CASE Login
  BY <1>2 DEF Login, LoginSkipped, CanNotLogin, LoginFails, LoggedIn
<1>3. CASE Execute
  <2>1. PICK status : exit' = IF status = "Ok" THEN exit ELSE status
    BY <1>3, Zenon DEF Execute
  <2> QED
    BY <2>1
<1>4. CASE Sending
  BY <1>4 DEF Sending, Answered, Lost, Ask
<1>5. CASE Report \/ ReportJob
  <2>1. exit' = setExitStatus(reply, exit)
    BY <1>5 DEF Report, ReportJob
  <2>2. setExitStatus(reply, exit) \in {exit, "NotFound", "AccessDenied", "Failed"}
    BY Zenon DEF setExitStatus
  <2> QED
    BY <2>1, <2>2
<1>6. CASE ReportSilently \/ ReportOwn
  BY <1>6 DEF ReportSilently, ReportOwn
<1>7. CASE ReportPing
  BY <1>7 DEF ReportPing
<1>8. CASE WaitForJob
  BY <1>8 DEF WaitForJob
<1>9. CASE Quit \/ Ended
  BY <1>9 DEF Quit, Ended, vars
<1> QED
  BY <1>1, <1>2, <1>3, <1>4, <1>5, <1>6, <1>7, <1>8, <1>9 DEF Next, Outcome

-----------------------------------------------------------------------------
(* One operation *)

\* Of the main options in the order of a mode those that are given are all the
\* same one, but for those the check does not count.
Single(order, uncounted, given) ==
    \E x : \A i \in DOMAIN order : order[i] \in given => order[i] = x \/ order[i] \in uncounted

LEMMA CheckedIsSingle ==
    ASSUME NEW mode \in Modes \ {"none"}, NEW given, NEW extra, Checked(mode, given, extra)
    PROVE  Single(Order(mode), NotCounted(mode), given)
<1>1. CASE mode = "account"
  <2>1. AccountChecked(given) /\ Order(mode) = AccountOrder /\ NotCounted(mode) = {}
    BY <1>1 DEF Checked, Order, NotCounted
  <2> QED
    BY <2>1 DEF Single, AccountChecked, One, OnlyOne, AccountOrder
<1>2. CASE mode = "alarm"
  <2>1. AlarmChecked(given) /\ Order(mode) = AlarmOrder /\ NotCounted(mode) = {}
    BY <1>2 DEF Checked, Order, NotCounted
  <2> QED
    BY <2>1 DEF Single, AlarmChecked, One, OnlyOne, AlarmOrder
<1>3. CASE mode = "backup"
  <2>1. BackupChecked(given) /\ Order(mode) = BackupOrder /\ NotCounted(mode) = {}
    BY <1>3 DEF Checked, Order, NotCounted
  <2> QED
    BY <2>1 DEF Single, BackupChecked, One, OnlyOne, BackupOrder
<1>4. CASE mode = "cloud-credentials"
  <2>1. CloudCredentialsChecked(given) /\ Order(mode) = CloudCredentialsOrder /\ NotCounted(mode) = {}
    BY <1>4 DEF Checked, Order, NotCounted
  <2> QED
    BY <2>1 DEF Single, CloudCredentialsChecked, One, OnlyOne, CloudCredentialsOrder
<1>5. CASE mode = "cluster"
  <2>1. ClusterChecked(given) /\ Order(mode) = ClusterOrder /\ NotCounted(mode) = {"revoke"}
    BY <1>5 DEF Checked, Order, NotCounted
  <2> QED
    BY <2>1 DEF Single, ClusterChecked, One, OnlyOne, ClusterOrder, ClusterCounted
<1>6. CASE mode = "container"
  <2>1. ContainerChecked(given) /\ Order(mode) = ContainerOrder /\ NotCounted(mode) = {}
    BY <1>6 DEF Checked, Order, NotCounted
  <2> QED
    BY <2>1 DEF Single, ContainerChecked, One, OnlyOne, ContainerOrder
<1>7. CASE mode = "controller"
  <2>1. ControllerChecked(given) /\ Order(mode) = ControllerOrder /\ NotCounted(mode) = {}
    BY <1>7 DEF Checked, Order, NotCounted
  <2> QED
    BY <2>1 DEF Single, ControllerChecked, One, OnlyOne, ControllerOrder
<1>8. CASE mode = "pool-controllers"
  <2>1. ControllersChecked(given) /\ Order(mode) = ControllersOrder /\ NotCounted(mode) = {}
    BY <1>8 DEF Checked, Order, NotCounted
  <2> QED
    BY <2>1 DEF Single, ControllersChecked, One, OnlyOne, ControllersOrder
<1>9. CASE mode = "dbschema"
  <2>1. DbSchemaChecked(given) /\ Order(mode) = DbSchemaOrder /\ NotCounted(mode) = {}
    BY <1>9 DEF Checked, Order, NotCounted
  <2> QED
    BY <2>1 DEF Single, DbSchemaChecked, One, OnlyOne, DbSchemaOrder
<1>10. CASE mode = "dbversions"
  <2>1. DbVersionsChecked(given) /\ Order(mode) = DbVersionsOrder /\ NotCounted(mode) = {}
    BY <1>10 DEF Checked, Order, NotCounted
  <2> QED
    BY <2>1 DEF Single, DbVersionsChecked, One, OnlyOne, DbVersionsOrder
<1>11. CASE mode = "group"
  <2>1. GroupChecked(given) /\ Order(mode) = GroupOrder /\ NotCounted(mode) = {}
    BY <1>11 DEF Checked, Order, NotCounted
  <2> QED
    BY <2>1 DEF Single, GroupChecked, One, OnlyOne, GroupOrder
<1>12. CASE mode = "job"
  <2>1. /\ JobChecked(given)
        /\ Order(mode) = JobOrder
        /\ NotCounted(mode) = {"success", "clone", "log", "wait", "follow"}
    BY <1>12 DEF Checked, Order, NotCounted
  <2> QED
    BY <2>1 DEF Single, JobChecked, One, OnlyOne, JobOrder, JobFirst, JobLater
<1>13. CASE mode = "maintenance"
  <2>1. MaintenanceChecked(given) /\ Order(mode) = MaintenanceOrder /\ NotCounted(mode) = {}
    BY <1>13 DEF Checked, Order, NotCounted
  <2> QED
    BY <2>1 DEF Single, MaintenanceChecked, One, OnlyOne, MaintenanceOrder
<1>14. CASE mode = "metatype"
  <2>1. MetaTypeChecked(given) /\ Order(mode) = MetaTypeOrder /\ NotCounted(mode) = {}
    BY <1>14 DEF Checked, Order, NotCounted
  <2> QED
    BY <2>1 DEF Single, MetaTypeChecked, One, OnlyOne, MetaTypeOrder
<1>15. CASE mode = "node"
  <2>1. NodeChecked(given) /\ Order(mode) = NodeOrder /\ NotCounted(mode) = {}
    BY <1>15 DEF Checked, Order, NotCounted
  <2> QED
    BY <2>1 DEF Single, NodeChecked, One, OnlyOne, NodeOrder
<1>16. CASE mode = "process"
  <2>1. ProcessChecked(given) /\ Order(mode) = ProcessOrder /\ NotCounted(mode) = {}
    BY <1>16 DEF Checked, Order, NotCounted
  <2> QED
    BY <2>1 DEF Single, ProcessChecked, One, OnlyOne, ProcessOrder
<1>17. CASE mode = "replication"
  <2>1. ReplicationChecked(given) /\ Order(mode) = ReplicationOrder /\ NotCounted(mode) = {}
    BY <1>17 DEF Checked, Order, NotCounted
  <2> QED
    BY <2>1 DEF Single, ReplicationChecked, One, OnlyOne, ReplicationOrder
<1>18. CASE mode = "report"
  <2>1. ReportChecked(given) /\ Order(mode) = ReportOrder /\ NotCounted(mode) = {}
    BY <1>18 DEF Checked, Order, NotCounted
  <2> QED
    BY <2>1 DEF Single, ReportChecked, One, OnlyOne, ReportOrder
<1>19. CASE mode = "script"
  <2>1. ScriptChecked(given) /\ Order(mode) = ScriptOrder /\ NotCounted(mode) = {}
    BY <1>19 DEF Checked, Order, NotCounted
  <2> QED
    BY <2>1 DEF Single, ScriptChecked, One, OnlyOne, ScriptOrder
<1>20. CASE mode = "server"
  <2>1. ServerChecked(given) /\ Order(mode) = ServerOrder /\ NotCounted(mode) = {}
    BY <1>20 DEF Checked, Order, NotCounted
  <2> QED
    BY <2>1 DEF Single, ServerChecked, One, OnlyOne, ServerOrder
<1>21. CASE mode = "sheet"
  <2>1. /\ SheetChecked(given)
        /\ Order(mode) = SheetOrder
        /\ NotCounted(mode) = {"list", "stat", "create", "edit"}
    BY <1>21 DEF Checked, Order, NotCounted
  <2> QED
    BY <2>1 DEF Single, SheetChecked, One, OnlyOne, SheetOrder
<1>22. CASE mode = "tree"
  <2>1. TreeChecked(given, extra) /\ Order(mode) = TreeOrder /\ NotCounted(mode) = {}
    BY <1>22 DEF Checked, Order, NotCounted
  <2> QED
    BY <2>1 DEF Single, TreeChecked, One, OnlyOne, TreeOrder
<1>23. CASE mode = "user"
  <2>1. /\ UserChecked(given)
        /\ Order(mode) = UserOrder
        /\ NotCounted(mode) = {"preferences-to-set", "preferences-to-delete"}
    BY <1>23 DEF Checked, Order, NotCounted
  <2> QED
    BY <2>1 DEF Single, UserChecked, One, OnlyOne, UserOrder, Preferences
<1>24. CASE mode = "watchlists"
  <2>1. WatchlistsChecked(given) /\ Order(mode) = WatchlistsOrder /\ NotCounted(mode) = {}
    BY <1>24 DEF Checked, Order, NotCounted
  <2> QED
    BY <2>1 DEF Single, WatchlistsChecked, One, OnlyOne, WatchlistsOrder
<1>25. CASE mode = "event"
  <2>1. EventChecked(given) /\ Order(mode) = <<"list", "watch">> /\ NotCounted(mode) = {}
    BY <1>25 DEF Checked, Order, NotCounted
  <2> QED
    BY <2>1 DEF Single, EventChecked, One, OnlyOne
<1>26. CASE mode = "log"
  <2>1. LogChecked(given) /\ Order(mode) = <<"list">> /\ NotCounted(mode) = {}
    BY <1>26 DEF Checked, Order, NotCounted
  <2> QED
    BY <2>1 DEF Single, LogChecked, One, OnlyOne
<1> QED
  BY <1>1, <1>2, <1>3, <1>4, <1>5, <1>6, <1>7, <1>8, <1>9, <1>10, <1>11, <1>12, <1>13, <1>14,
     <1>15, <1>16, <1>17, <1>18, <1>19, <1>20, <1>21, <1>22, <1>23, <1>24, <1>25, <1>26
     DEF Modes

\* A branch was chosen by the chain, for a command line that passed its check.
Counted == line.mode = "none" \/ Checked(line.mode, GivenBy(line), line.extra)
Chosen ==
    /\ pc \in {"login", "execute"} => Counted
    /\ kind # "none" => line.mode \in Modes /\ Counted /\ mainOption = MainOption(o)

LEMMA NextChosen == ASSUME IInv, Chosen, [Next]_vars PROVE Chosen'
<1>1. CASE NoInfo
  <2>1. "help" \notin line.words
    <3>1. "help" \notin GivenBy(line)
      BY <1>1 DEF NoInfo, InfoRequest, GivenAny, o
    <3>2. Key(line.mode, "help") = "help"
      BY DEF Key
    <3> QED
      BY <3>1, <3>2 DEF GivenBy
  <2>2. readOptions(line) = "go"
    BY <1>1 DEF NoInfo, IInv, Stages
  <2>3. Counted
    BY <2>1, <2>2 DEF readOptions, Counted
  <2> QED
    BY <1>1, <2>3 DEF NoInfo, Chosen, Counted, o
<1>2. CASE Execute
  <2>1. /\ pc = "execute" /\ pc' = After(BranchOf(o, MainOption(o)))
        /\ mainOption' = MainOption(o) /\ UNCHANGED line
    BY <1>2, Zenon DEF Execute
  <2>2. Unattended = {"screen", "waited", "unknown"}
    BY DEF Unattended
  <2>3. pc' \notin {"login", "execute"}
    BY <2>1, <2>2 DEF After
  <2>4. line.mode \in Modes
    BY <2>1, ReadIsLawful DEF IInv, Stages, o
  <2> QED
    BY <2>1, <2>3, <2>4 DEF Chosen, Counted, o
<1>3. CASE ReadBad \/ Read \/ Info \/ Login \/ Quit
  <2>1. UNCHANGED <<line, kind, mainOption>> /\ (pc' \in {"login", "execute"} => pc = "login")
    BY <1>3 DEF ReadBad, Read, Info, Login, LoginSkipped, CanNotLogin, LoginFails, LoggedIn, Quit
  <2> QED
    BY <2>1 DEF Chosen, Counted, o
<1>4. CASE Sending
  <2>1. UNCHANGED <<line, kind, mainOption>> /\ pc' \in {"report", "request"}
    BY <1>4 DEF Sending, Answered, Lost, Ask
  <2> QED
    BY <2>1 DEF Chosen, Counted, o
<1>5. CASE Outcome
  <2>1. UNCHANGED <<line, kind, mainOption>> /\ pc' \in {"job", "request", "done"}
    BY <1>5 DEF Outcome, Report, ReportSilently, ReportOwn, ReportJob, WaitForJob, ReportPing
  <2> QED
    BY <2>1 DEF Chosen, Counted, o
<1>6. CASE Ended \/ UNCHANGED vars
  BY <1>6 DEF Ended, vars, Chosen, Counted, o
<1> QED
  BY <1>1, <1>2, <1>3, <1>4, <1>5, <1>6 DEF Next

-----------------------------------------------------------------------------
(* The theorems *)

LEMMA Invariance == Spec => []IInv
<1>1. Init => IInv
  BY InitInv
<1>2. IInv /\ [Next]_vars => IInv'
  BY NextInv
<1> QED
  BY <1>1, <1>2, PTL DEF Spec

\* Whatever the command line, every variable keeps its type: the run is in its
\* requests as long as there are some, and the exit status is one of the seven.
THEOREM TypeCorrect == Spec => []TypeOK
<1>1. IInv => TypeOK
  <2>1. ASSUME IInv PROVE line.extra \in Nat
    BY <2>1, CommandLineAssumption DEF IInv, Stages
  <2>2. ASSUME IInv
        PROVE  /\ \A i \in DOMAIN todo : IsRequest(todo[i])
               /\ \A i \in DOMAIN sent : IsRequest(sent[i].request) /\ sent[i].reply \in Replies
    BY <2>2 DEF IInv, Requests, Fits, Replies
  <2> QED
    BY <2>1, <2>2 DEF IInv, Stages, Requests, TypeOK
<1> QED
  BY <1>1, Invariance, PTL

\* Every request that is sent, by any of the functions of the client and in any
\* mode, is about the cluster the command line names.
THEOREM RequestsAboutTheirCluster == Spec => []AboutItsCluster
<1>1. IInv => AboutItsCluster
  BY DEF IInv, Requests, Fits, AboutItsCluster
<1> QED
  BY <1>1, Invariance, PTL

\* No composer of jobs forgets the schedule or the dry run.
THEOREM JobsAsAsked == Spec => []JobAsAsked
<1>1. IInv => JobAsAsked
  BY DEF IInv, Requests, Fits, JobAsAsked
<1> QED
  BY <1>1, Invariance, PTL

\* Exit status 0 means that nothing that was asked for was refused or lost, no
\* job that was waited for failed, and a job that had to be waited for is over.
THEOREM SuccessMeansSuccess == Spec => []SuccessIsTrue
<1>1. IInv => SuccessIsTrue
  BY DEF IInv, Outcomes
<1> QED
  BY <1>1, Invariance, PTL

\* A command line that passes the check of its mode never has a main option
\* that the chain of execute() drops in favour of an other one: the checks and
\* the chains of all modes agree, but for the options the checks do not count.
THEOREM OneOperationAtATime == Spec => []OneOperation
<1>1. Init => Chosen
  BY DEF Init, Chosen
<1>2. Chosen /\ IInv => OneOperation
  <2>1. SUFFICES ASSUME Chosen, IInv, kind # "none", NEW i \in DOMAIN Order(o.mode),
                        Given(o, Order(o.mode)[i])
                 PROVE  LET option == Order(o.mode)[i]
                        IN  option = mainOption \/ {option, mainOption} \cap NotCounted(o.mode) # {}
    BY DEF OneOperation
  <2>2. o.mode = line.mode /\ o.given = GivenBy(line)
    BY DEF o
  <2>3. Counted /\ mainOption = MainOption(o)
    BY <2>1 DEF Chosen
  <2>4. o.mode \in Modes \ {"none"}
    <3>1. line.mode \in Modes
      BY <2>1 DEF Chosen
    <3>2. Order("none") = << >>
      BY DEF Order
    <3> QED
      BY <2>1, <2>2, <3>1, <3>2
  <2>5. PICK x : \A j \in DOMAIN Order(o.mode) : Given(o, Order(o.mode)[j]) =>
                    Order(o.mode)[j] = x \/ Order(o.mode)[j] \in NotCounted(o.mode)
    BY <2>2, <2>3, <2>4, CheckedIsSingle DEF Counted, Single, Given
  <2>6. PICK j \in DOMAIN Order(o.mode) : mainOption = Order(o.mode)[j] /\ Given(o, Order(o.mode)[j])
    BY <2>1, <2>3, <2>4, MainOptionIsFirst
  <2> QED
    BY <2>1, <2>5, <2>6
<1>3. Spec => []Chosen
  BY <1>1, NextChosen, Invariance, PTL DEF Spec
<1> QED
  BY <1>2, <1>3, Invariance, PTL

\* Once the exit status is bad it stays bad, whichever of readOptions(), the
\* login, the branch, the loss of the controller, setExitStatus() and the wait
\* for the job set it; only a ping starts over.
THEOREM ExitStaysBad == Spec => StaysBad
<1>1. IInv /\ [Next]_vars => [exit # "Ok" => exit' # "Ok" \/ kind = "again"]_vars
  BY StepStaysBad
<1> QED
  BY <1>1, Invariance, PTL DEF Spec, StaysBad
=============================================================================
