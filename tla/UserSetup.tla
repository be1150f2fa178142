------------------------------ MODULE UserSetup ------------------------------
(***************************************************************************)
(* Runs of the s9s program that share the files of one UNIX user: the      *)
(* configuration file, the state file and the key files.  Each run reads   *)
(* the configuration and the state, logs in if it can and then either      *)
(* lists something or creates a user account, through the controller's     *)
(* named pipe when it can not log in and with a request when it can.       *)
(*                                                                         *)
(* A file is written in place: it is empty between its opening and the     *)
(* write, nothing is locked, a write may fail, with a part of the text in  *)
(* the file, and a run may be killed at any step.  The command line always *)
(* names the controller, and there is no system configuration.             *)
(***************************************************************************)
EXTENDS ConfigFile

CONSTANTS
    Run,        \* runs that may be alive at the same time
    User,       \* names of users; a user's password goes by the same name
    None,       \* no user
    Url,        \* controllers
    OldAt,      \* those that run a version up to 1.4.2
    Follower,   \* those that may send a run to the leader instead of answering
    Command,    \* the command lines that are given
    Name,       \* the names of sections and variables in the configuration
    Config,     \* what the configuration file may hold at first, <<>>: no file
    Known,      \* the redirects that earlier runs left in the state file
    Enrolled,   \* users that have an account at first, with their password
    MaxRuns,    \* bound: runs that are started
    MaxKeys     \* bound: key pairs that are generated

\* A command line: "create" makes the user `user', "list" only asks; `as' is
\* --cmon-user and `password' --password (None: not given), `gen' --generate-key
\* and `secret' --new-password, `url' the controller.
CommandLine ==
    [kind : {"create", "list"}, user : User \cup {None}, as : User \cup {None},
     password : User \cup {None}, gen : BOOLEAN, secret : BOOLEAN, url : Url]

ASSUME UserSetupAssumption ==
    /\ OldAt \subseteq Url /\ Follower \subseteq Url /\ Url # {} /\ "garbled" \notin Url
    /\ Known \subseteq Url /\ Enrolled \subseteq User /\ None \notin User
    /\ Command \subseteq CommandLine /\ Config \subseteq Seq(Node(Name, User \cup Url))
    /\ {"global", "cmon_user", "cmon_password", "controller"} \subseteq Name
    /\ MaxRuns \in Nat /\ MaxKeys \in Nat

VARIABLES
    conf,       \* ~/.s9s/s9s.conf: whether it is there and its nodes
    state,      \* ~/.s9s/s9s.state: the redirects it holds
    priv,       \* ~/.s9s/<user>.key, by user: a pair, NoFile or Empty
    pub,        \* ~/.s9s/<user>.pub, by user: the same, or the key of a pair cut short
    account,    \* the accounts of the controller
    fifo,       \* requests in the pipe the controller has not taken yet
    pc,         \* what each run does next
    run,        \* what each run keeps in its memory
    runs,       \* runs started
    pairs,      \* key pairs generated
    torn,       \* what a failed, cut or overlapped write may have broken
    settings,   \* what the configuration has been known to hold
    redirects   \* what the state file has been known to hold

files == <<conf, state, priv, pub>>
controller == <<account, fifo>>
counters == <<runs, pairs>>
history == <<torn, settings, redirects>>
vars == <<files, controller, pc, run, counters, history>>

-----------------------------------------------------------------------------
\* The files.

NoFile == 0                    \* there is no such file
Empty == MaxKeys + 1           \* a file without a key: it was opened, never written
Pair == 1..MaxKeys

\* What a short write of a public key leaves: a text that is not empty, which
\* nobody on this side looks into.  (A private key that is cut does not load: its
\* file is Empty.)
CutKey(pair) == Empty + pair

\* The pair of which a public key file holds the key, or the first part of it.
PairOf(file) == IF file > Empty THEN file - Empty ELSE file

Garbled == {"garbled"}         \* a state file that does not parse
NoAccount == [there |-> FALSE, key |-> NoFile, password |-> FALSE]

\* What a write leaves when another run has written the file since it was
\* opened: the new text, and what sticks out behind it if the old one is longer,
\* which begins with a new line or in the middle of one.
Overwritten(text, old) ==
    {text} \cup IF old = <<>> \/ old = text THEN {}
                ELSE {Append(text, Broken)}
                     \cup {text \o SubSeq(old, i, Len(old)) : i \in Places(old, "newLine")}

OverwrittenState(urls, old) ==
    IF old \subseteq urls THEN {urls} ELSE {urls, Garbled}

\* What a write that fails leaves: some of the lines, the last one whole or not;
\* an assignment that ends at its sign is one to the empty value.
Cut(text) ==
    LET ends == ({0} \cup Places(text, "newLine")) \ {Len(text)}
    IN  {text} \cup {SubSeq(text, 1, i) : i \in ends}
               \cup {Append(SubSeq(text, 1, i), Broken) : i \in ends}
               \cup {Append(SubSeq(text, 1, i - 1), Assignment(text[i].name, NoValue)) :
                       i \in Places(text, "assignment")}

-----------------------------------------------------------------------------
\* The options of a run.

NoRun ==
    [cmd |-> [kind |-> "list", user |-> None, as |-> None, password |-> None,
              gen |-> FALSE, secret |-> FALSE, url |-> CHOOSE u \in Url : TRUE],
     name |-> NoValue, word |-> NoValue, state |-> {}, edit |-> <<>>, key |-> NoFile, public |-> NoFile,
     through |-> "none", authenticated |-> FALSE, redirected |-> FALSE, back |-> "login",
     saved |-> FALSE, asked |-> FALSE,
     exit |-> "ok", readText |-> <<>>, readState |-> {}, readKey |-> NoFile]

\* --cmon-user wins over the name in the configuration.
userName(r) ==
    IF r.cmd.as # None THEN r.cmd.as ELSE IF r.name \in User THEN r.name ELSE None

\* A configured password belongs to the configured name, and is used with any.
password(r) ==
    IF r.cmd.password # None THEN r.cmd.password
    ELSE IF r.name # NoValue /\ r.word # NoValue THEN r.word ELSE None

hasPrivateKey(r) == userName(r) # None /\ priv[userName(r)] # NoFile

canAuthenticate(r) == userName(r) # None /\ (password(r) # None \/ hasPrivateKey(r))

needToAuthenticate(r) == r.cmd.kind # "create"

\* What the controller says of the credentials: the password goes first.
Accepted(r) ==
    LET a == account[userName(r)]
    IN  /\ a.there
        /\ IF password(r) # None THEN a.password /\ password(r) = userName(r)
           ELSE a.key = priv[userName(r)]

-----------------------------------------------------------------------------
At(p, place) == pc[p] = place
Go(p, place) == pc' = [pc EXCEPT ![p] = place]
Set(p, r) == run' = [run EXCEPT ![p] = r]

\* What is left to say of a run: its local variables are gone.
Ended(r) ==
    [NoRun EXCEPT !.cmd = r.cmd, !.name = r.name, !.through = r.through, !.saved = r.saved,
                  !.asked = r.asked, !.exit = r.exit]

\* The run leaves with the exit status it has, or with a new one.
Leave(p) == Go(p, "done") /\ Set(p, Ended(run[p]))
LeaveWith(p, status) == Go(p, "done") /\ Set(p, [Ended(run[p]) EXCEPT !.exit = status])
LeaveAsked(p, status) ==
    Go(p, "done") /\ Set(p, [Ended(run[p]) EXCEPT !.asked = TRUE, !.exit = status])

\* Another run has opened the file and not written it yet.
Open(p, place) == \E q \in Run \ {p} : At(q, place)

Tear(what, when) == torn' = IF when THEN torn \cup {what} ELSE torn

Init ==
    /\ \E text \in Config :
          /\ conf = [there |-> text # <<>>, text |-> text]
          /\ settings = SettingsOf(text)
    /\ state = Known /\ redirects = Known
    /\ priv = [u \in User |-> NoFile] /\ pub = [u \in User |-> NoFile]
    /\ account = [u \in User |->
                    IF u \in Enrolled THEN [there |-> TRUE, key |-> NoFile, password |-> TRUE]
                    ELSE NoAccount]
    /\ fifo = <<>>
    /\ pc = [p \in Run |-> "idle"] /\ run = [p \in Run |-> NoRun]
    /\ runs = 0 /\ pairs = 0 /\ torn = {}

-----------------------------------------------------------------------------
\* main(): the template of the configuration is written when there is no file,
\* then the configuration and the state are read.

Start(p) ==
    /\ At(p, "idle") /\ runs < MaxRuns
    /\ runs' = runs + 1
    /\ \E cmd \in Command : Set(p, [NoRun EXCEPT !.cmd = cmd])
    /\ Go(p, IF conf.there THEN "loadConfig" ELSE "template")
    /\ UNCHANGED <<files, controller, pairs, history>>

\* The template has a section, and everything else in it is commented out.
Template == <<Section("global"), NewLine, Comment, NewLine>>

\* Mistake: the template goes to a file of another name.
TemplateElsewhere(p) ==
    /\ At(p, "fillTemplate")
    /\ conf' = [there |-> FALSE, text |-> conf.text \o Template]
    /\ Go(p, "loadConfig")
    /\ UNCHANGED <<state, priv, pub, controller, run, counters, history>>

\* The file is opened with the first line, unless its directory can not be made.
createConfigFiles(p) ==
    /\ At(p, "template")
    /\ \/ conf' = [conf EXCEPT !.there = TRUE] /\ Go(p, "fillTemplate")
       \/ UNCHANGED conf /\ Go(p, "loadConfig")
    /\ UNCHANGED <<state, priv, pub, controller, run, counters, history>>

\* The lines are appended when the file is closed, if that does not fail.
TemplateFlushed(p) ==
    /\ At(p, "fillTemplate")
    /\ \E part \in Cut(Template) :
          /\ conf' = [conf EXCEPT !.text = @ \o part]
          /\ Tear("conf", part # Template \/ Open(p, "saveConfig"))
    /\ Go(p, "loadConfig")
    /\ UNCHANGED <<state, priv, pub, controller, run, counters, settings, redirects>>

\* Of a file that does not parse what comes before the error counts, of one
\* that can not be read nothing.
loadConfigFiles(p) ==
    /\ At(p, "loadConfig")
    /\ \E config \in {Parsed(conf.text), <<>>} :
          Set(p, [run[p] EXCEPT !.name = variableValue(config, "cmon_user"),
                                !.word = variableValue(config, "cmon_password")])
    /\ Go(p, "loadState")
    /\ UNCHANGED <<files, controller, counters, history>>

\* Mistake: the state file is not read at the start.
StateIsNotRead(p) ==
    /\ At(p, "loadState")
    /\ Set(p, [run[p] EXCEPT !.readState = state])
    /\ Tear("state", Open(p, "saveState"))
    /\ Go(p, "login")
    /\ UNCHANGED <<files, controller, counters, settings, redirects>>

\* A state file that does not parse counts as none.
loadStateFile(p) ==
    /\ At(p, "loadState")
    /\ Set(p, [run[p] EXCEPT !.state = state \ Garbled, !.readState = state])
    /\ Tear("state", Open(p, "saveState"))
    /\ Go(p, "login")
    /\ UNCHANGED <<files, controller, counters, settings, redirects>>

-----------------------------------------------------------------------------
\* execute(): the run logs in if it can.  A controller may send it to the
\* leader; the list of the controllers then goes to the state file.

\* The run can not log in: a creation goes on, anything else is refused.
GoWithoutLogin(p) ==
    /\ At(p, "login") /\ ~canAuthenticate(run[p])
    /\ IF needToAuthenticate(run[p]) THEN LeaveWith(p, "badOptions")
       ELSE Go(p, "choose") /\ UNCHANGED run
    /\ UNCHANGED <<files, controller, counters, history>>

\* The private key is loaded before anything is sent.
KeyIsRead(r) == password(r) # None \/ priv[userName(r)] \in Pair

maybeAuthenticate(p) ==
    /\ At(p, "login") /\ canAuthenticate(run[p])
    /\ IF ~KeyIsRead(run[p]) THEN LeaveWith(p, "badOptions")
       ELSE \/ LeaveWith(p, "connectionError")
            \/ ~Accepted(run[p]) /\ LeaveWith(p, "accessDenied")
            \/ /\ Accepted(run[p])
               /\ IF run[p].cmd.kind # "create" THEN Leave(p)
                  ELSE Go(p, "choose") /\ Set(p, [run[p] EXCEPT !.authenticated = TRUE])
    /\ UNCHANGED <<files, controller, counters, history>>

\* Any request to a follower may be answered with a redirect (once in a run: a
\* bound).
Requests(p) ==
    \/ At(p, "login") /\ canAuthenticate(run[p]) /\ KeyIsRead(run[p])
    \/ At(p, "version")
    \/ At(p, "send") /\ run[p].through = "rpc"

Redirect(p) ==
    /\ Requests(p) /\ run[p].cmd.url \in Follower /\ ~run[p].redirected
    /\ Set(p, [run[p] EXCEPT !.redirected = TRUE, !.back = pc[p],
                             !.state = @ \cup {run[p].cmd.url}])
    /\ Go(p, "openState")
    /\ UNCHANGED <<files, controller, counters, history>>

\* writeStateFile(): the file becomes what this run has in its memory.
writeStateFile(p) ==
    /\ At(p, "openState") /\ Go(p, "saveState")
    /\ state' = {}
    /\ Tear("state", Open(p, "saveState") \/ state # run[p].readState)
    /\ UNCHANGED <<conf, priv, pub, controller, run, counters, settings, redirects>>

StateWritten(p) ==
    /\ At(p, "saveState") /\ Go(p, run[p].back)
    /\ \/ /\ state' \in OverwrittenState(run[p].state, state)
          /\ redirects' = redirects \cup run[p].state
          /\ UNCHANGED torn
       \/ /\ state' \in {state, run[p].state, Garbled}
          /\ Tear("state", TRUE) /\ UNCHANGED redirects
    /\ UNCHANGED <<conf, priv, pub, controller, run, counters, settings>>

-----------------------------------------------------------------------------
\* executeCreateUser(): both ways begin with the configuration and the key.

\* Whether the run could log in is asked once more: a key file that another run
\* has made since leads it to a request without a session.
executeCreateUser(p) ==
    /\ At(p, "choose")
    /\ IF canAuthenticate(run[p])
       THEN Go(p, "parse") /\ Set(p, [run[p] EXCEPT !.through = "rpc"])
       ELSE Go(p, "version") /\ UNCHANGED run
    /\ UNCHANGED <<files, controller, counters, history>>

\* detectVersion() leaves its exit status when nobody answers.
detectVersion(p) ==
    /\ At(p, "version") /\ Go(p, "parse")
    /\ \/ Set(p, [run[p] EXCEPT !.through = IF run[p].cmd.url \in OldAt THEN "oldPipe" ELSE "pipe"])
       \/ Set(p, [run[p] EXCEPT !.through = "pipe", !.exit = "connectionError"])
    /\ UNCHANGED <<files, controller, counters, history>>

\* Mistake: only [global] is looked at.
SetIfNotInGlobal(text, name, value) ==
    IF hasVariable(text, "global", name) THEN text
    ELSE setVariable(text, "global", name, value)

\* A variable the file has, at its top or in [global], is left alone.
SetIfMissing(text, name, value) ==
    IF hasVariable(text, "global", name) \/ hasVariable(text, NoSection, name) THEN text
    ELSE setVariable(text, "global", name, value)

\* A file that can not be read counts as empty, one that does not parse ends
\* the run with the exit status it has.
parseSourceFile(p) ==
    /\ At(p, "parse")
    /\ \/ run[p].cmd.user = None /\ LeaveWith(p, "badOptions")
       \/ /\ run[p].cmd.user # None
          /\ \E text \in {conf.text, <<>>} :
                IF Parses(text)
                THEN LET named == SetIfMissing(text, "cmon_user", run[p].cmd.user)
                     IN  /\ Set(p, [run[p] EXCEPT !.readText = text,
                                      !.edit = SetIfMissing(named, "controller", run[p].cmd.url)])
                         /\ Go(p, "openConfig")
                ELSE Leave(p)
    /\ Tear("conf", Open(p, "saveConfig"))
    /\ UNCHANGED <<files, controller, counters, settings, redirects>>

OpenToSave(p) ==
    /\ At(p, "openConfig")
    /\ \/ /\ conf' = [there |-> TRUE, text |-> <<>>]
          /\ Tear("conf", Open(p, "saveConfig") \/ conf.text # run[p].readText)
          /\ Go(p, "saveConfig") /\ UNCHANGED run
       \/ Leave(p) /\ UNCHANGED <<conf, torn>>
    /\ UNCHANGED <<state, priv, pub, controller, counters, settings, redirects>>

save(p) ==
    /\ At(p, "saveConfig")
    /\ \/ /\ \E text \in Overwritten(run[p].edit, conf.text) : conf' = [conf EXCEPT !.text = text]
          /\ settings' = settings \cup SettingsOf(run[p].edit)
          /\ Set(p, [run[p] EXCEPT !.saved = TRUE, !.edit = <<>>, !.readText = <<>>])
          /\ Go(p, "checkKey") /\ UNCHANGED torn
       \/ /\ \E text \in Cut(run[p].edit) : conf' = [conf EXCEPT !.text = text]
          /\ Leave(p) /\ Tear("conf", TRUE) /\ UNCHANGED settings
    /\ UNCHANGED <<state, priv, pub, controller, counters, redirects>>

-----------------------------------------------------------------------------
\* ensureHasAuthKey() for the user to be created.

Owner(p) == run[p].cmd.user

\* Mistake: a pair is generated whenever one is asked for.
AlwaysNeedsPair(p) == run[p].cmd.gen

\* A pair is generated when one is asked for and the private key is not there
\* or not valid; when that fails the key is tried all the same.
NeedsPair(p) == run[p].cmd.gen /\ priv[Owner(p)] \notin Pair

generateKeyPair(p) ==
    /\ At(p, "checkKey")
    /\ \/ /\ NeedsPair(p) /\ pairs < MaxKeys
          /\ pairs' = pairs + 1
          /\ Set(p, [run[p] EXCEPT !.key = pairs', !.readKey = priv[Owner(p)]])
          /\ Go(p, "savePrivate")
       \/ Go(p, "loadKey") /\ UNCHANGED <<run, pairs>>
    /\ UNCHANGED <<files, controller, runs, history>>

\* The pair is a local variable.
KeyForgotten(r) == [r EXCEPT !.key = NoFile, !.readKey = NoFile]

\* A private key file that is opened and not written, or not all of it, holds no
\* key; a failure to close it comes after the key.
savePrivateKey(p) ==
    /\ At(p, "savePrivate")
    /\ \/ priv' = [priv EXCEPT ![Owner(p)] = run[p].key] /\ Go(p, "savePublic") /\ UNCHANGED run
       \/ /\ \E left \in {run[p].key, priv[Owner(p)], Empty} :
                priv' = [priv EXCEPT ![Owner(p)] = left]
          /\ Go(p, "loadKey") /\ Set(p, KeyForgotten(run[p]))
    /\ Tear("keys", priv[Owner(p)] # run[p].readKey)
    /\ UNCHANGED <<conf, state, pub, controller, counters, settings, redirects>>

\* A failure is printed, and the public key that is left is used all the same.
savePublicKey(p) ==
    /\ At(p, "savePublic") /\ Go(p, "loadKey") /\ Set(p, KeyForgotten(run[p]))
    /\ \E left \in {run[p].key, pub[Owner(p)], Empty, CutKey(run[p].key)} :
          /\ pub' = [pub EXCEPT ![Owner(p)] = left]
          /\ Tear("public", left = CutKey(run[p].key))
    /\ UNCHANGED <<conf, state, priv, controller, counters, settings, redirects>>

\* What ensureHasAuthKey() returns, and what each way makes of it: the private
\* key has to load, of the public one it is enough that there is some text.
HasAuthKey(p) == priv[Owner(p)] \in Pair /\ pub[Owner(p)] \notin {NoFile, Empty}

ensureHasAuthKey(p) ==
    /\ At(p, "loadKey")
    /\ \/ /\ HasAuthKey(p)
          /\ Set(p, [run[p] EXCEPT !.public = pub[Owner(p)]]) /\ Go(p, "send")
       \/ /\ ~HasAuthKey(p) /\ run[p].through = "rpc"
          /\ IF run[p].cmd.gen THEN LeaveWith(p, "failed") ELSE Go(p, "send") /\ UNCHANGED run
       \/ /\ ~HasAuthKey(p) /\ run[p].through # "rpc"
          /\ IF run[p].through = "oldPipe" \/ ~run[p].cmd.secret THEN LeaveWith(p, "failed")
             ELSE Leave(p)
    /\ UNCHANGED <<files, controller, counters, history>>

\* The account that is asked for; the old request has no password.
Asked(p) ==
    [user |-> Owner(p), key |-> run[p].public,
     password |-> run[p].cmd.secret /\ run[p].through # "oldPipe"]

\* Mistake: the exit status of the command is not looked at.
PipeFailsSilently(p) ==
    /\ At(p, "send") /\ run[p].through # "rpc"
    /\ \/ fifo' = Append(fifo, Asked(p)) /\ LeaveAsked(p, run[p].exit)
       \/ Leave(p) /\ UNCHANGED fifo
    /\ UNCHANGED <<files, account, counters, history>>

\* The command that writes to the pipe may fail, after the writing as well, and
\* says so.
executeCreateUserThroughPipe(p) ==
    /\ At(p, "send") /\ run[p].through # "rpc"
    /\ \/ /\ fifo' = Append(fifo, Asked(p))
          /\ \E status \in {run[p].exit, "jobFailed"} : LeaveAsked(p, status)
       \/ LeaveWith(p, "jobFailed") /\ UNCHANGED fifo
    /\ UNCHANGED <<files, account, counters, history>>

\* An account is made of a request, unless there is one.
Created(request) ==
    account' = [account EXCEPT ![request.user] =
                  [there |-> TRUE, key |-> request.key, password |-> request.password]]

\* The request is answered, refused, or its answer is lost.
executeCreateUserThroughRpc(p) ==
    /\ At(p, "send") /\ run[p].through = "rpc"
    /\ \/ /\ run[p].authenticated /\ ~account[Owner(p)].there /\ Created(Asked(p))
          /\ \E status \in {run[p].exit, "failed"} : LeaveAsked(p, status)
       \/ \E status \in {"failed", "accessDenied"} : LeaveWith(p, status) /\ UNCHANGED account
    /\ UNCHANGED <<files, fifo, counters, history>>

\* The controller takes a request from its pipe when it gets to it.
ControllerTakes ==
    /\ fifo # <<>> /\ fifo' = Tail(fifo)
    /\ IF account[Head(fifo).user].there THEN UNCHANGED account ELSE Created(Head(fifo))
    /\ UNCHANGED <<files, pc, run, counters, history>>

-----------------------------------------------------------------------------
Exit(p) ==
    /\ At(p, "done") /\ Go(p, "idle") /\ Set(p, NoRun)
    /\ UNCHANGED <<files, controller, counters, history>>

\* A run may be killed anywhere: what it had opened stays as it is, and a key
\* file may have been opened, or written in part.
Kill(p) ==
    /\ pc[p] \notin {"idle", "done"} /\ Go(p, "idle") /\ Set(p, NoRun)
    /\ \/ UNCHANGED <<priv, pub>>
       \/ At(p, "savePrivate") /\ priv' = [priv EXCEPT ![Owner(p)] = Empty] /\ UNCHANGED pub
       \/ /\ At(p, "savePublic") /\ UNCHANGED priv
          /\ \E left \in {Empty, CutKey(run[p].key)} : pub' = [pub EXCEPT ![Owner(p)] = left]
    /\ torn' = torn \cup (IF At(p, "saveConfig") THEN {"conf"} ELSE {})
                    \cup (IF At(p, "saveState") THEN {"state"} ELSE {})
                    \cup (IF At(p, "savePrivate") /\ priv[Owner(p)] # run[p].readKey
                          THEN {"keys"} ELSE {})
                    \cup (IF At(p, "savePublic") /\ pub'[Owner(p)] = CutKey(run[p].key)
                          THEN {"public"} ELSE {})
    /\ UNCHANGED <<conf, state, controller, counters, settings, redirects>>

Step(p) ==
    \/ Start(p) \/ createConfigFiles(p) \/ TemplateFlushed(p) \/ loadConfigFiles(p) \/ loadStateFile(p)
    \/ GoWithoutLogin(p) \/ maybeAuthenticate(p)
    \/ Redirect(p) \/ writeStateFile(p) \/ StateWritten(p)
    \/ executeCreateUser(p) \/ detectVersion(p) \/ parseSourceFile(p) \/ OpenToSave(p) \/ save(p)
    \/ generateKeyPair(p) \/ savePrivateKey(p) \/ savePublicKey(p) \/ ensureHasAuthKey(p)
    \/ executeCreateUserThroughPipe(p) \/ executeCreateUserThroughRpc(p)
    \/ Exit(p) \/ Kill(p)

Next == ControllerTakes \/ \E p \in Run : Step(p)

Spec == Init /\ [][Next]_vars

-----------------------------------------------------------------------------
Place == {"idle", "template", "fillTemplate", "loadConfig", "loadState", "login", "openState",
          "saveState", "choose", "version", "parse", "openConfig", "saveConfig", "checkKey", "savePrivate",
          "savePublic", "loadKey", "send", "done"}
ExitStatus == {"ok", "failed", "badOptions", "accessDenied", "connectionError", "jobFailed"}
KeyFile == 0..(Empty + MaxKeys)
AccountRequest == [user : User, key : KeyFile, password : BOOLEAN]

\* Every variable has the values it is meant to have.
TypeOK ==
    /\ conf \in [there : BOOLEAN, text : Seq(Node(Name, User \cup Url))]
    /\ ~conf.there => conf.text = <<>>
    /\ state \subseteq Url \cup Garbled
    /\ priv \in [User -> KeyFile] /\ pub \in [User -> KeyFile]
    /\ account \in [User -> [there : BOOLEAN, key : KeyFile, password : BOOLEAN]]
    /\ \A i \in DOMAIN fifo : fifo[i] \in AccountRequest
    /\ pc \in [Run -> Place]
    /\ \A p \in Run : /\ run[p].cmd \in Command \cup {NoRun.cmd}
                      /\ run[p].state \subseteq Url
                      /\ run[p].through \in {"none", "rpc", "pipe", "oldPipe"}
                      /\ run[p].exit \in ExitStatus
    /\ runs \in 0..MaxRuns /\ pairs \in 0..MaxKeys
    /\ torn \subseteq {"conf", "state", "keys", "public"} /\ redirects \subseteq Url

\* Nothing that the configuration was known to say is ever lost or changed by
\* the creation of a user, killed or failed runs included, unless a write of
\* the file itself was cut short or overlapped with another run's.
SettingsSurvive ==
    "conf" \notin torn /\ ~(\E p \in Run : At(p, "saveConfig"))
        => settings \subseteq SettingsOf(conf.text)

\* A redirect that was saved is not forgotten by a run that saves another one,
\* unless its copy of the state had become stale or a write was cut short.
RedirectsSurvive ==
    "state" \notin torn /\ ~(\E p \in Run : At(p, "saveState")) => redirects \subseteq state

\* However often a creation is repeated, failed or killed, the key that the
\* controller has, or will take, for a user is the text of the user's public key
\* file, and that text is of the pair whose private key the user has, unless two
\* runs have generated a pair for the same user at once.  It is the whole key
\* unless a write of a public key was cut short: what is left of that one is
\* registered, and never made whole, for the private key beside it is valid.
RegisteredKeyIsOnDisk ==
    "keys" \notin torn =>
        \A registered \in {<<u, account[u].key>> : u \in User} \cup
                           {<<fifo[i].user, fifo[i].key>> : i \in DOMAIN fifo} :
            LET u == registered[1]
                key == registered[2]
            IN  key # NoFile => /\ key = pub[u] /\ PairOf(key) = priv[u]
                                /\ "public" \notin torn => key \in Pair

\* A creation that has saved the configuration does not end with the exit
\* status 0 when nothing was asked of the controller.  (It does if the user is
\* to have a password and the pipe of a new controller is used: without a valid
\* key nothing is sent, and nothing is reported.)
AskedOrReported ==
    \A p \in Run :
        /\ At(p, "done") /\ run[p].cmd.kind = "create" /\ run[p].saved
        /\ ~(run[p].through = "pipe" /\ run[p].cmd.secret)
        => run[p].asked \/ run[p].exit # "ok"

\* doc/s9s-user.1: the pipe is the way to create the first user, when nobody
\* can be authenticated yet; the name is not that of the user to be created.
\* So a creation is not refused because of the user it is to create.
NotRefusedForItself ==
    \A p \in Run :
        /\ At(p, "done") /\ run[p].cmd.kind = "create" /\ run[p].through = "none"
        /\ run[p].exit = "accessDenied" /\ fifo = <<>>
        => userName(run[p]) # run[p].cmd.user
=============================================================================
