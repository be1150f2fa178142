--------------------------- MODULE UserSetupProofs ---------------------------
(***************************************************************************)
(* Proofs about UserSetup for any number of runs, users, controllers and   *)
(* command lines, and whatever the configuration files hold: which settings *)
(* and redirects are kept, which key is registered and which exit status   *)
(* is left when every write may fail, every run may be killed and all of   *)
(* them share the files.                                                   *)
(***************************************************************************)
EXTENDS UserSetup, ConfigFileProofs

USE DEF files, controller, counters, history, At

Fields == {"cmd", "name", "word", "state", "edit", "key", "public", "through", "authenticated",
           "redirected", "back", "saved", "asked", "exit", "readText", "readState", "readKey"}
Text == Seq(Node(Name, User \cup Url))

\* Only a creation comes to these places, a run that writes the redirects goes
\* on where it was.
Saved    == {"checkKey", "savePrivate", "savePublic", "loadKey", "send"}
Editing  == {"openConfig", "saveConfig"}
Creating == {"parse"} \cup Editing \cup Saved
Doing(place, r) == IF place \in {"openState", "saveState"} THEN r.back ELSE place

\* What a run has in its memory when it comes to a place: the fields of a run,
\* with the values they can have; a user and a way to the controller if it
\* creates one; all the redirects it has read; an edited configuration that
\* says everything the one that was read did; and a bad exit status if it gave
\* up.
RunOK(place, r) ==
    /\ place \in Place /\ DOMAIN r = Fields /\ r.back \in {"login", "version", "send"}
    /\ r.cmd \in Command \cup {NoRun.cmd}
    /\ r.state \subseteq Url /\ r.readState \ Garbled \subseteq r.state
    /\ r.through \in {"none", "rpc", "pipe", "oldPipe"} /\ r.exit \in ExitStatus
    /\ r.key \in {NoFile} \cup Pair /\ r.public \in KeyFile
    /\ r.readText \in Text /\ r.edit \in Text
    /\ place \in Editing => SettingsOf(r.readText) \subseteq SettingsOf(r.edit)
    /\ Doing(place, r) \in Creating \cup {"version", "choose"}
          => r.cmd \in Command /\ r.cmd.kind = "create"
    /\ Doing(place, r) \in Editing \cup Saved => r.cmd.user \in User
    /\ Doing(place, r) \in Creating => r.through # "none"
    /\ r.saved \in BOOLEAN /\ (r.saved => Doing(place, r) \in Saved \cup {"done"})
    /\ place = "done" /\ r.cmd.kind = "create" /\ r.saved
           /\ ~(r.through = "pipe" /\ r.cmd.secret)
          => r.asked = TRUE \/ r.exit # "ok"
RunInv ==
    /\ DOMAIN pc = Run /\ pc = [p \in Run |-> pc[p]] /\ DOMAIN run = Run
    /\ \A p \in Run : RunOK(pc[p], run[p])

\* The files and the accounts hold what they can hold.
ConfInv ==
    /\ conf \in [there : BOOLEAN, text : Text]
    /\ ~conf.there => conf.text = <<>>
    /\ \A p \in Run : At(p, "saveConfig") \/ At(p, "fillTemplate") => conf.there
StateTypes == state \subseteq Url \cup Garbled /\ redirects \subseteq Url
KeyTypes   == priv \in [User -> KeyFile] /\ pub \in [User -> KeyFile]
AccountTypes ==
    /\ account \in [User -> [there : BOOLEAN, key : KeyFile, password : BOOLEAN]]
    /\ fifo \in Seq(AccountRequest)
CountInv ==
    runs \in 0..MaxRuns /\ pairs \in 0..MaxKeys /\ torn \subseteq {"conf", "state", "keys", "public"}
FileInv == ConfInv /\ StateTypes /\ KeyTypes /\ AccountTypes /\ CountInv

\* A public key file that has some text has the key of the pair whose private
\* key is beside it, or the first part of that key if a write was cut short.
HasPublic(u) == pub[u] \notin {NoFile, Empty}
PublicInv ==
    \A u \in User : HasPublic(u) => /\ priv[u] = PairOf(pub[u])
                                    /\ "public" \notin torn => pub[u] \in Pair

\* A valid private key is never replaced, a public one is written by one run at
\* most and only where there is none, and what is on its way to the controller
\* is the text of the user's public key file.
Sent(u, key) == key # NoFile => u \in User /\ HasPublic(u) /\ key = pub[u]
KeyOK(place, r) ==
    /\ place = "savePrivate" => r.readKey \notin Pair /\ r.key \in Pair
    /\ place = "savePublic" =>
          r.key \in Pair /\ priv[r.cmd.user] = r.key /\ ~HasPublic(r.cmd.user)
    /\ Sent(r.cmd.user, r.public)
AloneInv ==
    \A p, q \in Run :
        At(p, "savePublic") /\ At(q, "savePublic") /\ Owner(p) = Owner(q) => p = q
MovingInv == AloneInv /\ \A p \in Run : KeyOK(pc[p], run[p])
RegisteredInv ==
    /\ \A u \in User : Sent(u, account[u].key)
    /\ \A i \in DOMAIN fifo : Sent(fifo[i].user, fifo[i].key)
KeyInv == "keys" \notin torn => PublicInv /\ MovingInv /\ RegisteredInv

\* As long as nothing is torn one run at most has the state file open, and it
\* is about to write every redirect.
StateInv ==
    "state" \notin torn =>
       \/ redirects \subseteq state /\ \A p \in Run : ~At(p, "saveState")
       \/ \E p \in Run : /\ At(p, "saveState") /\ \A q \in Run : At(q, "saveState") => q = p
                         /\ redirects \subseteq run[p].state /\ state = {}

\* The same of the configuration: what it was known to say is in the file or
\* on its way to it.
SettingInv ==
    "conf" \notin torn =>
       \/ settings \subseteq SettingsOf(conf.text) /\ \A p \in Run : ~At(p, "saveConfig")
       \/ \E p \in Run : /\ At(p, "saveConfig") /\ \A q \in Run : At(q, "saveConfig") => q = p
                         /\ settings \subseteq SettingsOf(run[p].edit) /\ conf.text = <<>>

IInv == RunInv /\ FileInv /\ KeyInv /\ StateInv /\ SettingInv

-----------------------------------------------------------------------------
(* Texts *)

LEMMA TemplateText == ASSUME UserSetupAssumption PROVE Template \in Text
<1> DEFINE S == Node(Name, User \cup Url)
<1>1. Section("global") \in S /\ NewLine \in S /\ Comment \in S
  BY DEF Section, NewLine, Comment, Node, UserSetupAssumption
<1> HIDE DEF S
<1>2. <<Section("global"), NewLine, Comment, NewLine>> \in Seq(S)
  BY <1>1
<1> QED
  BY <1>2 DEF Template, Text, S

LEMMA PrefixText ==
    ASSUME NEW text \in Text, NEW i \in 0..Len(text) PROVE SubSeq(text, 1, i) \in Text
<1> DEFINE S == Node(Name, User \cup Url)
<1>1. \A j \in 1..Len(text) : text[j] \in S
  BY ElementOfSeq DEF Text
<1>2. Len(text) \in Nat
  BY LenProperties DEF Text
<1> HIDE DEF S
<1>3. \A j \in 1..i : text[j] \in S
  BY <1>1, <1>2
<1>4. SubSeq(text, 1, i) \in Seq(S)
  BY <1>2, <1>3, SubSeqProperties
<1> QED
  BY <1>4 DEF Text, S

LEMMA BrokenText ==
    /\ Broken \in Node(Name, User \cup Url)
    /\ \A text \in Text : Append(text, Broken) \in Text
<1>1. Broken \in Node(Name, User \cup Url)
  BY DEF Broken, Node
<1>2. ASSUME NEW text \in Text PROVE Append(text, Broken) \in Text
  <2> DEFINE S == Node(Name, User \cup Url)
  <2>1. text \in Seq(S) /\ Broken \in S
    BY <1>1 DEF Text
  <2> HIDE DEF S
  <2>2. Append(text, Broken) \in Seq(S)
    BY <2>1, AppendProperties
  <2> QED
    BY <2>2 DEF Text, S
<1> QED
  BY <1>1, <1>2

\* What a failed write leaves is a text.
LEMMA CutText == ASSUME NEW text \in Text PROVE Cut(text) \subseteq Text
<1>1. DOMAIN text = 1..Len(text) /\ Len(text) \in Nat
  BY LenProperties DEF Text
<1>2. \A i \in {0} \cup Places(text, "newLine") :
         SubSeq(text, 1, i) \in Text /\ Append(SubSeq(text, 1, i), Broken) \in Text
  <2> TAKE i \in {0} \cup Places(text, "newLine")
  <2>1. i \in 0..Len(text)
    BY <1>1 DEF Places
  <2> QED
    BY <2>1, PrefixText, BrokenText
<1>3. \A i \in Places(text, "assignment") :
         Append(SubSeq(text, 1, i - 1), Assignment(text[i].name, NoValue)) \in Text
  <2> TAKE i \in Places(text, "assignment")
  <2>1. i \in 1..Len(text) /\ i - 1 \in 0..Len(text)
    BY <1>1 DEF Places
  <2>2. text[i] \in Node(Name, User \cup Url)
    BY <2>1, ElementOfSeq DEF Text
  <2>3. Assignment(text[i].name, NoValue) \in Node(Name, User \cup Url)
    BY <2>2 DEF Assignment, Node
  <2>4. SubSeq(text, 1, i - 1) \in Text
    BY <2>1, PrefixText
  <2> QED
    BY <2>3, <2>4, AppendProperties DEF Text
<1> QED
  BY <1>2, <1>3 DEF Cut

\* And so is what a write over an other one leaves.
LEMMA OverwrittenText ==
    ASSUME NEW text \in Text, NEW old \in Text
    PROVE  Overwritten(text, old) \subseteq Text /\ Overwritten(text, <<>>) = {text}
<1>1. DOMAIN old = 1..Len(old) /\ Len(old) \in Nat
  BY LenProperties DEF Text
<1>2. \A i \in Places(old, "newLine") : text \o SubSeq(old, i, Len(old)) \in Text
  <2> TAKE i \in Places(old, "newLine")
  <2> DEFINE S == Node(Name, User \cup Url)
  <2>1. i \in 1..Len(old) /\ \A j \in i..Len(old) : old[j] \in S
    BY <1>1, ElementOfSeq DEF Places, Text
  <2> HIDE DEF S
  <2>2. SubSeq(old, i, Len(old)) \in Seq(S)
    BY <1>1, <2>1, SubSeqProperties
  <2>3. text \in Seq(S)
    BY DEF Text, S
  <2>4. text \o SubSeq(old, i, Len(old)) \in Seq(S)
    BY <2>2, <2>3, ConcatProperties
  <2> QED
    BY <2>4 DEF Text, S
<1>3. Overwritten(text, old) \subseteq Text
  BY <1>2, BrokenText DEF Overwritten
<1> QED
  BY <1>3 DEF Overwritten

\* A creation names the user and the controller where they are missing, and
\* says again everything else that the file said.
LEMMA SetIfMissingKeeps ==
    ASSUME UserSetupAssumption, NEW text \in Text, NEW name \in Name, NEW value \in User \cup Url
    PROVE  /\ SetIfMissing(text, name, value) \in Text
           /\ SettingsOf(text) \subseteq SettingsOf(SetIfMissing(text, name, value))
<1>1. CASE hasVariable(text, "global", name) \/ hasVariable(text, NoSection, name)
  BY <1>1 DEF SetIfMissing
<1>2. CASE ~(hasVariable(text, "global", name) \/ hasVariable(text, NoSection, name))
  <2>1. SetIfMissing(text, name, value) = addVariable(text, "global", name, value)
    BY <1>2 DEF SetIfMissing, setVariable
  <2> DEFINE S == Node(Name, User \cup Url)
  <2>2. "global" \in Name
    BY DEF UserSetupAssumption
  <2>3. {NewLine, Section("global"), Assignment(name, value)} \subseteq S
    BY <2>2, NodesMade
  <2> HIDE DEF S
  <2>4. text \in Seq(S)
    BY DEF Text, S
  <2>5. /\ addVariable(text, "global", name, value) \in Seq(S)
        /\ SettingsOf(text) \subseteq SettingsOf(addVariable(text, "global", name, value))
    BY <2>3, <2>4, AddVariableKeeps DEF NoSection
  <2> QED
    BY <2>1, <2>5 DEF Text, S
<1> QED
  BY <1>1, <1>2

-----------------------------------------------------------------------------
(* Keys *)

\* What is left of a public key is neither a whole one nor nothing, and it is
\* known of which pair it is.
LEMMA CutKeys ==
    ASSUME UserSetupAssumption
    PROVE  /\ NoFile \in KeyFile /\ Empty \in KeyFile /\ Pair \subseteq KeyFile
           /\ NoFile \notin Pair /\ Empty \notin Pair
           /\ CutKey(NoFile) = Empty
           /\ \A pair \in Pair : /\ PairOf(pair) = pair /\ PairOf(CutKey(pair)) = pair
                                 /\ CutKey(pair) \in KeyFile \ ({NoFile, Empty} \cup Pair)
           /\ \A file \in KeyFile \ {NoFile, Empty} : PairOf(file) \in Pair
  BY DEF UserSetupAssumption, KeyFile, NoFile, Empty, Pair, PairOf, CutKey

\* Beside a public key that has some text there is a private key that loads.
LEMMA Published ==
    ASSUME UserSetupAssumption, KeyTypes, PublicInv, NEW u \in User, HasPublic(u)
    PROVE  priv[u] \in Pair
<1>1. pub[u] \in KeyFile \ {NoFile, Empty}
  BY DEF KeyTypes, HasPublic
<1> QED
  BY <1>1, CutKeys DEF PublicInv

-----------------------------------------------------------------------------
(* What a run has in its memory *)

LEMMA NoRunOK ==
    ASSUME UserSetupAssumption
    PROVE  /\ RunOK("idle", NoRun) /\ NoRun.public = NoFile
           /\ \A cmd \in Command : \A place \in {"loadConfig", "template"} :
                 RunOK(place, [NoRun EXCEPT !.cmd = cmd])
           /\ \A cmd \in Command : [NoRun EXCEPT !.cmd = cmd].public = NoFile
<1>1. NoFile \in KeyFile /\ <<>> \in Text
  <2>1. NoFile \in KeyFile
    BY CutKeys
  <2> QED
    BY <2>1 DEF Text
<1> QED
  BY <1>1 DEF RunOK, NoRun, Fields, Place, ExitStatus, Creating, Editing, Saved, Doing

\* What is left of a run that ends, with the exit status it had or another one.
LEMMA EndedOK ==
    ASSUME UserSetupAssumption, NEW place, NEW r, RunOK(place, r)
    PROVE  /\ \A status \in ExitStatus \ {"ok"} :
                 RunOK("done", [Ended(r) EXCEPT !.exit = status])
           /\ \A status \in ExitStatus :
                 RunOK("done", [Ended(r) EXCEPT !.asked = TRUE, !.exit = status])
           /\ ~r.saved \/ (r.through = "pipe" /\ r.cmd.secret) => RunOK("done", Ended(r))
           /\ Ended(r).public = NoFile
           /\ \A status : /\ [Ended(r) EXCEPT !.exit = status].public = NoFile
                          /\ [Ended(r) EXCEPT !.asked = TRUE, !.exit = status].public = NoFile
<1>1. NoFile \in KeyFile /\ <<>> \in Text
  <2>1. NoFile \in KeyFile
    BY CutKeys
  <2> QED
    BY <2>1 DEF Text
<1>2. /\ DOMAIN Ended(r) = Fields /\ Ended(r).back = "login" /\ Ended(r).cmd = r.cmd
      /\ Ended(r).state = {} /\ Ended(r).readState = {} /\ Ended(r).through = r.through
      /\ Ended(r).exit = r.exit /\ Ended(r).key = NoFile /\ Ended(r).public = NoFile
      /\ Ended(r).readText = <<>> /\ Ended(r).edit = <<>> /\ Ended(r).saved = r.saved
      /\ Ended(r).asked = r.asked
  BY DEF Ended, NoRun, Fields
<1> QED
  BY <1>1, <1>2 DEF RunOK, Fields, Place, ExitStatus, Creating, Editing, Saved, Doing

\* The step of one run leaves the others where they are.
LEMMA Frame ==
    ASSUME RunInv, NEW p \in Run, Step(p)
    PROVE  /\ \A q \in Run \ {p} : pc'[q] = pc[q] /\ run'[q] = run[q]
           /\ DOMAIN pc' = Run /\ pc' = [q \in Run |-> pc'[q]] /\ DOMAIN run' = Run
<1> USE DEF RunInv, Go, Set
<1>1. CASE Start(p) \/ createConfigFiles(p) \/ TemplateFlushed(p) \/ loadConfigFiles(p) \/
           loadStateFile(p)
  BY <1>1 DEF Start, createConfigFiles, TemplateFlushed, loadConfigFiles, loadStateFile
<1>2. CASE GoWithoutLogin(p) \/ maybeAuthenticate(p) \/ Redirect(p)
  BY <1>2 DEF GoWithoutLogin, maybeAuthenticate, Redirect, Leave, LeaveWith
<1>3. CASE writeStateFile(p) \/ StateWritten(p) \/ executeCreateUser(p) \/ detectVersion(p)
  BY <1>3 DEF writeStateFile, StateWritten, executeCreateUser, detectVersion
<1>4. CASE parseSourceFile(p) \/ OpenToSave(p) \/ save(p)
  BY <1>4 DEF parseSourceFile, OpenToSave, save, Leave, LeaveWith
<1>5. CASE generateKeyPair(p) \/ savePrivateKey(p) \/ savePublicKey(p) \/ ensureHasAuthKey(p)
  BY <1>5 DEF generateKeyPair, savePrivateKey, savePublicKey, ensureHasAuthKey, Leave, LeaveWith
<1>6. CASE executeCreateUserThroughPipe(p) \/ executeCreateUserThroughRpc(p)
  BY <1>6 DEF executeCreateUserThroughPipe, executeCreateUserThroughRpc, LeaveWith, LeaveAsked
<1>7. CASE Exit(p) \/ Kill(p)
  BY <1>7 DEF Exit, Kill
<1> QED
  BY <1>1, <1>2, <1>3, <1>4, <1>5, <1>6, <1>7 DEF Step

\* Each step moves one run to its next place, with what it keeps there.
LEMMA StepRun ==
    ASSUME UserSetupAssumption, IInv, NEW p \in Run, Step(p)
    PROVE  RunOK(pc'[p], run'[p])
<1> DEFINE r == run[p]
           r2 == run'[p]
<1>r. RunInv /\ KeyTypes /\ StateTypes /\ ConfInv /\ CountInv
  BY DEF IInv, FileInv
<1>a. RunOK(pc[p], r) /\ DOMAIN pc = Run /\ DOMAIN run = Run
  BY <1>r DEF RunInv
<1>b. pairs \in 0..MaxKeys /\ MaxKeys \in Nat
  BY <1>r DEF CountInv, UserSetupAssumption
<1>t. conf.text \in Text /\ <<>> \in Text
  BY <1>r DEF ConfInv, Text
<1>c. r.cmd.url \in Url /\ (r.cmd.kind = "create" => r.cmd \in Command)
  BY <1>a DEF RunOK, UserSetupAssumption, CommandLine, NoRun
<1>d. r.cmd.kind = "create" => r.cmd.user \in User \cup {None}
  BY <1>c DEF UserSetupAssumption, CommandLine
\* A step that changes some fields, or ends the run.
<1>e. ASSUME NEW place, Go(p, place) PROVE pc'[p] = place
  BY <1>a, <1>e DEF Go
<1>f. ASSUME NEW x, Set(p, x) PROVE r2 = x
  BY <1>a, <1>f DEF Set
<1>g. ASSUME Leave(p), ~r.saved \/ (r.through = "pipe" /\ r.cmd.secret)
      PROVE  RunOK(pc'[p], r2)
  BY <1>a, <1>g, <1>e, <1>f, EndedOK DEF Leave
<1>h. ASSUME NEW status \in ExitStatus \ {"ok"}, LeaveWith(p, status) PROVE RunOK(pc'[p], r2)
  <2>1. pc'[p] = "done" /\ r2 = [Ended(r) EXCEPT !.exit = status]
    BY <1>h, <1>e, <1>f DEF LeaveWith
  <2>2. RunOK("done", [Ended(r) EXCEPT !.exit = status])
    BY <1>a, <1>h, EndedOK
  <2> QED
    BY <2>1, <2>2
<1>i. ASSUME NEW status \in ExitStatus, LeaveAsked(p, status) PROVE RunOK(pc'[p], r2)
  <2>1. pc'[p] = "done" /\ r2 = [Ended(r) EXCEPT !.asked = TRUE, !.exit = status]
    BY <1>i, <1>e, <1>f DEF LeaveAsked
  <2>2. RunOK("done", [Ended(r) EXCEPT !.asked = TRUE, !.exit = status])
    BY <1>a, <1>i, EndedOK
  <2> QED
    BY <2>1, <2>2
<1>j. /\ {"failed", "badOptions", "accessDenied", "connectionError", "jobFailed"}
            \subseteq ExitStatus \ {"ok"}
      /\ r.exit \in ExitStatus
  BY <1>a DEF ExitStatus, RunOK
<1>1. CASE Start(p)
  <2>1. PICK cmd \in Command : Set(p, [NoRun EXCEPT !.cmd = cmd])
    BY <1>1 DEF Start
  <2>2. PICK place \in {"loadConfig", "template"} : Go(p, place)
    BY <1>1 DEF Start
  <2> QED
    BY <2>1, <2>2, NoRunOK, <1>e, <1>f
<1>2. CASE createConfigFiles(p)
  <2>1. pc[p] = "template" /\ r2 = r /\ pc'[p] \in {"fillTemplate", "loadConfig"}
    BY <1>2, <1>e DEF createConfigFiles
  <2> QED
    BY <2>1, <1>a DEF RunOK, Place, Creating, Editing, Saved, Doing
<1>3. CASE TemplateFlushed(p)
  <2>1. pc[p] = "fillTemplate" /\ r2 = r /\ pc'[p] = "loadConfig"
    BY <1>3, <1>e DEF TemplateFlushed
  <2> QED
    BY <2>1, <1>a DEF RunOK, Place, Creating, Editing, Saved, Doing
<1>4. CASE loadConfigFiles(p)
  <2>1. pc[p] = "loadConfig" /\ pc'[p] = "loadState"
    BY <1>4, <1>e DEF loadConfigFiles
  <2>2. PICK config \in {Parsed(conf.text), <<>>} :
           r2 = [r EXCEPT !.name = variableValue(config, "cmon_user"),
                          !.word = variableValue(config, "cmon_password")]
    BY <1>4, <1>f DEF loadConfigFiles
  <2> QED
    BY <2>1, <2>2, <1>a DEF RunOK, Fields, Place, Creating, Editing, Saved, Doing
<1>5. CASE loadStateFile(p)
  <2>1. pc[p] = "loadState" /\ r2 = [r EXCEPT !.state = state \ Garbled, !.readState = state]
    BY <1>5, <1>f DEF loadStateFile
  <2>2. pc'[p] = "login"
    BY <1>5, <1>e DEF loadStateFile
  <2>3. state \ Garbled \subseteq Url
    BY <1>r DEF StateTypes
  <2> QED
    BY <2>1, <2>2, <2>3, <1>a DEF RunOK, Fields, Place, ExitStatus, Creating, Editing, Saved, Doing
<1>6. CASE GoWithoutLogin(p)
  <2>1. CASE LeaveWith(p, "badOptions")
    BY <2>1, <1>h, <1>j
  <2>2. CASE r.cmd.kind = "create" /\ At(p, "login") /\ Go(p, "choose") /\ UNCHANGED run
    BY <2>2, <1>a, <1>c, <1>e DEF RunOK, Place, Creating, Editing, Saved, Doing
  <2> QED
    BY <1>6, <2>1, <2>2 DEF GoWithoutLogin, needToAuthenticate
<1>7. CASE maybeAuthenticate(p)
  <2>1. CASE \E status \in {"badOptions", "connectionError", "accessDenied"} : LeaveWith(p, status)
    BY <2>1, <1>h, <1>j
  <2>2. CASE Leave(p) /\ At(p, "login")
    <3>1. ~r.saved
      BY <2>2, <1>a DEF RunOK, Doing, Saved
    <3> QED
      BY <2>2, <3>1, <1>g
  <2>3. CASE /\ r.cmd.kind = "create" /\ At(p, "login") /\ Go(p, "choose")
             /\ Set(p, [r EXCEPT !.authenticated = TRUE])
    <3>1. pc'[p] = "choose" /\ r2 = [r EXCEPT !.authenticated = TRUE]
      BY <2>3, <1>e, <1>f
    <3> QED
      BY <2>3, <3>1, <1>a, <1>c DEF RunOK, Fields, Place, Creating, Editing, Saved, Doing
  <2> QED
    BY <1>7, <2>1, <2>2, <2>3 DEF maybeAuthenticate
<1>8. CASE Redirect(p)
  <2>1. /\ pc[p] \in {"login", "version", "send"} /\ pc'[p] = "openState"
        /\ r2 = [r EXCEPT !.redirected = TRUE, !.back = pc[p], !.state = @ \cup {r.cmd.url}]
    BY <1>8, <1>e, <1>f DEF Redirect, Requests
  <2> QED
    BY <2>1, <1>a, <1>c DEF RunOK, Fields, Place, ExitStatus, Creating, Editing, Saved, Doing
<1>9. CASE writeStateFile(p)
  <2>1. pc[p] = "openState" /\ r2 = r /\ pc'[p] = "saveState"
    BY <1>9, <1>e DEF writeStateFile
  <2> QED
    BY <2>1, <1>a DEF RunOK, Place, Creating, Editing, Saved, Doing
<1>10. CASE StateWritten(p)
  <2>1. pc[p] = "saveState" /\ pc'[p] = r.back /\ r2 = r
    BY <1>10, <1>e DEF StateWritten
  <2> QED
    BY <2>1, <1>a DEF RunOK, Place, Creating, Editing, Saved, Doing
<1>11. CASE executeCreateUser(p)
  <2>1. pc[p] = "choose"
    BY <1>11 DEF executeCreateUser
  <2>2. CASE pc'[p] = "parse" /\ r2 = [r EXCEPT !.through = "rpc"]
    BY <2>1, <2>2, <1>a DEF RunOK, Fields, Place, Creating, Editing, Saved, Doing
  <2>3. CASE pc'[p] = "version" /\ r2 = r
    BY <2>1, <2>3, <1>a DEF RunOK, Place, Creating, Editing, Saved, Doing
  <2> QED
    BY <1>11, <1>e, <1>f, <2>2, <2>3 DEF executeCreateUser
<1>12. CASE detectVersion(p)
  <2>1. pc[p] = "version" /\ pc'[p] = "parse"
    BY <1>12, <1>e DEF detectVersion
  <2>2. PICK way \in {"pipe", "oldPipe"}, status \in {r.exit, "connectionError"} :
           r2 = [r EXCEPT !.through = way, !.exit = status]
    <3>1. CASE Set(p, [r EXCEPT !.through = IF r.cmd.url \in OldAt THEN "oldPipe" ELSE "pipe"])
      <4>1. [r EXCEPT !.through = IF r.cmd.url \in OldAt THEN "oldPipe" ELSE "pipe"]
              = [r EXCEPT !.through = IF r.cmd.url \in OldAt THEN "oldPipe" ELSE "pipe", !.exit = r.exit]
        BY <1>a DEF RunOK, Fields
      <4> QED
        BY <3>1, <4>1, <1>f
    <3>2. CASE Set(p, [r EXCEPT !.through = "pipe", !.exit = "connectionError"])
      BY <3>2, <1>f
    <3> QED
      BY <1>12, <3>1, <3>2 DEF detectVersion
  <2> QED
    BY <2>1, <2>2, <1>a, <1>j DEF RunOK, Fields, Place, ExitStatus, Creating, Editing, Saved, Doing
<1>13. CASE parseSourceFile(p)
  <2>1. pc[p] = "parse" /\ ~r.saved
    BY <1>13, <1>a DEF parseSourceFile, RunOK, Doing, Saved
  <2>2. CASE LeaveWith(p, "badOptions")
    BY <2>2, <1>h, <1>j
  <2>3. CASE Leave(p)
    BY <2>1, <2>3, <1>g
  <2>4. ASSUME r.cmd.user # None, NEW text \in {conf.text, <<>>}, Go(p, "openConfig"),
               Set(p, [r EXCEPT !.readText = text,
                                !.edit = SetIfMissing(SetIfMissing(text, "cmon_user", r.cmd.user),
                                                      "controller", r.cmd.url)])
        PROVE  RunOK(pc'[p], r2)
    <3> DEFINE named == SetIfMissing(text, "cmon_user", r.cmd.user)
               edit  == SetIfMissing(named, "controller", r.cmd.url)
    <3>1. r.cmd.user \in User /\ "cmon_user" \in Name /\ "controller" \in Name
      BY <2>1, <2>4, <1>a, <1>d DEF RunOK, Doing, Creating, UserSetupAssumption
    <3>2. text \in Text
      BY <1>t
    <3>3. named \in Text /\ SettingsOf(text) \subseteq SettingsOf(named)
      BY <3>1, <3>2, SetIfMissingKeeps
    <3> HIDE DEF named
    <3>4. edit \in Text /\ SettingsOf(named) \subseteq SettingsOf(edit)
      BY <3>1, <3>3, <1>c, SetIfMissingKeeps
    <3>5. pc'[p] = "openConfig" /\ r2 = [r EXCEPT !.readText = text, !.edit = edit]
      BY <2>4, <1>e, <1>f DEF named
    <3> HIDE DEF edit
    <3> QED
      BY <2>1, <3>1, <3>2, <3>3, <3>4, <3>5, <1>a
         DEF RunOK, Fields, Place, Creating, Editing, Saved, Doing
  <2> QED
    BY <1>13, <2>2, <2>3, <2>4 DEF parseSourceFile
<1>14. CASE OpenToSave(p)
  <2>1. pc[p] = "openConfig" /\ ~r.saved
    BY <1>14, <1>a DEF OpenToSave, RunOK, Doing, Saved
  <2>2. CASE Leave(p)
    BY <2>1, <2>2, <1>g
  <2>3. CASE Go(p, "saveConfig") /\ UNCHANGED run
    BY <2>1, <2>3, <1>a, <1>e DEF RunOK, Place, Creating, Editing, Saved, Doing
  <2> QED
    BY <1>14, <2>2, <2>3 DEF OpenToSave
<1>15. CASE save(p)
  <2>1. pc[p] = "saveConfig" /\ ~r.saved
    BY <1>15, <1>a DEF save, RunOK, Doing, Saved
  <2>2. CASE Leave(p)
    BY <2>1, <2>2, <1>g
  <2>3. CASE /\ Go(p, "checkKey")
             /\ Set(p, [r EXCEPT !.saved = TRUE, !.edit = <<>>, !.readText = <<>>])
    <3>1. pc'[p] = "checkKey" /\ r2 = [r EXCEPT !.saved = TRUE, !.edit = <<>>, !.readText = <<>>]
      BY <2>3, <1>e, <1>f
    <3> QED
      BY <2>1, <3>1, <1>a, <1>t DEF RunOK, Fields, Place, Creating, Editing, Saved, Doing
  <2> QED
    BY <1>15, <2>2, <2>3 DEF save
<1>16. CASE generateKeyPair(p)
  <2>1. CASE pairs' \in 1..MaxKeys /\ Set(p, [r EXCEPT !.key = pairs', !.readKey = priv[Owner(p)]])
             /\ Go(p, "savePrivate") /\ At(p, "checkKey")
    <3>1. pc'[p] = "savePrivate" /\ r2 = [r EXCEPT !.key = pairs', !.readKey = priv[Owner(p)]]
      BY <2>1, <1>e, <1>f
    <3>2. pairs' \in Pair
      BY <2>1 DEF Pair
    <3> QED
      BY <2>1, <3>1, <3>2, <1>a DEF RunOK, Fields, Place, Creating, Editing, Saved, Doing
  <2>2. CASE Go(p, "loadKey") /\ UNCHANGED run /\ At(p, "checkKey")
    BY <2>2, <1>a, <1>e DEF RunOK, Place, Creating, Editing, Saved, Doing
  <2> QED
    BY <1>16, <1>b, <2>1, <2>2 DEF generateKeyPair
<1>17. CASE savePrivateKey(p)
  <2>1. pc[p] = "savePrivate"
    BY <1>17 DEF savePrivateKey
  <2>2. CASE Go(p, "savePublic") /\ UNCHANGED run
    BY <2>1, <2>2, <1>a, <1>e DEF RunOK, Fields, Place, ExitStatus, Creating, Editing, Saved, Doing
  <2>3. CASE Go(p, "loadKey") /\ Set(p, KeyForgotten(r))
    <3>1. pc'[p] = "loadKey" /\ r2 = [r EXCEPT !.key = NoFile, !.readKey = NoFile]
      BY <2>3, <1>e, <1>f DEF KeyForgotten
    <3> QED
      BY <2>1, <3>1, <1>a, <1>b DEF RunOK, Fields, Place, ExitStatus, Creating, Editing, Saved, Doing
  <2> QED
    BY <1>17, <2>2, <2>3 DEF savePrivateKey
<1>18. CASE savePublicKey(p)
  <2>1. pc[p] = "savePublic" /\ Go(p, "loadKey") /\ Set(p, KeyForgotten(r))
    BY <1>18 DEF savePublicKey
  <2>2. pc'[p] = "loadKey" /\ r2 = [r EXCEPT !.key = NoFile, !.readKey = NoFile]
    BY <2>1, <1>e, <1>f DEF KeyForgotten
  <2> QED
    BY <2>1, <2>2, <1>a, <1>b DEF RunOK, Fields, Place, ExitStatus, Creating, Editing, Saved, Doing
<1>19. CASE ensureHasAuthKey(p)
  <2>1. CASE /\ At(p, "loadKey") /\ Go(p, "send")
             /\ Set(p, [r EXCEPT !.public = pub[Owner(p)]])
    <3>1. pub[Owner(p)] \in KeyFile
      BY <2>1, <1>a, <1>r DEF KeyTypes, RunOK, Doing, Saved, Owner
    <3>2. pc'[p] = "send" /\ r2 = [r EXCEPT !.public = pub[Owner(p)]]
      BY <2>1, <1>e, <1>f
    <3> QED
      BY <2>1, <3>1, <3>2, <1>a DEF RunOK, Fields, Place, Creating, Editing, Saved, Doing
  <2>2. CASE At(p, "loadKey") /\ Go(p, "send") /\ UNCHANGED run
    BY <2>2, <1>a, <1>e DEF RunOK, Place, Creating, Editing, Saved, Doing
  <2>3. CASE LeaveWith(p, "failed")
    BY <2>3, <1>h, <1>j
  <2>4. CASE Leave(p) /\ r.through \notin {"rpc", "oldPipe"} /\ r.cmd.secret /\ At(p, "loadKey")
    <3>1. r.through = "pipe"
      BY <2>4, <1>a DEF RunOK, Doing, Creating, Saved
    <3> QED
      BY <2>4, <3>1, <1>g
  <2> QED
    BY <1>19, <2>1, <2>2, <2>3, <2>4 DEF ensureHasAuthKey
<1>20. CASE executeCreateUserThroughPipe(p)
  BY <1>20, <1>h, <1>i, <1>j DEF executeCreateUserThroughPipe
<1>21. CASE executeCreateUserThroughRpc(p)
  BY <1>21, <1>h, <1>i, <1>j DEF executeCreateUserThroughRpc
<1>22. CASE Exit(p) \/ Kill(p)
  <2>1. Go(p, "idle") /\ Set(p, NoRun)
    BY <1>22 DEF Exit, Kill
  <2> QED
    BY <2>1, NoRunOK, <1>e, <1>f
<1> QED
  BY <1>1, <1>2, <1>3, <1>4, <1>5, <1>6, <1>7, <1>8, <1>9, <1>10, <1>11,
     <1>12, <1>13, <1>14, <1>15, <1>16, <1>17, <1>18, <1>19, <1>20, <1>21, <1>22 DEF Step

LEMMA NextRun ==
    ASSUME UserSetupAssumption, IInv, [Next]_vars PROVE RunInv'
<1>a. RunInv
  BY DEF IInv
<1>1. CASE UNCHANGED vars
  BY <1>1, <1>a DEF vars, RunInv, RunOK, NoRun
<1>2. CASE ControllerTakes
  BY <1>2, <1>a DEF ControllerTakes, RunInv, RunOK, NoRun
<1>3. ASSUME NEW p \in Run, Step(p) PROVE RunInv'
  <2>1. RunOK(pc'[p], run'[p])
    BY <1>3, StepRun
  <2>2. ASSUME NEW q \in Run \ {p} PROVE RunOK(pc'[q], run'[q])
    <3>1. RunOK(pc[q], run[q]) /\ pc'[q] = pc[q] /\ run'[q] = run[q]
      BY <1>3, <1>a, Frame DEF RunInv
    <3> QED
      BY <3>1
  <2>3. \A q \in Run : RunOK(pc'[q], run'[q])
    BY <2>1, <2>2
  <2>4. DOMAIN pc' = Run /\ pc' = [q \in Run |-> pc'[q]] /\ DOMAIN run' = Run
    BY <1>3, <1>a, Frame
  <2> QED
    BY <2>3, <2>4 DEF RunInv, RunOK, NoRun
<1> QED
  BY <1>1, <1>2, <1>3 DEF Next

-----------------------------------------------------------------------------
(* What a step changes *)

\* The variables that only some steps write, and the places only some come to.
Effects(p) ==
    /\ UNCHANGED <<conf, settings>> \/ createConfigFiles(p) \/ TemplateFlushed(p)
                                    \/ OpenToSave(p) \/ save(p)
    /\ UNCHANGED <<state, redirects>> \/ writeStateFile(p) \/ StateWritten(p)
    /\ UNCHANGED priv \/ savePrivateKey(p) \/ Kill(p)
    /\ UNCHANGED pub \/ savePublicKey(p) \/ Kill(p)
    /\ UNCHANGED account \/ executeCreateUserThroughRpc(p)
    /\ UNCHANGED fifo \/ executeCreateUserThroughPipe(p)
    /\ UNCHANGED runs \/ Start(p)
    /\ UNCHANGED pairs \/ generateKeyPair(p)
    /\ torn \subseteq torn' /\ torn' \subseteq torn \cup {"conf", "state", "keys", "public"}
    /\ pc'[p] = "fillTemplate" => createConfigFiles(p)
    /\ pc'[p] = "saveState" => writeStateFile(p)
    /\ pc'[p] = "saveConfig" => OpenToSave(p)
    /\ pc'[p] = "savePrivate" => generateKeyPair(p)
    /\ pc'[p] = "savePublic" => savePrivateKey(p)
    /\ pc[p] = "saveState" => StateWritten(p) \/ Kill(p)
    /\ pc[p] = "saveConfig" => save(p) \/ Kill(p)

LEMMA StepEffects == ASSUME RunInv, NEW p \in Run, Step(p) PROVE Effects(p)
<1>a. /\ DOMAIN pc = Run /\ run[p].back \in {"login", "version", "send"}
      /\ \A place : Go(p, place) => pc'[p] = place
  BY DEF RunInv, RunOK, Go
<1>b. \A status : /\ Leave(p) => pc'[p] = "done"
                  /\ LeaveWith(p, status) => pc'[p] = "done"
                  /\ LeaveAsked(p, status) => pc'[p] = "done"
  BY <1>a DEF Leave, LeaveWith, LeaveAsked
<1> USE DEF Effects, Tear
<1>1. CASE Start(p) \/ createConfigFiles(p) \/ TemplateFlushed(p) \/ loadConfigFiles(p) \/
           loadStateFile(p)
  BY <1>1, <1>a DEF Start, createConfigFiles, TemplateFlushed, loadConfigFiles, loadStateFile
<1>2. CASE GoWithoutLogin(p) \/ maybeAuthenticate(p) \/ Redirect(p)
  BY <1>2, <1>a, <1>b DEF GoWithoutLogin, maybeAuthenticate, Redirect, Requests
<1>3. CASE writeStateFile(p) \/ StateWritten(p) \/ executeCreateUser(p) \/ detectVersion(p)
  BY <1>3, <1>a DEF writeStateFile, StateWritten, executeCreateUser, detectVersion
<1>4. CASE parseSourceFile(p) \/ OpenToSave(p) \/ save(p)
  BY <1>4, <1>a, <1>b DEF parseSourceFile, OpenToSave, save
<1>5. CASE generateKeyPair(p) \/ savePrivateKey(p) \/ savePublicKey(p) \/ ensureHasAuthKey(p)
  BY <1>5, <1>a, <1>b DEF generateKeyPair, savePrivateKey, savePublicKey, ensureHasAuthKey
<1>6. CASE executeCreateUserThroughPipe(p) \/ executeCreateUserThroughRpc(p)
  BY <1>6, <1>a, <1>b DEF executeCreateUserThroughPipe, executeCreateUserThroughRpc
<1>7. CASE Exit(p) \/ Kill(p)
  BY <1>7, <1>a DEF Exit, Kill
<1> QED
  BY <1>1, <1>2, <1>3, <1>4, <1>5, <1>6, <1>7 DEF Step

\* What a run has to say of keys after a step.
LEMMA StepPublic ==
    ASSUME UserSetupAssumption, RunInv, NEW p \in Run, Step(p)
    PROVE  \/ run'[p].public = NoFile
           \/ run'[p].public = run[p].public /\ run'[p].cmd = run[p].cmd
           \/ ensureHasAuthKey(p)
<1>a. /\ DOMAIN run = Run /\ DOMAIN run[p] = Fields /\ RunOK(pc[p], run[p])
      /\ \A r : Set(p, r) => run'[p] = r
  BY DEF RunInv, RunOK, Set
<1>b. \A status : /\ Leave(p) => run'[p].public = NoFile
                  /\ LeaveWith(p, status) => run'[p].public = NoFile
                  /\ LeaveAsked(p, status) => run'[p].public = NoFile
  <2> TAKE status
  <2>1. /\ Ended(run[p]).public = NoFile
        /\ [Ended(run[p]) EXCEPT !.exit = status].public = NoFile
        /\ [Ended(run[p]) EXCEPT !.asked = TRUE, !.exit = status].public = NoFile
    BY <1>a, EndedOK
  <2>2. CASE Leave(p)
    BY <1>a, <2>1, <2>2 DEF Leave
  <2>3. CASE LeaveWith(p, status)
    BY <1>a, <2>1, <2>3 DEF LeaveWith
  <2>4. CASE LeaveAsked(p, status)
    BY <1>a, <2>1, <2>4 DEF LeaveAsked
  <2> QED
    BY <2>2, <2>3, <2>4
<1>1. CASE Start(p)
  BY <1>1, <1>a, NoRunOK DEF Start
<1>2. CASE createConfigFiles(p) \/ TemplateFlushed(p) \/ loadConfigFiles(p) \/ loadStateFile(p)
  BY <1>2, <1>a DEF createConfigFiles, TemplateFlushed, loadConfigFiles, loadStateFile, Fields
<1>3. CASE GoWithoutLogin(p) \/ maybeAuthenticate(p) \/ Redirect(p)
  BY <1>3, <1>a, <1>b DEF GoWithoutLogin, maybeAuthenticate, Redirect, Fields
<1>4. CASE writeStateFile(p) \/ StateWritten(p) \/ executeCreateUser(p) \/ detectVersion(p)
  BY <1>4, <1>a DEF writeStateFile, StateWritten, executeCreateUser, detectVersion, Fields
<1>5. CASE parseSourceFile(p) \/ OpenToSave(p) \/ save(p)
  BY <1>5, <1>a, <1>b DEF parseSourceFile, OpenToSave, save, Fields
<1>6. CASE generateKeyPair(p) \/ savePrivateKey(p) \/ savePublicKey(p)
  BY <1>6, <1>a DEF generateKeyPair, savePrivateKey, savePublicKey, KeyForgotten, Fields
<1>7. CASE executeCreateUserThroughPipe(p) \/ executeCreateUserThroughRpc(p)
  BY <1>7, <1>b DEF executeCreateUserThroughPipe, executeCreateUserThroughRpc
<1>8. CASE Exit(p) \/ Kill(p)
  BY <1>8, <1>a, NoRunOK DEF Exit, Kill
<1> QED
  BY <1>1, <1>2, <1>3, <1>4, <1>5, <1>6, <1>7, <1>8 DEF Step

-----------------------------------------------------------------------------
(* The types of the files and the accounts *)

LEMMA NextConf ==
    ASSUME UserSetupAssumption, IInv, [Next]_vars PROVE ConfInv'
<1>a. ConfInv /\ RunInv
  BY DEF IInv, FileInv
<1>1. CASE UNCHANGED vars
  BY <1>1, <1>a DEF vars, ConfInv
<1>2. CASE ControllerTakes
  BY <1>2, <1>a DEF ControllerTakes, ConfInv
<1>3. ASSUME NEW p \in Run, Step(p) PROVE ConfInv'
  <2> USE <1>3
  <2>a. Effects(p) /\ \A q \in Run \ {p} : pc'[q] = pc[q]
    BY <1>a, StepEffects, Frame
  <2>b. conf.text \in Text /\ run[p].edit \in Text
    BY <1>a DEF ConfInv, RunInv, RunOK
  <2>c. conf = [there |-> conf.there, text |-> conf.text]
    BY <1>a DEF ConfInv
  <2>1. CASE UNCHANGED conf
    <3>1. \A q \in Run : pc'[q] \in {"saveConfig", "fillTemplate"} =>
             pc[q] = pc'[q] \/ createConfigFiles(p) \/ OpenToSave(p)
      BY <2>a DEF Effects
    <3>2. createConfigFiles(p) \/ OpenToSave(p) => conf.there \/ pc'[p] \notin {"saveConfig", "fillTemplate"}
      <4>1. CASE createConfigFiles(p)
        BY <2>1, <4>1, <1>a DEF createConfigFiles, Go, ConfInv, RunInv
      <4>2. CASE OpenToSave(p)
        BY <2>1, <4>2, <1>a DEF OpenToSave, Leave, Go, ConfInv, RunInv
      <4> QED
        BY <4>1, <4>2
    <3> QED
      BY <1>a, <2>1, <2>a, <3>1, <3>2 DEF ConfInv
  <2>2. CASE createConfigFiles(p)
    <3>1. conf' = [conf EXCEPT !.there = TRUE] \/ UNCHANGED conf
      BY <2>2 DEF createConfigFiles
    <3>2. CASE conf' = [conf EXCEPT !.there = TRUE]
      <4>1. conf'.there = TRUE /\ conf' = [there |-> TRUE, text |-> conf.text]
        BY <3>2, <2>c
      <4> QED
        BY <4>1, <2>b DEF ConfInv
    <3> QED
      BY <3>1, <3>2, <2>1
  <2>3. CASE TemplateFlushed(p)
    <3>1. PICK part \in Cut(Template) : conf' = [conf EXCEPT !.text = @ \o part]
      BY <2>3 DEF TemplateFlushed
    <3>2. part \in Text
      BY TemplateText, CutText
    <3> DEFINE S == Node(Name, User \cup Url)
    <3> HIDE DEF S
    <3>3. conf.text \o part \in Seq(S)
      BY <2>b, <3>2, ConcatProperties DEF Text, S
    <3>4. conf.text \o part \in Text
      BY <3>3 DEF Text, S
    <3>5. conf.there
      BY <2>3, <1>a DEF TemplateFlushed, ConfInv
    <3> QED
      BY <3>1, <3>4, <3>5, <2>c DEF ConfInv
  <2>4. CASE OpenToSave(p)
    <3>1. CASE conf' = [there |-> TRUE, text |-> <<>>]
      BY <3>1 DEF ConfInv, Text
    <3> QED
      BY <2>1, <2>4, <3>1 DEF OpenToSave
  <2>5. CASE save(p)
    <3>1. PICK text \in Overwritten(run[p].edit, conf.text) \cup Cut(run[p].edit) :
             conf' = [conf EXCEPT !.text = text]
      BY <2>5 DEF save
    <3>2. text \in Text
      BY <2>b, OverwrittenText, CutText
    <3>3. conf.there
      BY <2>5, <1>a DEF save, ConfInv
    <3> QED
      BY <3>1, <3>2, <3>3, <2>c DEF ConfInv
  <2> QED
    BY <2>a, <2>1, <2>2, <2>3, <2>4, <2>5 DEF Effects
<1> QED
  BY <1>1, <1>2, <1>3 DEF Next

\* The state file has controllers, or does not parse.
LEMMA NextState ==
    ASSUME UserSetupAssumption, IInv, [Next]_vars PROVE StateTypes'
<1>a. StateTypes /\ RunInv /\ \A p \in Run : run[p].state \subseteq Url
  BY DEF IInv, FileInv, RunInv, RunOK
<1>1. CASE UNCHANGED vars
  BY <1>1, <1>a DEF vars, StateTypes
<1>2. CASE ControllerTakes
  BY <1>2, <1>a DEF ControllerTakes, StateTypes
<1>3. ASSUME NEW p \in Run, Step(p) PROVE StateTypes'
  <2>1. CASE StateWritten(p)
    BY <2>1, <1>a, <1>3 DEF StateWritten, OverwrittenState, StateTypes
  <2>2. CASE writeStateFile(p)
    BY <2>2, <1>a DEF writeStateFile, StateTypes
  <2>3. CASE UNCHANGED <<state, redirects>>
    BY <2>3, <1>a DEF StateTypes
  <2> QED
    BY <1>3, <1>a, <2>1, <2>2, <2>3, StepEffects DEF Effects
<1> QED
  BY <1>1, <1>2, <1>3 DEF Next

\* A key file has a key, or nothing.
LEMMA NextKeys ==
    ASSUME UserSetupAssumption, IInv, [Next]_vars PROVE KeyTypes'
<1>a. KeyTypes /\ RunInv
  BY DEF IInv, FileInv
<1>c. Empty \in KeyFile /\ \A p \in Run : run[p].key \in KeyFile /\ CutKey(run[p].key) \in KeyFile
  BY <1>a, CutKeys DEF RunInv, RunOK
<1>d. \A u : \A left \in KeyFile : /\ [priv EXCEPT ![u] = left] \in [User -> KeyFile]
                                   /\ [pub EXCEPT ![u] = left] \in [User -> KeyFile]
  BY <1>a DEF KeyTypes
<1>b. \A u : u \in User => priv[u] \in KeyFile /\ pub[u] \in KeyFile
  BY <1>a DEF KeyTypes
<1>1. CASE UNCHANGED vars
  BY <1>1, <1>a DEF vars, KeyTypes
<1>2. CASE ControllerTakes
  BY <1>2, <1>a DEF ControllerTakes, KeyTypes
<1>3. ASSUME NEW p \in Run, Step(p) PROVE KeyTypes'
  <2> USE <1>3
  <2>a. pc[p] \in {"savePrivate", "savePublic"} => Owner(p) \in User
    BY <1>a DEF RunInv, RunOK, Doing, Saved, Owner
  <2>1. CASE savePrivateKey(p)
    <3>1. UNCHANGED pub /\ Owner(p) \in User
      BY <2>1, <2>a DEF savePrivateKey
    <3>2. PICK left \in {run[p].key, priv[Owner(p)], Empty} : priv' = [priv EXCEPT ![Owner(p)] = left]
      BY <2>1 DEF savePrivateKey
    <3> QED
      BY <3>1, <3>2, <1>a, <1>b, <1>c, <1>d DEF KeyTypes
  <2>2. CASE savePublicKey(p)
    <3>1. UNCHANGED priv /\ Owner(p) \in User
      BY <2>2, <2>a DEF savePublicKey
    <3>2. PICK left \in {run[p].key, pub[Owner(p)], Empty, CutKey(run[p].key)} :
             pub' = [pub EXCEPT ![Owner(p)] = left]
      BY <2>2 DEF savePublicKey
    <3> QED
      BY <3>1, <3>2, <1>a, <1>b, <1>c, <1>d DEF KeyTypes
  <2>3. CASE Kill(p)
    BY <2>3, <1>a, <1>c, <1>d DEF Kill, KeyTypes
  <2>4. CASE UNCHANGED <<priv, pub>>
    BY <2>4, <1>a DEF KeyTypes
  <2>5. Effects(p) /\ (savePrivateKey(p) => UNCHANGED pub) /\ (savePublicKey(p) => UNCHANGED priv)
    BY <1>a, StepEffects DEF savePrivateKey, savePublicKey
  <2> QED
    BY <2>1, <2>2, <2>3, <2>4, <2>5 DEF Effects
<1> QED
  BY <1>1, <1>2, <1>3 DEF Next

LEMMA AskedType ==
    ASSUME UserSetupAssumption, IInv, NEW p \in Run, pc[p] = "send"
    PROVE  Asked(p) \in AccountRequest
<1>1. RunOK(pc[p], run[p])
  BY DEF IInv, RunInv
<1>2. run[p].cmd \in CommandLine /\ run[p].cmd.user \in User /\ run[p].public \in KeyFile
  BY <1>1 DEF RunOK, Doing, Creating, Saved, UserSetupAssumption
<1>3. run[p].cmd.secret \in BOOLEAN
  BY <1>2 DEF CommandLine
<1> QED
  BY <1>2, <1>3 DEF Asked, Owner, AccountRequest

LEMMA CreatedType ==
    ASSUME NEW request \in AccountRequest, Created(request),
           account \in [User -> [there : BOOLEAN, key : KeyFile, password : BOOLEAN]]
    PROVE  account' \in [User -> [there : BOOLEAN, key : KeyFile, password : BOOLEAN]]
  BY DEF Created, AccountRequest

\* An account is made of a request, and has what a request has.
LEMMA NextAccounts ==
    ASSUME UserSetupAssumption, IInv, [Next]_vars PROVE AccountTypes'
<1>a. AccountTypes /\ RunInv
  BY DEF IInv, FileInv
<1>1. CASE UNCHANGED vars
  BY <1>1, <1>a DEF vars, AccountTypes
<1>2. CASE ControllerTakes
  <2>1. Head(fifo) \in AccountRequest /\ Tail(fifo) \in Seq(AccountRequest)
    BY <1>2, <1>a, HeadTailProperties DEF ControllerTakes, AccountTypes
  <2>2. Created(Head(fifo)) \/ UNCHANGED account
    BY <1>2 DEF ControllerTakes
  <2> QED
    BY <1>2, <1>a, <2>1, <2>2, CreatedType DEF ControllerTakes, AccountTypes
<1>3. ASSUME NEW p \in Run, Step(p) PROVE AccountTypes'
  <2> USE <1>3
  <2>1. CASE executeCreateUserThroughPipe(p)
    <3>1. Asked(p) \in AccountRequest
      BY <2>1, AskedType DEF executeCreateUserThroughPipe
    <3> QED
      BY <2>1, <1>a, <3>1, AppendProperties DEF executeCreateUserThroughPipe, AccountTypes
  <2>2. CASE executeCreateUserThroughRpc(p)
    <3>1. Asked(p) \in AccountRequest
      BY <2>2, AskedType DEF executeCreateUserThroughRpc
    <3>2. (Created(Asked(p)) \/ UNCHANGED account) /\ UNCHANGED fifo
      BY <2>2 DEF executeCreateUserThroughRpc
    <3> QED
      BY <1>a, <3>1, <3>2, CreatedType DEF AccountTypes
  <2>3. CASE UNCHANGED <<account, fifo>>
    BY <2>3, <1>a DEF AccountTypes
  <2>4. /\ executeCreateUserThroughPipe(p) => UNCHANGED account
        /\ executeCreateUserThroughRpc(p) => UNCHANGED fifo
    BY DEF executeCreateUserThroughPipe, executeCreateUserThroughRpc
  <2> QED
    BY <1>a, <2>1, <2>2, <2>3, <2>4, StepEffects DEF Effects
<1> QED
  BY <1>1, <1>2, <1>3 DEF Next

\* The counters stay within their bounds.
LEMMA NextCounts ==
    ASSUME UserSetupAssumption, IInv, [Next]_vars PROVE CountInv'
<1>a. CountInv /\ RunInv /\ MaxRuns \in Nat /\ MaxKeys \in Nat
  BY DEF IInv, FileInv, UserSetupAssumption
<1>1. CASE UNCHANGED vars
  BY <1>1, <1>a DEF vars, CountInv
<1>2. CASE ControllerTakes
  BY <1>2, <1>a DEF ControllerTakes, CountInv
<1>3. ASSUME NEW p \in Run, Step(p) PROVE CountInv'
  <2>1. Effects(p)
    BY <1>3, <1>a, StepEffects
  <2>2. runs' \in 0..MaxRuns
    BY <2>1, <1>a DEF Effects, Start, CountInv
  <2>3. pairs' \in 0..MaxKeys
    BY <2>1, <1>a DEF Effects, generateKeyPair, CountInv
  <2> QED
    BY <2>1, <2>2, <2>3, <1>a DEF Effects, CountInv
<1> QED
  BY <1>1, <1>2, <1>3 DEF Next

-----------------------------------------------------------------------------
(* The keys *)

\* A step that writes no key and moves none.
LEMMA KeyKeeps ==
    ASSUME UserSetupAssumption, RunInv, PublicInv, MovingInv, RegisteredInv,
           NEW p \in Run, Step(p), UNCHANGED <<priv, pub, account, fifo>>,
           pc'[p] \notin {"savePrivate", "savePublic"}, ~ensureHasAuthKey(p)
    PROVE  PublicInv' /\ MovingInv' /\ RegisteredInv'
<1>1. torn \subseteq torn'
  BY StepEffects DEF Effects
<1>2. KeyOK(pc[p], run[p])
  BY DEF MovingInv
<1>3. KeyOK(pc'[p], run'[p])
  BY <1>2, StepPublic DEF KeyOK, Sent
<1>4. \A q \in Run \ {p} : pc'[q] = pc[q] /\ run'[q] = run[q]
  BY Frame
<1>5. \A q \in Run : KeyOK(pc'[q], run'[q])
  BY <1>3, <1>4 DEF MovingInv
<1>6. AloneInv'
  BY <1>4 DEF MovingInv, AloneInv, Owner
<1> QED
  BY <1>1, <1>5, <1>6 DEF PublicInv, MovingInv, RegisteredInv, KeyOK, Sent, HasPublic

\* The private key is written while there is no public one, and no other run is
\* about to write that.
LEMMA PrivateWritten ==
    ASSUME UserSetupAssumption, IInv, "keys" \notin torn, NEW p \in Run, pc[p] = "savePrivate",
           priv[Owner(p)] = run[p].readKey,
           NEW left, priv' = [priv EXCEPT ![Owner(p)] = left], UNCHANGED pub, torn \subseteq torn'
    PROVE  /\ Owner(p) \in User /\ ~HasPublic(Owner(p)) /\ priv'[Owner(p)] = left
           /\ PublicInv'
           /\ \A q \in Run : pc[q] = "savePublic" =>
                 /\ Owner(q) # Owner(p) /\ priv'[Owner(q)] = run[q].key
                 /\ ~HasPublic(Owner(q)) /\ run[q].key \in Pair
<1>a. /\ PublicInv /\ KeyTypes /\ \A q \in Run : KeyOK(pc[q], run[q]) /\ RunOK(pc[q], run[q])
  BY DEF IInv, KeyInv, MovingInv, FileInv, RunInv
<1>b. \A q \in Run : pc[q] \in {"savePrivate", "savePublic"} => Owner(q) \in User
  BY <1>a DEF RunOK, Doing, Saved, Owner
<1>1. Owner(p) \in User /\ priv[Owner(p)] \notin Pair
  BY <1>a, <1>b DEF KeyOK
<1>2. ~HasPublic(Owner(p))
  BY <1>1, <1>a, Published
<1>3. priv'[Owner(p)] = left /\ \A w \in User \ {Owner(p)} : priv'[w] = priv[w]
  BY <1>1, <1>a DEF KeyTypes
<1>4. PublicInv'
  BY <1>2, <1>3, <1>a DEF PublicInv, HasPublic
<1>5. ASSUME NEW q \in Run, pc[q] = "savePublic"
      PROVE  /\ Owner(q) # Owner(p) /\ priv'[Owner(q)] = run[q].key
             /\ ~HasPublic(Owner(q)) /\ run[q].key \in Pair
  <2>1. Owner(q) \in User /\ priv[Owner(q)] = run[q].key /\ run[q].key \in Pair /\ ~HasPublic(Owner(q))
    BY <1>5, <1>a, <1>b DEF KeyOK, Owner
  <2> QED
    BY <2>1, <1>1, <1>3
<1> QED
  BY <1>1, <1>2, <1>3, <1>4, <1>5

\* The public key is written where there was none, by one run.
LEMMA PublicWritten ==
    ASSUME UserSetupAssumption, IInv, "keys" \notin torn, NEW p \in Run, pc[p] = "savePublic",
           NEW left \in {run[p].key, pub[Owner(p)], Empty, CutKey(run[p].key)},
           pub' = [pub EXCEPT ![Owner(p)] = left], UNCHANGED priv, torn \subseteq torn',
           left = CutKey(run[p].key) => "public" \in torn'
    PROVE  /\ PublicInv'
           /\ \A w \in User : HasPublic(w) => pub'[w] = pub[w]
           /\ \A q \in Run \ {p} : pc[q] = "savePublic" =>
                 run[q].cmd.user \in User /\ pub'[run[q].cmd.user] = pub[run[q].cmd.user]
<1>a. /\ PublicInv /\ KeyTypes /\ AloneInv
      /\ \A q \in Run : KeyOK(pc[q], run[q]) /\ RunOK(pc[q], run[q])
  BY DEF IInv, KeyInv, MovingInv, FileInv, RunInv
<1>b. \A q \in Run : pc[q] = "savePublic" => Owner(q) \in User
  BY <1>a DEF RunOK, Doing, Saved, Owner
<1>1. /\ Owner(p) \in User /\ run[p].key \in Pair /\ priv[Owner(p)] = run[p].key
      /\ ~HasPublic(Owner(p))
  BY <1>a, <1>b DEF KeyOK, Owner
<1>2. pub'[Owner(p)] = left /\ \A w \in User \ {Owner(p)} : pub'[w] = pub[w]
  BY <1>1, <1>a DEF KeyTypes
<1>3. left \notin {NoFile, Empty} => left \in {run[p].key, CutKey(run[p].key)}
  BY <1>1 DEF HasPublic
<1>4. PublicInv'
  <2>1. ASSUME NEW w \in User, HasPublic(w)'
        PROVE  priv[w] = PairOf(pub'[w]) /\ ("public" \notin torn' => pub'[w] \in Pair)
    <3>1. CASE w = Owner(p)
      BY <2>1, <3>1, <1>1, <1>2, <1>3, CutKeys DEF HasPublic
    <3>2. CASE w # Owner(p)
      BY <2>1, <3>2, <1>2, <1>a DEF HasPublic, PublicInv
    <3> QED
      BY <3>1, <3>2
  <2> QED
    BY <2>1 DEF PublicInv
<1>5. \A w \in User : HasPublic(w) => pub'[w] = pub[w]
  BY <1>1, <1>2
<1>6. \A q \in Run \ {p} : pc[q] = "savePublic" => Owner(q) # Owner(p)
  BY <1>a DEF AloneInv
<1> QED
  BY <1>2, <1>4, <1>5, <1>6, <1>b DEF Owner

\* As long as two runs do not write the keys of one user at once, the keys that
\* move are those on the disk.
LEMMA NextKey ==
    ASSUME UserSetupAssumption, IInv, [Next]_vars PROVE KeyInv'
<1> SUFFICES ASSUME "keys" \notin torn'
             PROVE  PublicInv' /\ MovingInv' /\ RegisteredInv'
  BY DEF KeyInv
<1>a. RunInv /\ KeyTypes /\ AccountTypes /\ CountInv
  BY DEF IInv, FileInv
<1>b. "keys" \notin torn => PublicInv /\ MovingInv /\ RegisteredInv
  BY DEF IInv, KeyInv
<1>1. CASE UNCHANGED vars
  BY <1>1, <1>b
     DEF vars, PublicInv, MovingInv, AloneInv, Owner, RegisteredInv, KeyOK, Sent, HasPublic
<1>2. CASE ControllerTakes
  <2>1. UNCHANGED <<priv, pub, pc, run, torn>> /\ PublicInv /\ MovingInv /\ RegisteredInv
    BY <1>2, <1>b DEF ControllerTakes
  <2>2. /\ Head(fifo) \in AccountRequest /\ Head(fifo) = fifo[1] /\ 1 \in DOMAIN fifo
        /\ \A i \in DOMAIN fifo' : fifo'[i] = fifo[i + 1] /\ i + 1 \in DOMAIN fifo
    BY <1>2, <1>a DEF ControllerTakes, AccountTypes
  <2>3. Sent(Head(fifo).user, Head(fifo).key)
    BY <2>1, <2>2 DEF RegisteredInv
  <2>4. \A u \in User : Sent(u, account'[u].key)
    <3>1. CASE UNCHANGED account
      BY <2>1, <3>1 DEF RegisteredInv
    <3>2. CASE Created(Head(fifo))
      BY <2>1, <2>2, <2>3, <3>2, <1>a DEF RegisteredInv, Created, AccountTypes, AccountRequest
    <3> QED
      BY <1>2, <3>1, <3>2 DEF ControllerTakes
  <2>5. \A i \in DOMAIN fifo' : Sent(fifo'[i].user, fifo'[i].key)
    BY <2>1, <2>2 DEF RegisteredInv
  <2>6. RegisteredInv'
    BY <2>1, <2>4, <2>5 DEF RegisteredInv, Sent, HasPublic
  <2> QED
    BY <2>1, <2>6 DEF PublicInv, MovingInv, AloneInv, Owner, KeyOK, Sent, HasPublic
<1>3. ASSUME NEW p \in Run, Step(p) PROVE PublicInv' /\ MovingInv' /\ RegisteredInv'
  <2> USE <1>3
  <2> DEFINE u == run[p].cmd.user
  <2>a. RunOK(pc[p], run[p]) /\ DOMAIN pc = Run /\ DOMAIN run = Run /\ DOMAIN run[p] = Fields
    BY <1>a DEF RunInv, RunOK
  <2>b. pc[p] \in Saved => u \in User
    BY <2>a DEF RunOK, Doing, Saved
  <2>c. "keys" \notin torn /\ Effects(p) /\ torn \subseteq torn'
    BY <1>a, StepEffects DEF Effects
  <2>d. PublicInv /\ MovingInv /\ RegisteredInv /\ KeyOK(pc[p], run[p])
    BY <1>b, <2>c DEF MovingInv
  <2>e. \A q \in Run \ {p} : pc'[q] = pc[q] /\ run'[q] = run[q] /\ KeyOK(pc[q], run[q])
    BY <1>a, <2>d, Frame DEF MovingInv
  \* What was sent is the public key as long as those that are there stay.
  <2>f. ASSUME \A w \in User : HasPublic(w) => pub'[w] = pub[w]
        PROVE  \A w, key : Sent(w, key) => Sent(w, key)'
    BY <2>f DEF Sent, HasPublic
  \* The other runs are as they were when the keys are; and so is what was said
  \* to the controller.
  <2>g. ASSUME pc'[p] # "savePublic" PROVE AloneInv'
    BY <2>g, <2>d, <2>e DEF MovingInv, AloneInv, Owner
  <2>h. ASSUME UNCHANGED <<priv, pub>>, pc'[p] # "savePublic", KeyOK(pc[p], run[p])'
        PROVE  PublicInv' /\ MovingInv'
    <3>1. \A q \in Run : KeyOK(pc[q], run[q])'
      BY <2>e, <2>h DEF KeyOK, Sent, HasPublic
    <3> QED
      BY <3>1, <2>c, <2>d, <2>g, <2>h DEF MovingInv, PublicInv, HasPublic
  <2>i. ASSUME UNCHANGED <<account, fifo>>, \A w, key : Sent(w, key) => Sent(w, key)'
        PROVE  RegisteredInv'
    BY <2>d, <2>i DEF RegisteredInv
  <2>1. CASE generateKeyPair(p)
    <3>1. UNCHANGED <<priv, pub, account, fifo>> /\ pc[p] = "checkKey"
      BY <2>1 DEF generateKeyPair
    <3>2. CASE /\ NeedsPair(p) /\ pairs' \in Pair /\ Go(p, "savePrivate")
               /\ Set(p, [run[p] EXCEPT !.key = pairs', !.readKey = priv[Owner(p)]])
      <4>1. pc'[p] = "savePrivate" /\ run'[p].public = run[p].public /\ run'[p].cmd = run[p].cmd
        BY <3>2, <2>a DEF Go, Set, Fields
      <4>2. run'[p].readKey \notin Pair /\ run'[p].key \in Pair
        BY <3>2, <2>a DEF Set, Fields, NeedsPair
      <4>3. KeyOK(pc[p], run[p])'
        BY <3>1, <4>1, <4>2, <2>d DEF KeyOK, Sent, HasPublic
      <4> QED
        BY <3>1, <4>1, <4>3, <2>f, <2>h, <2>i
    <3>3. CASE Go(p, "loadKey")
      BY <3>1, <3>3, <1>a, <2>a, <2>d, KeyKeeps DEF Go, generateKeyPair, ensureHasAuthKey
    <3>4. pairs < MaxKeys /\ pairs' = pairs + 1 => pairs' \in Pair
      BY <1>a DEF CountInv, Pair, UserSetupAssumption
    <3> QED
      BY <2>1, <3>2, <3>3, <3>4 DEF generateKeyPair
  <2>2. CASE savePrivateKey(p)
    <3>1. /\ pc[p] = "savePrivate" /\ UNCHANGED <<pub, account, fifo>>
          /\ priv[Owner(p)] = run[p].readKey
      BY <2>2, <2>c DEF savePrivateKey, Tear
    <3>2. PICK left : priv' = [priv EXCEPT ![Owner(p)] = left]
      BY <2>2 DEF savePrivateKey
    <3>3. /\ u \in User /\ ~HasPublic(u) /\ priv'[u] = left /\ PublicInv'
          /\ \A q \in Run : pc[q] = "savePublic" =>
                /\ run[q].cmd.user # u /\ priv'[run[q].cmd.user] = run[q].key
                /\ ~HasPublic(run[q].cmd.user) /\ run[q].key \in Pair
      BY <3>1, <3>2, <2>c, PrivateWritten DEF Owner
    <3>4. RegisteredInv' /\ \A w, key : Sent(w, key) => Sent(w, key)'
      BY <3>1, <2>f, <2>i
    <3>5. \A q \in Run \ {p} : KeyOK(pc[q], run[q])'
      BY <3>1, <3>3, <3>4, <2>e DEF KeyOK, HasPublic
    <3>6. KeyOK(pc[p], run[p])' /\ AloneInv'
      <4>1. CASE priv' = [priv EXCEPT ![Owner(p)] = run[p].key] /\ Go(p, "savePublic") /\ UNCHANGED run
        <5>1. pc'[p] = "savePublic" /\ run'[p] = run[p] /\ priv'[u] = run[p].key
          BY <4>1, <3>3, <1>a, <2>a DEF Go, KeyTypes, Owner
        <5>2. KeyOK(pc[p], run[p])'
          BY <5>1, <3>1, <3>3, <3>4, <2>d DEF KeyOK, HasPublic
        <5>3. \A q \in Run \ {p} : pc'[q] = "savePublic" => run'[q].cmd.user # u
          BY <3>3, <2>e
        <5> QED
          BY <5>1, <5>2, <5>3, <2>d, <2>e DEF MovingInv, AloneInv, Owner
      <4>2. CASE Go(p, "loadKey") /\ Set(p, KeyForgotten(run[p]))
        <5>1. /\ pc'[p] = "loadKey" /\ run'[p].public = run[p].public
              /\ run'[p].cmd = run[p].cmd
          BY <4>2, <2>a DEF Go, Set, KeyForgotten, Fields
        <5> QED
          BY <5>1, <3>4, <2>d, <2>g DEF KeyOK
      <4> QED
        BY <2>2, <4>1, <4>2 DEF savePrivateKey
    <3> QED
      BY <3>3, <3>4, <3>5, <3>6 DEF MovingInv
  <2>3. CASE savePublicKey(p)
    <3>1. /\ pc[p] = "savePublic" /\ UNCHANGED <<priv, account, fifo>> /\ pc'[p] = "loadKey"
          /\ run'[p].public = run[p].public /\ run'[p].cmd = run[p].cmd
      BY <2>3, <2>a DEF savePublicKey, Go, Set, KeyForgotten, Fields
    <3>2. PICK left \in {run[p].key, pub[Owner(p)], Empty, CutKey(run[p].key)} :
             /\ pub' = [pub EXCEPT ![Owner(p)] = left]
             /\ left = CutKey(run[p].key) => "public" \in torn'
      BY <2>3 DEF savePublicKey, Tear
    <3>3. /\ PublicInv' /\ \A w \in User : HasPublic(w) => pub'[w] = pub[w]
          /\ \A q \in Run \ {p} : pc[q] = "savePublic" =>
                run[q].cmd.user \in User /\ pub'[run[q].cmd.user] = pub[run[q].cmd.user]
      BY <3>1, <3>2, <2>c, PublicWritten
    <3>4. RegisteredInv' /\ \A w, key : Sent(w, key) => Sent(w, key)'
      BY <3>1, <3>3, <2>f, <2>i
    <3>5. \A q \in Run \ {p} : KeyOK(pc[q], run[q])'
      BY <3>1, <3>3, <3>4, <2>e DEF KeyOK, HasPublic
    <3>6. KeyOK(pc[p], run[p])' /\ AloneInv'
      BY <3>1, <3>4, <2>d, <2>g DEF KeyOK
    <3> QED
      BY <3>3, <3>4, <3>5, <3>6 DEF MovingInv
  <2>4. CASE ensureHasAuthKey(p)
    <3>1. UNCHANGED <<priv, pub, account, fifo>> /\ u \in User
      BY <2>4, <2>b DEF ensureHasAuthKey, Saved
    <3>2. pc'[p] \notin {"savePrivate", "savePublic"}
      BY <2>4, <2>a DEF ensureHasAuthKey, Go, Leave, LeaveWith
    <3>3. Sent(run[p].cmd.user, run[p].public)'
      <4>1. CASE HasPublic(u) /\ Set(p, [run[p] EXCEPT !.public = pub[u]])
        <5>1. run'[p].public = pub[u] /\ run'[p].cmd = run[p].cmd
          BY <4>1, <2>a DEF Set, Fields
        <5> QED
          BY <5>1, <4>1, <3>1 DEF Sent, HasPublic
      <4>2. CASE UNCHANGED run
        BY <4>2, <3>1, <2>d DEF KeyOK, Sent, HasPublic
      <4>3. CASE \E status : Leave(p) \/ LeaveWith(p, status)
        <5> PICK status : Leave(p) \/ LeaveWith(p, status)
          BY <4>3
        <5>1. /\ Ended(run[p]).public = NoFile
              /\ [Ended(run[p]) EXCEPT !.exit = status].public = NoFile
          BY <2>a, EndedOK
        <5>2. run'[p].public = NoFile
          BY <5>1, <2>a DEF Leave, LeaveWith, Set
        <5> QED
          BY <5>2 DEF Sent, NoFile
      <4> QED
        BY <2>4, <4>1, <4>2, <4>3 DEF ensureHasAuthKey, HasAuthKey, HasPublic, Owner
    <3>4. KeyOK(pc[p], run[p])'
      BY <3>2, <3>3 DEF KeyOK
    <3> QED
      BY <3>1, <3>2, <3>4, <2>f, <2>h, <2>i
  <2>5. CASE executeCreateUserThroughPipe(p) \/ executeCreateUserThroughRpc(p)
    <3>1. /\ u \in User /\ UNCHANGED <<priv, pub>>
          /\ pc'[p] \notin {"savePrivate", "savePublic"} /\ ~ensureHasAuthKey(p)
      BY <2>5, <2>a, <2>b
         DEF executeCreateUserThroughPipe, executeCreateUserThroughRpc, ensureHasAuthKey, Saved,
             LeaveWith, LeaveAsked, Go
    <3>2. Asked(p).user = u /\ Asked(p).key = run[p].public /\ Sent(u, Asked(p).key)
      BY <3>1, <2>d DEF Asked, Owner, KeyOK
    <3>3. \A i \in DOMAIN fifo' : (i \in DOMAIN fifo /\ fifo'[i] = fifo[i]) \/ fifo'[i] = Asked(p)
      <4>1. fifo' = fifo \/ fifo' = Append(fifo, Asked(p))
        BY <2>5 DEF executeCreateUserThroughPipe, executeCreateUserThroughRpc
      <4> QED
        BY <4>1, <1>a DEF AccountTypes
    <3>4. \A w \in User : Sent(w, account'[w].key)
      <4>1. CASE UNCHANGED account
        BY <4>1, <2>d DEF RegisteredInv
      <4>2. CASE Created(Asked(p))
        BY <3>1, <3>2, <4>2, <1>a, <2>d DEF RegisteredInv, Created, AccountTypes
      <4> QED
        BY <2>5, <4>1, <4>2 DEF executeCreateUserThroughPipe, executeCreateUserThroughRpc
    <3>5. \A i \in DOMAIN fifo' : Sent(fifo'[i].user, fifo'[i].key)
      BY <3>2, <3>3, <2>d DEF RegisteredInv
    <3>6. RegisteredInv'
      BY <3>1, <3>4, <3>5 DEF RegisteredInv, Sent, HasPublic
    <3>7. KeyOK(pc[p], run[p])'
      BY <3>1, <1>a, <2>d, StepPublic DEF KeyOK, Sent, HasPublic
    <3> QED
      BY <3>1, <3>6, <3>7, <2>h
  <2>6. CASE Kill(p)
    <3>1. pc'[p] = "idle" /\ run'[p] = NoRun /\ UNCHANGED <<account, fifo>>
      BY <2>6, <2>a DEF Kill, Go, Set
    <3>2. KeyOK(pc[p], run[p])' /\ AloneInv'
      BY <3>1, <2>g, NoRunOK DEF KeyOK, Sent
    <3>3. CASE UNCHANGED <<priv, pub>>
      BY <3>1, <3>2, <3>3, <2>f, <2>h, <2>i
    <3>4. CASE At(p, "savePrivate") /\ priv' = [priv EXCEPT ![Owner(p)] = Empty] /\ UNCHANGED pub
      <4>1. priv[Owner(p)] = run[p].readKey
        BY <2>6, <3>4, <2>c DEF Kill
      <4>2. /\ PublicInv'
            /\ \A q \in Run : pc[q] = "savePublic" =>
                  /\ priv'[run[q].cmd.user] = run[q].key
                  /\ ~HasPublic(run[q].cmd.user) /\ run[q].key \in Pair
        BY <3>4, <4>1, <2>c, PrivateWritten DEF Owner
      <4>3. RegisteredInv' /\ \A w, key : Sent(w, key) => Sent(w, key)'
        BY <3>1, <3>4, <2>f, <2>i
      <4>4. \A q \in Run \ {p} : KeyOK(pc[q], run[q])'
        BY <3>4, <4>2, <4>3, <2>e DEF KeyOK, HasPublic
      <4> QED
        BY <3>2, <4>2, <4>3, <4>4 DEF MovingInv
    <3>5. CASE /\ At(p, "savePublic") /\ UNCHANGED priv
               /\ \E left \in {Empty, CutKey(run[p].key)} : pub' = [pub EXCEPT ![Owner(p)] = left]
      <4>1. PICK left \in {Empty, CutKey(run[p].key)} : pub' = [pub EXCEPT ![Owner(p)] = left]
        BY <3>5
      <4>2. Owner(p) \in User
        BY <3>5, <2>b DEF Saved, Owner
      <4>3. pub'[Owner(p)] = left
        BY <4>1, <4>2, <1>a DEF KeyTypes
      <4>4. left = CutKey(run[p].key) => "public" \in torn'
        BY <2>6, <3>5, <4>3 DEF Kill
      <4>5. /\ PublicInv' /\ \A w \in User : HasPublic(w) => pub'[w] = pub[w]
            /\ \A q \in Run \ {p} : pc[q] = "savePublic" =>
                  run[q].cmd.user \in User /\ pub'[run[q].cmd.user] = pub[run[q].cmd.user]
        BY <3>5, <4>1, <4>4, <2>c, PublicWritten
      <4>6. RegisteredInv' /\ \A w, key : Sent(w, key) => Sent(w, key)'
        BY <3>1, <4>5, <2>f, <2>i
      <4>7. \A q \in Run \ {p} : KeyOK(pc[q], run[q])'
        BY <3>5, <4>5, <4>6, <2>e DEF KeyOK, HasPublic
      <4> QED
        BY <3>2, <4>5, <4>6, <4>7 DEF MovingInv
    <3> QED
      BY <2>6, <3>3, <3>4, <3>5 DEF Kill
  <2>7. CASE ~(\/ generateKeyPair(p) \/ savePrivateKey(p) \/ savePublicKey(p)
               \/ ensureHasAuthKey(p) \/ executeCreateUserThroughPipe(p)
               \/ executeCreateUserThroughRpc(p) \/ Kill(p))
    BY <2>7, <1>a, <2>c, <2>d, KeyKeeps DEF Effects
  <2> QED
    BY <2>1, <2>2, <2>3, <2>4, <2>5, <2>6, <2>7
<1> QED
  BY <1>1, <1>2, <1>3 DEF Next

-----------------------------------------------------------------------------
(* The redirects and the settings *)

\* As long as nothing is torn the redirects that were written are in the file
\* or on their way to it.
LEMMA NextStateFile ==
    ASSUME UserSetupAssumption, IInv, [Next]_vars PROVE StateInv'
<1>a. RunInv /\ StateInv /\ StateTypes
  BY DEF IInv, FileInv
<1>1. CASE UNCHANGED vars
  BY <1>1, <1>a DEF vars, StateInv
<1>2. CASE ControllerTakes
  BY <1>2, <1>a DEF ControllerTakes, StateInv
<1>3. ASSUME NEW p \in Run, Step(p) PROVE StateInv'
  <2> USE <1>3
  <2>a. RunOK(pc[p], run[p]) /\ DOMAIN pc = Run
    BY <1>a DEF RunInv
  <2>b. Effects(p) /\ \A q \in Run \ {p} : pc'[q] = pc[q] /\ run'[q] = run[q]
    BY <1>a, Frame, StepEffects
  <2>1. CASE writeStateFile(p)
    <3>1. /\ pc'[p] = "saveState" /\ pc[p] = "openState" /\ state' = {}
          /\ run'[p] = run[p] /\ redirects' = redirects
      BY <2>1, <2>a DEF writeStateFile, Go
    <3>2. SUFFICES ASSUME "state" \notin torn'
                   PROVE  redirects \subseteq run[p].state
                       /\ \A q \in Run \ {p} : ~At(q, "saveState")
      BY <2>b, <3>1, <3>2 DEF StateInv
    <3>3. /\ "state" \notin torn /\ state = run[p].readState
          /\ \A q \in Run \ {p} : ~At(q, "saveState")
      BY <2>1, <3>2 DEF writeStateFile, Tear, Open
    <3>4. redirects \subseteq state
      BY <3>1, <3>3, <1>a DEF StateInv
    <3>5. redirects \subseteq state \ Garbled
      BY <3>4, <1>a DEF StateTypes, Garbled, UserSetupAssumption
    <3> QED
      BY <3>3, <3>5, <2>a DEF RunOK
  <2>2. CASE StateWritten(p)
    <3>1. pc[p] = "saveState" /\ pc'[p] # "saveState"
      BY <2>2, <2>a DEF StateWritten, Go, RunOK
    <3>2. SUFFICES ASSUME "state" \notin torn'
                   PROVE  redirects' \subseteq state' /\ \A q \in Run : pc'[q] # "saveState"
      BY <3>2 DEF StateInv
    <3>3. /\ "state" \notin torn /\ redirects' = redirects \cup run[p].state
          /\ state' \in OverwrittenState(run[p].state, state)
      BY <2>2, <3>2 DEF StateWritten, Tear
    <3>4. /\ redirects \subseteq run[p].state /\ state = {}
          /\ \A q \in Run \ {p} : pc[q] # "saveState"
      BY <3>1, <3>3, <1>a DEF StateInv
    <3> QED
      BY <3>1, <3>3, <3>4, <2>b DEF OverwrittenState
  <2>3. CASE UNCHANGED <<state, redirects>> /\ ~writeStateFile(p) /\ ~StateWritten(p)
    <3>1. torn \subseteq torn' /\ pc'[p] # "saveState"
      BY <2>b, <2>3 DEF Effects
    <3>2. CASE pc[p] = "saveState"
      <4>1. "state" \in torn'
        BY <2>b, <2>3, <3>2 DEF Effects, Kill
      <4> QED
        BY <4>1 DEF StateInv
    <3>3. CASE pc[p] # "saveState"
      BY <2>3, <2>b, <3>1, <3>3, <1>a DEF StateInv
    <3> QED
      BY <3>2, <3>3
  <2> QED
    BY <2>b, <2>1, <2>2, <2>3 DEF Effects
<1> QED
  BY <1>1, <1>2, <1>3 DEF Next

\* As long as nothing is torn what the configuration was known to say is in the
\* file or on its way to it: the edited text says everything the one that was
\* read did.
LEMMA NextSettings ==
    ASSUME UserSetupAssumption, IInv, [Next]_vars PROVE SettingInv'
<1>a. RunInv /\ SettingInv /\ ConfInv
  BY DEF IInv, FileInv
<1>1. CASE UNCHANGED vars
  BY <1>1, <1>a DEF vars, SettingInv
<1>2. CASE ControllerTakes
  BY <1>2, <1>a DEF ControllerTakes, SettingInv
<1>3. ASSUME NEW p \in Run, Step(p) PROVE SettingInv'
  <2> USE <1>3
  <2>a. RunOK(pc[p], run[p]) /\ DOMAIN pc = Run
    BY <1>a DEF RunInv
  <2>b. Effects(p) /\ \A q \in Run \ {p} : pc'[q] = pc[q] /\ run'[q] = run[q]
    BY <1>a, Frame, StepEffects
  <2>c. torn \subseteq torn'
    BY <2>b DEF Effects
  <2>1. CASE OpenToSave(p) /\ conf' = [there |-> TRUE, text |-> <<>>]
    <3>1. CASE /\ Tear("conf", Open(p, "saveConfig") \/ conf.text # run[p].readText)
               /\ Go(p, "saveConfig") /\ UNCHANGED run
      <4>1. /\ pc[p] = "openConfig" /\ pc'[p] = "saveConfig" /\ conf'.text = <<>>
            /\ run'[p] = run[p] /\ settings' = settings
        BY <2>1, <3>1, <2>a DEF OpenToSave, Go
      <4>2. SUFFICES ASSUME "conf" \notin torn'
                     PROVE  settings \subseteq SettingsOf(run[p].edit)
                         /\ \A q \in Run \ {p} : ~At(q, "saveConfig")
        BY <2>b, <4>1, <4>2 DEF SettingInv
      <4>3. /\ "conf" \notin torn /\ conf.text = run[p].readText
            /\ \A q \in Run \ {p} : ~At(q, "saveConfig")
        BY <3>1, <4>2 DEF Tear, Open
      <4>4. settings \subseteq SettingsOf(conf.text)
        BY <4>1, <4>3, <1>a DEF SettingInv
      <4>5. SettingsOf(run[p].readText) \subseteq SettingsOf(run[p].edit)
        BY <4>1, <2>a DEF RunOK, Editing
      <4> QED
        BY <4>3, <4>4, <4>5
    <3>2. CASE Leave(p) /\ UNCHANGED <<conf, torn>>
      BY <2>1, <2>a, <2>b, <3>2, <1>a DEF OpenToSave, Leave, Go, SettingInv
    <3> QED
      BY <2>1, <3>1, <3>2 DEF OpenToSave
  <2>2. CASE save(p)
    <3>1. SUFFICES ASSUME "conf" \notin torn' PROVE SettingInv'
      BY DEF SettingInv
    <3>2. /\ "conf" \notin torn /\ pc[p] = "saveConfig" /\ pc'[p] = "checkKey"
          /\ settings' = settings \cup SettingsOf(run[p].edit)
          /\ \E text \in Overwritten(run[p].edit, conf.text) : conf' = [conf EXCEPT !.text = text]
      BY <2>2, <3>1, <2>a DEF save, Tear, Go
    <3>3. /\ settings \subseteq SettingsOf(run[p].edit) /\ conf.text = <<>>
          /\ \A q \in Run \ {p} : pc[q] # "saveConfig"
      BY <3>2, <1>a DEF SettingInv
    <3>4. run[p].edit \in Text /\ conf.text \in Text
      BY <2>a, <1>a DEF RunOK, ConfInv
    <3>5. conf'.text = run[p].edit
      <4>1. Overwritten(run[p].edit, conf.text) = {run[p].edit}
        BY <3>3, <3>4, OverwrittenText
      <4>2. \A text : [conf EXCEPT !.text = text].text = text
        BY <1>a DEF ConfInv
      <4> QED
        BY <3>2, <4>1, <4>2
    <3> QED
      BY <3>2, <3>3, <3>5, <2>b DEF SettingInv
  <2>3. CASE TemplateFlushed(p)
    <3>1. SUFFICES ASSUME "conf" \notin torn' PROVE SettingInv'
      BY DEF SettingInv
    <3>2. PICK part \in Cut(Template) :
             /\ conf' = [conf EXCEPT !.text = @ \o part]
             /\ Tear("conf", part # Template \/ Open(p, "saveConfig"))
      BY <2>3 DEF TemplateFlushed
    <3>3. /\ "conf" \notin torn /\ part = Template /\ UNCHANGED settings
          /\ \A q \in Run \ {p} : pc[q] # "saveConfig"
          /\ pc[p] = "fillTemplate" /\ pc'[p] = "loadConfig"
      BY <2>3, <3>1, <3>2, <2>a DEF TemplateFlushed, Tear, Open, Go
    <3>4. settings \subseteq SettingsOf(conf.text)
      BY <3>3, <1>a DEF SettingInv
    <3>5. SettingsOf(conf.text) \subseteq SettingsOf(conf.text \o Template)
      <4> DEFINE S == Node(Name, User \cup Url)
      <4> HIDE DEF S
      <4>1. conf.text \in Seq(S) /\ Template \in Seq(S)
        BY <1>a, TemplateText DEF ConfInv, Text, S
      <4> QED
        BY <4>1, AppendKeeps
    <3>6. conf'.text = conf.text \o Template
      BY <3>2, <3>3, <1>a DEF ConfInv
    <3> QED
      BY <3>3, <3>4, <3>5, <3>6, <2>b DEF SettingInv
  <2>4. CASE createConfigFiles(p)
    <3>1. /\ conf'.text = conf.text /\ UNCHANGED settings
          /\ pc[p] # "saveConfig" /\ pc'[p] # "saveConfig"
      BY <2>4, <2>a, <1>a DEF createConfigFiles, Go, ConfInv
    <3> QED
      BY <3>1, <2>b, <2>c, <1>a DEF SettingInv
  <2>5. CASE UNCHANGED <<conf, settings>> /\ ~save(p)
    <3>1. CASE pc[p] = "saveConfig"
      <4>1. "conf" \in torn'
        BY <2>b, <2>5, <3>1 DEF Effects, Kill
      <4> QED
        BY <4>1 DEF SettingInv
    <3>2. CASE pc[p] # "saveConfig" /\ pc'[p] # "saveConfig"
      BY <2>5, <2>b, <2>c, <3>2, <1>a DEF SettingInv
    <3>3. CASE pc'[p] = "saveConfig" /\ pc[p] # "saveConfig"
      <4>1. OpenToSave(p)
        BY <2>b, <3>3 DEF Effects
      <4>2. conf' = [there |-> TRUE, text |-> <<>>]
        BY <3>3, <4>1, <2>a DEF OpenToSave, Leave, Go
      <4> QED
        BY <2>1, <4>1, <4>2
    <3> QED
      BY <3>1, <3>2, <3>3
  <2>6. OpenToSave(p) => conf' = [there |-> TRUE, text |-> <<>>] \/ UNCHANGED <<conf, settings>>
    BY DEF OpenToSave
  <2> QED
    BY <2>b, <2>1, <2>2, <2>3, <2>4, <2>5, <2>6 DEF Effects
<1> QED
  BY <1>1, <1>2, <1>3 DEF Next

-----------------------------------------------------------------------------
LEMMA InitInv == ASSUME UserSetupAssumption, Init PROVE IInv
<1>a. NoFile \in KeyFile /\ NoFile \notin Pair /\ MaxRuns \in Nat /\ MaxKeys \in Nat
  BY CutKeys DEF UserSetupAssumption
<1>1. RunInv
  BY NoRunOK DEF Init, RunInv
<1>2. ConfInv /\ StateTypes /\ CountInv
  <2>1. PICK text \in Config : conf = [there |-> text # <<>>, text |-> text]
    BY DEF Init
  <2>2. ConfInv
    BY <2>1 DEF Init, ConfInv, Text, UserSetupAssumption
  <2> QED
    BY <1>a, <2>2 DEF Init, StateTypes, CountInv, UserSetupAssumption
<1>3. KeyTypes
  BY <1>a DEF Init, KeyTypes
<1>4. AccountTypes
  <2>1. \A u \in User : account[u] \in [there : BOOLEAN, key : KeyFile, password : BOOLEAN]
    BY <1>a DEF Init, NoAccount
  <2>2. account = [u \in User |-> account[u]] /\ fifo = <<>>
    BY DEF Init
  <2> QED
    BY <2>1, <2>2 DEF AccountTypes
<1>5. KeyInv
  <2>1. \A u \in User : account[u].key = NoFile
    BY DEF Init, NoAccount
  <2>2. PublicInv /\ RegisteredInv
    BY <1>a, <2>1 DEF Init, PublicInv, HasPublic, RegisteredInv, Sent
  <2>3. MovingInv
    BY <1>a, NoRunOK DEF Init, MovingInv, AloneInv, KeyOK, Sent
  <2> QED
    BY <2>2, <2>3 DEF KeyInv
<1>6. StateInv
  BY DEF Init, StateInv
<1>7. SettingInv
  BY DEF Init, SettingInv
<1> QED
  BY <1>1, <1>2, <1>3, <1>4, <1>5, <1>6, <1>7 DEF IInv, FileInv

THEOREM Invariance == ASSUME UserSetupAssumption PROVE Spec => []IInv
<1>1. Init => IInv
  BY InitInv
<1>2. IInv /\ [Next]_vars => IInv'
  BY NextRun, NextConf, NextState, NextKeys, NextAccounts, NextCounts, NextKey, NextStateFile,
     NextSettings DEF IInv, FileInv
<1> QED
  BY <1>1, <1>2, PTL DEF Spec

\* The files, the accounts and the memory of the runs have their types.
THEOREM TypeCorrect == ASSUME UserSetupAssumption PROVE Spec => []TypeOK
<1>1. ASSUME IInv PROVE TypeOK
  <2> USE <1>1 DEF IInv
  <2>1. pc \in [Run -> Place]
    BY DEF RunInv, RunOK
  <2>2. ConfInv /\ StateTypes /\ KeyTypes /\ AccountTypes /\ CountInv
    BY DEF FileInv
  <2>3. \A i \in DOMAIN fifo : fifo[i] \in AccountRequest
    BY <2>2 DEF AccountTypes
  <2>4. \A p \in Run : /\ run[p].cmd \in Command \cup {NoRun.cmd}
                       /\ run[p].state \subseteq Url
                       /\ run[p].through \in {"none", "rpc", "pipe", "oldPipe"}
                       /\ run[p].exit \in ExitStatus
    BY DEF RunInv, RunOK
  <2> QED
    BY <2>1, <2>2, <2>3, <2>4
       DEF TypeOK, ConfInv, Text, StateTypes, KeyTypes, AccountTypes, CountInv
<1> QED
  BY <1>1, Invariance, PTL

\* The key the controller has, or will read from its pipe, is the text of the
\* user's public key file and of the pair whose private key is beside it, after
\* any number of failed, killed and repeated creations (ensureHasAuthKey,
\* saveKeys, executeCreateUserThroughPipe); it is the whole key as long as no
\* write of a public key was cut short.
THEOREM KeyCorrect == ASSUME UserSetupAssumption PROVE Spec => []RegisteredKeyIsOnDisk
<1>1. ASSUME IInv, "keys" \notin torn, NEW u, NEW key, Sent(u, key), key # NoFile
      PROVE  key = pub[u] /\ PairOf(key) = priv[u] /\ ("public" \notin torn => key \in Pair)
  BY <1>1 DEF IInv, KeyInv, PublicInv, Sent
<1>2. IInv => RegisteredKeyIsOnDisk
  <2> SUFFICES ASSUME IInv, "keys" \notin torn,
                      NEW registered \in {<<u, account[u].key>> : u \in User} \cup
                                         {<<fifo[i].user, fifo[i].key>> : i \in DOMAIN fifo},
                      registered[2] # NoFile
               PROVE  /\ registered[2] = pub[registered[1]]
                      /\ PairOf(registered[2]) = priv[registered[1]]
                      /\ "public" \notin torn => registered[2] \in Pair
    BY DEF RegisteredKeyIsOnDisk
  <2>1. Sent(registered[1], registered[2])
    BY DEF IInv, KeyInv, RegisteredInv
  <2> QED
    BY <2>1, <1>1
<1> QED
  BY <1>2, Invariance, PTL

\* A redirect that was saved stays in the state file (writeStateFile writes all
\* of it from a copy), unless two runs overlap or a write is cut short.
THEOREM RedirectsCorrect == ASSUME UserSetupAssumption PROVE Spec => []RedirectsSurvive
<1>1. IInv => RedirectsSurvive
  BY DEF IInv, StateInv, RedirectsSurvive
<1> QED
  BY <1>1, Invariance, PTL

\* Nothing that the configuration was known to say is lost or changed by the
\* creation of a user (parseSourceFile, setVariable, save), whatever the text
\* says and whichever runs fail or are killed, unless a write of the file was
\* cut short or overlapped with another run's.
THEOREM SettingsCorrect == ASSUME UserSetupAssumption PROVE Spec => []SettingsSurvive
<1>1. IInv => SettingsSurvive
  BY DEF IInv, SettingInv, SettingsSurvive
<1> QED
  BY <1>1, Invariance, PTL

\* A creation that asked for nothing says so with its exit status, except
\* through the pipe of a new controller with a password and no key.
THEOREM ExitCorrect == ASSUME UserSetupAssumption PROVE Spec => []AskedOrReported
<1>1. IInv => AskedOrReported
  <2>1. ASSUME IInv, NEW p \in Run, At(p, "done"), run[p].cmd.kind = "create", run[p].saved,
               ~(run[p].through = "pipe" /\ run[p].cmd.secret)
        PROVE  run[p].asked \/ run[p].exit # "ok"
    <3>1. RunOK("done", run[p])
      BY <2>1 DEF IInv, RunInv
    <3> QED
      BY <2>1, <3>1 DEF RunOK
  <2> QED
    BY <2>1 DEF AskedOrReported
<1> QED
  BY <1>1, Invariance, PTL
=============================================================================
