----------------------------- MODULE Commander -----------------------------
(***************************************************************************)
(* "s9s tree --watch": S9sCommander with its two threads.  The main thread *)
(* (main, updateTree, updateObject) keeps the tree, the info panel and a   *)
(* viewed file up to date; the display thread (S9sDisplay::exec,           *)
(* processKey, processButton) handles one key at a time.  They share the   *)
(* widgets under m_mutex, the RPC client under m_networkMutex, and the     *)
(* flags under nothing.                                                    *)
(*                                                                         *)
(* The controller is one revision number that every change increments; the *)
(* tree is the revision it was read at, an object the path it belongs to.  *)
(* One browser with the info panel beside it stands for the two symmetric  *)
(* pairs.  A local variable, a reply or a closed editor nobody will read   *)
(* again goes back to its first value, to keep the number of states down.  *)
(***************************************************************************)
EXTENDS Integers, FiniteSets

CONSTANTS
    Path,       \* entries of the tree
    MaxRev,     \* bound: changes the user makes
    MayFail,    \* whether the controller may refuse a request
    MayExpire,  \* whether the controller may forget the session
    None        \* no path

ASSUME CommanderAssumption ==
    /\ Path # {}
    /\ None \notin Path
    /\ MaxRev \in Nat
    /\ MayFail \in BOOLEAN
    /\ MayExpire \in BOOLEAN

VARIABLES
    screen,             \* the thread that holds m_mutex
    net,                \* the thread that holds m_networkMutex
    mainPc, want,       \* where the main thread is, and what it fetches
    path,               \* its local variable path
    mainReply,          \* its local variable reply
    updateRequested,    \* its local variable updateRequested, "unset" before the loop
    dispPc, key,        \* where the display thread is, and the key it handles
    inside,             \* the threads that are in a request of m_client
    reply,              \* m_client.reply()
    authenticated,      \* m_client.isAuthenticated()
    reloadRequested,    \* m_reloadRequested
    communicating,      \* m_communicating
    rev, acked,         \* the controller: its revision, the last one it confirmed
    treeRev, treeOk,    \* m_rootNode, and whether the last getTree succeeded
    selected,           \* the selection of the browser
    info, infoInvalid,  \* the info panel
    editor,             \* m_editor: its mode, its path and its lines
    dialog,             \* m_dialog is open
    errorDialog,        \* m_errorDialog is open
    waiting             \* m_waitingForKeyPress

locks   == <<screen, net>>
mainLoc == <<mainPc, want, path, mainReply, updateRequested>>
dispLoc == <<dispPc, key>>
client  == <<inside, reply, authenticated>>
flags   == <<reloadRequested, communicating>>
remote  == <<rev, acked>>
tree    == <<treeRev, treeOk>>
panel   == <<info, infoInvalid>>
dialogs == <<dialog, errorDialog, waiting>>
vars == <<locks, mainLoc, dispLoc, client, flags, remote, tree, selected, panel, editor, dialogs>>

Thread == {"main", "display"}
Rev    == 0..MaxRev

\* What a widget shows: the object of a path, or what stands in its place.
Blank == "blank"
Typed == "typed"

Want    == {"tree", "object", "view"}
WebKeys == {"change", "save", "load", "run"}
NoReply == [of |-> "none", what |-> "none", ok |-> FALSE, path |-> None, rev |-> 0]
Reply   == [of : Thread \cup {"none"}, what : Want \cup WebKeys \cup {"none", "login"},
            ok : BOOLEAN, path : Path \cup {None}, rev : Rev]

NoEditor == [mode |-> "closed", path |-> None, lines |-> Blank]

Init ==
    /\ screen = "none" /\ net = "none"
    /\ mainPc = "name" /\ want = "tree"
    /\ path = None
    /\ mainReply = NoReply
    /\ updateRequested = "unset"
    /\ dispPc = "idle" /\ key = "none"
    /\ inside = {}
    /\ reply = NoReply
    /\ authenticated = TRUE
    /\ reloadRequested = FALSE
    /\ communicating = FALSE
    /\ rev = 0 /\ acked = 0
    /\ treeRev = 0 /\ treeOk = TRUE
    /\ selected \in Path
    /\ info = [path |-> None, object |-> Blank]
    /\ infoInvalid = TRUE
    /\ editor = NoEditor
    /\ dialog = FALSE /\ errorDialog = FALSE /\ waiting = FALSE

----------------------------------------------------------------------------
(* One request of m_client: doExecuteRequest clears the reply, talks to    *)
(* the controller and sets the reply.                                      *)

Begin(t) ==
    /\ inside' = inside \cup {t}
    /\ reply' = NoReply
    /\ UNCHANGED authenticated

\* The outcome of a request of thread t about path p, at revision r.
Finish(t, what, p, r, ok, stays) ==
    /\ inside' = inside \ {t}
    /\ reply' = [of |-> t, what |-> what, ok |-> ok, path |-> p, rev |-> r]
    /\ authenticated' = stays

\* Whether the request succeeds, and whether the client is authenticated after.
Outcome ==
    {<<TRUE, authenticated>>}
    \cup (IF MayFail THEN {<<FALSE, authenticated>>} ELSE {})
    \cup (IF MayExpire THEN {<<FALSE, FALSE>>} ELSE {})

----------------------------------------------------------------------------
(* The main thread: S9sCommander::main *)

Goto(pc, w) == mainPc' = pc /\ want' = w

CheckSession ==
    /\ mainPc = "session"
    /\ Goto(IF authenticated THEN "reload" ELSE "login", "tree")
    /\ UNCHANGED <<locks, path, mainReply, updateRequested, dispLoc, client, flags, remote,
                   tree, selected, panel, editor, dialogs>>

\* maybeAuthenticate() uses the client without m_networkMutex.
Login ==
    /\ mainPc = "login"
    /\ Goto("loggingIn", "tree")
    /\ Begin("main")
    /\ UNCHANGED <<locks, path, mainReply, updateRequested, dispLoc, flags, remote,
                   tree, selected, panel, editor, dialogs>>

\* isAuthenticated() again: after a failure the thread sleeps and tries again.
LoggedIn ==
    /\ mainPc = "loggingIn"
    /\ \E ok \in BOOLEAN :
        /\ Goto(IF ok THEN "reload" ELSE "login", "tree")
        /\ Finish("main", "login", None, rev, ok, ok)
    /\ UNCHANGED <<locks, path, mainReply, updateRequested, dispLoc, flags, remote,
                   tree, selected, panel, editor, dialogs>>

\* The first of the two reads of m_reloadRequested.
ReadReload ==
    /\ mainPc = "reload"
    /\ updateRequested' = IF reloadRequested THEN "yes" ELSE "no"
    /\ Goto("decide", "tree")
    /\ UNCHANGED <<locks, path, mainReply, dispLoc, client, flags, remote,
                   tree, selected, panel, editor, dialogs>>

\* The second one.  Ten seconds may have passed since the tree came.
Decide ==
    /\ mainPc = "decide"
    /\ \/ Goto("name", "tree")
       \/ ~reloadRequested /\ Goto("look", "object")
    /\ UNCHANGED <<locks, path, mainReply, updateRequested, dispLoc, client, flags, remote,
                   tree, selected, panel, editor, dialogs>>

\* setInfoRequestName() under m_mutex, for the tree and for an object.
NameRequest ==
    /\ mainPc = "name"
    /\ screen = "none"
    /\ Goto(IF want = "tree" THEN "raise" ELSE "net", want)
    /\ UNCHANGED <<locks, path, mainReply, updateRequested, dispLoc, client, flags, remote,
                   tree, selected, panel, editor, dialogs>>

RaiseCommunicating ==
    /\ mainPc = "raise"
    /\ communicating' = TRUE
    /\ Goto("clear", "tree")
    /\ UNCHANGED <<locks, path, mainReply, updateRequested, dispLoc, client, reloadRequested, remote,
                   tree, selected, panel, editor, dialogs>>

ClearReload ==
    /\ mainPc = "clear"
    /\ reloadRequested' = FALSE
    /\ Goto("net", "tree")
    /\ UNCHANGED <<locks, path, mainReply, updateRequested, dispLoc, client, communicating, remote,
                   tree, selected, panel, editor, dialogs>>

\* m_networkMutex.lock() and the start of getTree() or getObject().
MainSends ==
    /\ mainPc = "net"
    /\ net = "none"
    /\ net' = "main"
    /\ Begin("main")
    /\ path' = IF want = "view" THEN editor.path ELSE path
    /\ Goto("request", want)
    /\ UNCHANGED <<screen, mainReply, updateRequested, dispLoc, flags, remote,
                   tree, selected, panel, editor, dialogs>>

MainAnswered ==
    /\ mainPc = "request"
    /\ \E o \in Outcome : Finish("main", want, path, rev, o[1], o[2])
    /\ Goto("take", want)
    /\ UNCHANGED <<locks, path, mainReply, updateRequested, dispLoc, flags, remote,
                   tree, selected, panel, editor, dialogs>>

\* Mistake: the tree is read again while a reload is requested, without
\* giving the mutex away.
MainTakesAgain ==
    /\ mainPc = "take"
    /\ IF want = "tree" /\ reloadRequested
       THEN Goto("request", want) /\ inside' = {"main"} /\ UNCHANGED <<net, mainReply>>
       ELSE Goto("apply", want) /\ net' = "none" /\ mainReply' = reply /\ UNCHANGED inside
    /\ reply' = NoReply
    /\ UNCHANGED <<screen, path, updateRequested, dispLoc, authenticated, flags, remote,
                   tree, selected, panel, editor, dialogs>>

\* reply = m_client.reply(); m_networkMutex.unlock().
MainTakes ==
    /\ mainPc = "take"
    /\ mainReply' = reply
    /\ net' = "none"
    /\ Goto("apply", want)
    /\ reply' = NoReply
    /\ UNCHANGED <<screen, path, updateRequested, dispLoc, inside, authenticated, flags, remote,
                   tree, selected, panel, editor, dialogs>>

\* Mistake: the request for a reload is cleared when the tree has come.
ApplyTreeAndClear ==
    /\ mainPc = "apply" /\ want = "tree"
    /\ screen = "none"
    /\ treeOk' = mainReply.ok
    /\ treeRev' = IF mainReply.ok THEN mainReply.rev ELSE treeRev
    /\ communicating' = FALSE
    /\ reloadRequested' = FALSE
    /\ Goto(IF updateRequested = "unset" THEN "session" ELSE "look", "object")
    /\ path' = None /\ mainReply' = NoReply
    /\ UNCHANGED <<locks, updateRequested, dispLoc, client, remote,
                   selected, panel, editor, dialogs>>

\* The end of updateTree(), which main() calls before its loop and in it.
ApplyTree ==
    /\ mainPc = "apply" /\ want = "tree"
    /\ screen = "none"
    /\ treeOk' = mainReply.ok
    /\ treeRev' = IF mainReply.ok THEN mainReply.rev ELSE treeRev
    /\ communicating' = FALSE
    /\ Goto(IF updateRequested = "unset" THEN "session" ELSE "look", "object")
    /\ path' = None /\ mainReply' = NoReply
    /\ UNCHANGED <<locks, updateRequested, dispLoc, client, reloadRequested, remote,
                   selected, panel, editor, dialogs>>

\* updateObject(bool): the selection is read without m_mutex, so it may be any
\* path.  Fifteen seconds may have passed since the object was set.
LookAtObject ==
    /\ mainPc = "look" /\ want = "object"
    /\ \E p \in Path :
        \/ /\ path' = p
           /\ Goto("check", "object")
        \/ /\ p = info.path /\ ~infoInvalid /\ updateRequested # "yes"
           /\ path' = None
           /\ Goto("look", "view")
    /\ UNCHANGED <<locks, mainReply, updateRequested, dispLoc, client, flags, remote,
                   tree, selected, panel, editor, dialogs>>

\* updateObject(path, infoPanel) does nothing while the editor is visible.
CheckEditorClosed ==
    /\ mainPc = "check"
    /\ IF editor.mode = "closed"
       THEN Goto("name", "object") /\ UNCHANGED path
       ELSE Goto("look", "view") /\ path' = None
    /\ updateRequested' = "no"
    /\ UNCHANGED <<locks, mainReply, dispLoc, client, flags, remote,
                   tree, selected, panel, editor, dialogs>>

\* Mistake: the object is filed under the path that is selected by now.
ApplyObjectToSelected ==
    /\ mainPc = "apply" /\ want = "object"
    /\ screen = "none"
    /\ info' = [path |-> selected, object |->
                  IF mainReply.ok THEN mainReply.path ELSE Blank]
    /\ infoInvalid' = FALSE
    /\ Goto("look", "view")
    /\ path' = None /\ mainReply' = NoReply
    /\ UNCHANGED <<locks, updateRequested, dispLoc, client, flags, remote,
                   tree, selected, editor, dialogs>>

\* setInfoObject() under m_mutex.
ApplyObject ==
    /\ mainPc = "apply" /\ want = "object"
    /\ screen = "none"
    /\ info' = [path |-> path, object |->
                  IF mainReply.ok THEN mainReply.path ELSE Blank]
    /\ infoInvalid' = FALSE
    /\ Goto("look", "view")
    /\ path' = None /\ mainReply' = NoReply
    /\ UNCHANGED <<locks, updateRequested, dispLoc, client, flags, remote,
                   tree, selected, editor, dialogs>>

\* The first look at the editor, without m_mutex.
LookAtEditor ==
    /\ mainPc = "look" /\ want = "view"
    /\ Goto(IF editor.mode = "view" THEN "lock" ELSE "session", "view")
    /\ UNCHANGED <<locks, path, mainReply, updateRequested, dispLoc, client, flags, remote,
                   tree, selected, panel, editor, dialogs>>

\* Mistake: the editor is not looked at again.
LockForEditorOnce ==
    /\ mainPc = "lock"
    /\ screen = "none"
    /\ screen' = "main"
    /\ Goto("net", "view")
    /\ UNCHANGED <<net, path, mainReply, updateRequested, dispLoc, client, flags, remote,
                   tree, selected, panel, editor, dialogs>>

\* updateObject(path, editor) holds m_mutex to its end, and looks again: the
\* file is read anew when it is still viewed and two seconds have passed.
LockForEditor ==
    /\ mainPc = "lock"
    /\ screen = "none"
    /\ \/ /\ editor.mode = "view"
          /\ screen' = "main"
          /\ Goto("net", "view")
       \/ UNCHANGED screen /\ Goto("session", "tree")
    /\ UNCHANGED <<net, path, mainReply, updateRequested, dispLoc, client, flags, remote,
                   tree, selected, panel, editor, dialogs>>

ApplyView ==
    /\ mainPc = "apply" /\ want = "view"
    /\ editor' = IF mainReply.ok THEN [editor EXCEPT !.path = path, !.lines = mainReply.path] ELSE editor
    /\ screen' = "none"
    /\ Goto("session", "tree")
    /\ path' = None /\ mainReply' = NoReply
    /\ UNCHANGED <<net, updateRequested, dispLoc, client, flags, remote,
                   tree, selected, panel, dialogs>>

----------------------------------------------------------------------------
(* The display thread: keys that are handled at once.  m_mutex is locked   *)
(* for the whole key, so the step needs it free.                           *)

\* No dialog and no editor takes the key.
Bare == ~waiting /\ ~errorDialog /\ ~dialog

Free == dispPc = "idle" /\ screen = "none"

AnyKeyAfterJob ==
    /\ Free /\ waiting
    /\ waiting' = FALSE
    /\ UNCHANGED <<locks, mainLoc, dispLoc, client, flags, remote, tree, selected, panel, editor,
                   dialog, errorDialog>>

CloseErrorDialog ==
    /\ Free /\ ~waiting /\ errorDialog
    /\ errorDialog' = FALSE
    /\ UNCHANGED <<locks, mainLoc, dispLoc, client, flags, remote, tree, selected, panel, editor,
                   dialog, waiting>>

CancelDialog ==
    /\ Free /\ ~waiting /\ ~errorDialog /\ dialog
    /\ dialog' = FALSE
    /\ UNCHANGED <<locks, mainLoc, dispLoc, client, flags, remote, tree, selected, panel, editor,
                   errorDialog, waiting>>

OpenDialog ==
    /\ Free /\ Bare /\ editor.mode = "closed"
    /\ dialog' = TRUE
    /\ UNCHANGED <<locks, mainLoc, dispLoc, client, flags, remote, tree, selected, panel, editor,
                   errorDialog, waiting>>

Select ==
    /\ Free /\ Bare /\ editor.mode = "closed"
    /\ selected' \in Path \ {selected}
    /\ UNCHANGED <<locks, mainLoc, dispLoc, client, flags, remote, tree, panel, editor, dialogs>>

\* The editor changes its lines, in the view mode for some keys too.
Type ==
    /\ Free /\ Bare /\ editor.mode # "closed"
    /\ editor' = [editor EXCEPT !.lines = Typed]
    /\ UNCHANGED <<locks, mainLoc, dispLoc, client, flags, remote, tree, selected, panel, dialogs>>

CloseEditor ==
    /\ Free /\ Bare /\ editor.mode # "closed"
    /\ editor' = NoEditor
    /\ UNCHANGED <<locks, mainLoc, dispLoc, client, flags, remote, tree, selected, panel, dialogs>>

\* The reload/abort button, which no dialog hides.
ReloadButton ==
    /\ Free
    /\ IF communicating
       THEN communicating' = FALSE /\ UNCHANGED reloadRequested
       ELSE reloadRequested' = TRUE /\ UNCHANGED communicating
    /\ UNCHANGED <<locks, mainLoc, dispLoc, client, remote, tree, selected, panel, editor, dialogs>>

\* exit(0)
Quit ==
    /\ Free /\ Bare /\ editor.mode = "closed"
    /\ dispPc' = "exited"
    /\ UNCHANGED <<locks, mainLoc, key, client, flags, remote, tree, selected, panel, editor, dialogs>>

----------------------------------------------------------------------------
(* The display thread: keys that need the controller *)

\* OK in a dialog changes the tree, F2 saves the lines of the editor, F3 and F4
\* load an object into it, Enter runs an executable entry.
Allowed(k) ==
    CASE k = "change" -> ~waiting /\ ~errorDialog /\ dialog
      [] k = "save"   -> Bare /\ editor.mode # "closed"
      [] OTHER        -> Bare /\ editor.mode = "closed"

PressKey ==
    /\ Free
    /\ key' \in {k \in WebKeys : Allowed(k)}
    /\ key' \in {"change", "save"} => rev < MaxRev
    /\ screen' = "display"
    /\ dispPc' = "net"
    /\ UNCHANGED <<net, mainLoc, client, flags, remote, tree, selected, panel, editor, dialogs>>

\* Mistake: an object is loaded without m_networkMutex.
DisplaySendsUnlocked ==
    /\ dispPc = "net"
    /\ key # "load" => net = "none"
    /\ net' = IF key # "load" THEN "display" ELSE net
    /\ Begin("display")
    /\ communicating' = (communicating \/ key \in {"change", "save"})
    /\ dispPc' = "request"
    /\ UNCHANGED <<screen, mainLoc, key, reloadRequested, remote, tree, selected, panel, editor, dialogs>>

DisplaySends ==
    /\ dispPc = "net"
    /\ net = "none"
    /\ net' = "display"
    /\ Begin("display")
    /\ communicating' = (communicating \/ key \in {"change", "save"})
    /\ dispPc' = "request"
    /\ UNCHANGED <<screen, mainLoc, key, reloadRequested, remote, tree, selected, panel, editor, dialogs>>

\* A change may have been made when its reply says otherwise: it got lost.  The
\* wait for a job logs in again by itself.
DisplayAnswered ==
    /\ dispPc = "request"
    /\ \E o \in Outcome \cup (IF key = "run" /\ MayExpire THEN {<<TRUE, TRUE>>} ELSE {}) :
        /\ rev' \in IF key \notin {"change", "save"} THEN {rev}
                    ELSE IF o[1] THEN {rev + 1} ELSE {rev, rev + 1}
        /\ Finish("display", key, selected, rev', o[1], o[2])
        /\ acked' = IF key \in {"change", "save"} /\ o[1] THEN rev' ELSE acked
    /\ dispPc' = "take"
    /\ UNCHANGED <<locks, mainLoc, key, flags, tree, selected, panel, editor, dialogs>>

\* The job that was started is waited for: one more request.
RunGoesOn ==
    /\ dispPc = "take" /\ key = "run"
    /\ Begin("display")
    /\ dispPc' = "request"
    /\ UNCHANGED <<locks, mainLoc, key, flags, remote, tree, selected, panel, editor, dialogs>>

\* renameMove, createFolder, createFile, deleteEntry and saveContent.
ChangeDone ==
    /\ key \in {"change", "save"}
    /\ IF reply.ok
       THEN /\ reloadRequested' = TRUE
            /\ dialog' = (key = "save" /\ dialog)
            /\ infoInvalid' = (key = "save" \/ infoInvalid)
            /\ UNCHANGED errorDialog
       ELSE /\ errorDialog' = TRUE
            /\ UNCHANGED <<reloadRequested, dialog, infoInvalid>>
    /\ UNCHANGED <<editor, waiting>>

\* The editor opens whether or not there is an object to show.
LoadDone ==
    /\ key = "load"
    /\ \E mode \in {"view", "edit"} :
        editor' = [mode |-> mode, path |-> selected,
                   lines |-> IF reply.ok THEN reply.path ELSE Blank]
    /\ UNCHANGED <<reloadRequested, dialog, infoInvalid, errorDialog, waiting>>

RunDone ==
    /\ key = "run"
    /\ waiting' = TRUE
    /\ UNCHANGED <<reloadRequested, dialog, infoInvalid, errorDialog, editor>>

\* Mistake: the mutex is unlocked only after a success.
DisplayTakesKeepsNet ==
    /\ dispPc = "take"
    /\ ChangeDone \/ LoadDone \/ RunDone
    /\ net' = (IF reply.ok THEN "none" ELSE net)
    /\ screen' = "none"
    /\ dispPc' = "idle" /\ key' = "none"
    /\ reply' = NoReply
    /\ UNCHANGED <<mainLoc, inside, authenticated, communicating, remote, tree, selected, info>>

\* The key is handled: both mutexes are unlocked.
DisplayTakes ==
    /\ dispPc = "take"
    /\ ChangeDone \/ LoadDone \/ RunDone
    /\ net' = "none" /\ screen' = "none"
    /\ dispPc' = "idle" /\ key' = "none"
    /\ reply' = NoReply
    /\ UNCHANGED <<mainLoc, inside, authenticated, communicating, remote, tree, selected, info>>

----------------------------------------------------------------------------

\* When the display thread calls exit() nothing goes on.
Exited == dispPc = "exited" /\ UNCHANGED vars

MainStep ==
    /\ dispPc # "exited"
    /\ \/ CheckSession \/ Login \/ LoggedIn \/ ReadReload \/ Decide
       \/ NameRequest \/ RaiseCommunicating \/ ClearReload
       \/ MainSends \/ MainAnswered \/ MainTakes
       \/ ApplyTree \/ LookAtObject \/ CheckEditorClosed \/ ApplyObject
       \/ LookAtEditor \/ LockForEditor \/ ApplyView

LocalKey ==
    \/ AnyKeyAfterJob \/ CloseErrorDialog \/ CancelDialog \/ OpenDialog
    \/ Select \/ Type \/ CloseEditor \/ ReloadButton \/ Quit

DisplayStep == DisplaySends \/ DisplayAnswered \/ RunGoesOn \/ DisplayTakes

Next == MainStep \/ LocalKey \/ PressKey \/ DisplayStep \/ Exited

Spec == Init /\ [][Next]_vars

\* A thread that can go on does.  The display thread leaves m_mutex free for
\* the time between two keys, so the main thread gets it (strong fairness); the
\* job that is waited for ends (strong fairness of DisplayTakes).
FairSpec == Spec /\ SF_vars(MainStep) /\ WF_vars(DisplayStep) /\ SF_vars(DisplayTakes)

----------------------------------------------------------------------------
(* Properties *)

\* The mutexes are held by the threads whose control is between lock and unlock.
LocksHeld ==
    /\ screen = "display" <=> dispPc \in {"net", "request", "take"}
    /\ net = "display" <=> dispPc \in {"request", "take"}
    /\ screen = "main" <=> want = "view" /\ mainPc \in {"net", "request", "take", "apply"}
    /\ net = "main" <=> mainPc \in {"request", "take"}

MainTypes ==
    /\ mainPc \in {"session", "login", "loggingIn", "reload", "decide", "name", "raise", "clear",
                   "net", "request", "take", "apply", "look", "check", "lock"}
    /\ want \in Want
    /\ path \in Path \cup {None}
    /\ mainReply \in Reply
    /\ updateRequested \in {"unset", "yes", "no"}

DisplayTypes ==
    /\ dispPc \in {"idle", "net", "request", "take", "exited"}
    /\ key \in IF dispPc \in {"net", "request", "take"} THEN WebKeys ELSE {"none"}

ClientTypes ==
    /\ screen \in Thread \cup {"none"} /\ net \in Thread \cup {"none"}
    /\ inside \subseteq Thread
    /\ reply \in Reply
    /\ authenticated \in BOOLEAN /\ reloadRequested \in BOOLEAN /\ communicating \in BOOLEAN
    /\ rev \in Rev /\ acked \in Rev /\ treeRev \in Rev /\ treeOk \in BOOLEAN

WidgetTypes ==
    /\ selected \in Path
    /\ info \in [path : Path \cup {None}, object : Path \cup {None, Blank}]
    /\ infoInvalid \in BOOLEAN
    /\ editor \in [mode : {"closed", "view", "edit"}, path : Path \cup {None},
                   lines : Path \cup {None, Blank, Typed}]
    /\ dialog \in BOOLEAN /\ errorDialog \in BOOLEAN /\ waiting \in BOOLEAN

TypeOK == LocksHeld /\ MainTypes /\ DisplayTypes /\ ClientTypes /\ WidgetTypes

\* While the session lasts, a thread that copies m_client.reply() finds the
\* reply to the request it has just made.
OwnReply ==
    /\ mainPc = "take" => reply.of = "main" /\ reply.what = want
    /\ dispPc = "take" => reply.of = "display" /\ reply.what = key

\* Two threads are in a request at the same time only when the main thread logs
\* in again, the one use of the client that does not take m_networkMutex.
RequestsApart == inside = Thread => mainPc = "loggingIn"

\* The main thread will read the tree without being asked again.
TreeOnItsWay == want = "tree" /\ mainPc \in {"name", "raise", "clear", "net", "request"}

\* A change the controller has confirmed is not forgotten: the tree shows it,
\* or a reload is requested or on its way, or getTree has failed since and is
\* tried again after ten seconds.
NoLostReload ==
    treeRev < acked =>
        \/ reloadRequested
        \/ TreeOnItsWay
        \/ want = "tree" /\ mainPc = "take" /\ (reply.rev >= acked \/ ~reply.ok)
        \/ want = "tree" /\ mainPc = "apply" /\ (mainReply.rev >= acked \/ ~mainReply.ok)
        \/ ~treeOk
        \/ dispPc = "take"

\* What the info panel and an editor show is the object of the path they name,
\* although the selection moves while the object is fetched.
ShownUnderItsPath ==
    /\ info.object \in {Blank, info.path}
    /\ editor.lines \in {Blank, Typed, editor.path}

\* The main thread never touches a file that is open for editing.
EditingIsSafe == [][mainPc' # mainPc /\ editor.mode = "edit" => UNCHANGED editor]_vars

\* A key is handled in the end, however the two threads meet at the mutexes.
KeysAreHandled == dispPc = "net" ~> dispPc \in {"idle", "exited"}

\* When the controller does not fail, the tree shows every confirmed change in
\* the end.
TreeCatchesUp == \A r \in 1..MaxRev : acked = r ~> treeRev >= r \/ dispPc = "exited"
=============================================================================
