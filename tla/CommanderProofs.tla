--------------------------- MODULE CommanderProofs ---------------------------
(***************************************************************************)
(* Theorems about Commander: how the two threads of "s9s tree --watch"     *)
(* share the widgets and the one RPC client, for any number of entries in  *)
(* the tree and any number of changes.                                     *)
(*                                                                         *)
(* The invariants rest on each other: the mutexes are held where the       *)
(* control is (LocksInv), so at most one thread is in a request            *)
(* (InsideWhereItIs), so a reply that is copied is the thread's own and    *)
(* about the path it asked for (RepliesMatch).                             *)
(***************************************************************************)
EXTENDS Commander, TLAPS

USE DEF locks, mainLoc, dispLoc, client, flags, remote, tree, panel, dialogs, Goto, Begin, Finish

\* The file that is viewed is read without setInfoRequestName().
LocksInv ==
    /\ LocksHeld
    /\ mainPc = "name" => want # "view"

\* A thread is in a request of the client only between Begin and Finish.
InsideWhereItIs ==
    /\ "main" \in inside <=> mainPc \in {"request", "loggingIn"}
    /\ "display" \in inside <=> dispPc = "request"

\* A change is sent only below the bound of the revisions.
BelowBound == dispPc \in {"net", "request"} /\ key \in {"change", "save"} => rev < MaxRev

TypeInv ==
    /\ BelowBound
    /\ MainTypes
    /\ DisplayTypes
    /\ ClientTypes
    /\ WidgetTypes

\* While the session lasts the main thread never logs in again, and every reply
\* that waits to be used is the one its thread has asked for.
RepliesMatch ==
    /\ authenticated = TRUE
    /\ mainPc \notin {"login", "loggingIn"}
    /\ OwnReply
    /\ mainPc = "take" => reply.path = path
    /\ dispPc = "take" => reply.path = selected
    /\ mainPc = "apply" => mainReply.path = path

-----------------------------------------------------------------------------

LEMMA LocksInvariant == Spec => []LocksInv
<1>1. Init => LocksInv
  BY DEF Init, LocksInv, LocksHeld
<1>2. LocksInv /\ [Next]_vars => LocksInv'
  <2> SUFFICES ASSUME LocksInv, [Next]_vars PROVE LocksInv'
    OBVIOUS
  <2>1. CASE MainStep
    <3>1. CASE CheckSession \/ Login \/ LoggedIn \/ ReadReload \/ Decide
      BY <3>1 DEF LocksInv, LocksHeld, CheckSession, Login, LoggedIn, ReadReload, Decide
    <3>2. CASE NameRequest \/ RaiseCommunicating \/ ClearReload
      BY <3>2 DEF LocksInv, LocksHeld, NameRequest, RaiseCommunicating, ClearReload
    <3>3. CASE MainSends
      BY <3>3 DEF LocksInv, LocksHeld, MainSends
    <3>4. CASE MainAnswered
      BY <3>4 DEF LocksInv, LocksHeld, MainAnswered
    <3>5. CASE MainTakes
      BY <3>5 DEF LocksInv, LocksHeld, MainTakes
    <3>6. CASE ApplyTree \/ ApplyObject \/ ApplyView
      BY <3>6 DEF LocksInv, LocksHeld, ApplyTree, ApplyObject, ApplyView
    <3>7. CASE LookAtObject \/ CheckEditorClosed \/ LookAtEditor
      BY <3>7 DEF LocksInv, LocksHeld, LookAtObject, CheckEditorClosed, LookAtEditor
    <3>8. CASE LockForEditor
      BY <3>8 DEF LocksInv, LocksHeld, LockForEditor
    <3> QED
      BY <2>1, <3>1, <3>2, <3>3, <3>4, <3>5, <3>6, <3>7, <3>8 DEF MainStep
  <2>2. CASE LocalKey
    BY <2>2 DEF LocksInv, LocksHeld, LocalKey, Free, AnyKeyAfterJob, CloseErrorDialog, CancelDialog,
                OpenDialog, Select, Type, CloseEditor, ReloadButton, Quit
  <2>3. CASE PressKey
    BY <2>3 DEF LocksInv, LocksHeld, PressKey, Free
  <2>4. CASE DisplayStep
    <3>1. CASE DisplaySends
      BY <3>1 DEF LocksInv, LocksHeld, DisplaySends
    <3>2. CASE DisplayAnswered
      BY <3>2 DEF LocksInv, LocksHeld, DisplayAnswered
    <3>3. CASE RunGoesOn
      BY <3>3 DEF LocksInv, LocksHeld, RunGoesOn
    <3>4. CASE DisplayTakes
      BY <3>4 DEF LocksInv, LocksHeld, DisplayTakes
    <3> QED
      BY <2>4, <3>1, <3>2, <3>3, <3>4 DEF DisplayStep
  <2>5. CASE Exited \/ UNCHANGED vars
    BY <2>5 DEF LocksInv, LocksHeld, Exited, vars
  <2> QED
    BY <2>1, <2>2, <2>3, <2>4, <2>5 DEF Next
<1> QED
  BY <1>1, <1>2, PTL DEF Spec

\* The mutexes of S9sCommander are held exactly by the threads whose control is
\* between a lock and its unlock.
THEOREM LocksCorrect == Spec => []LocksHeld
<1>1. LocksInv => LocksHeld
  BY DEF LocksInv
<1> QED
  BY <1>1, LocksInvariant, PTL

-----------------------------------------------------------------------------

LEMMA InsideInvariant == Spec => []InsideWhereItIs
<1>1. Init => InsideWhereItIs
  BY DEF Init, InsideWhereItIs
<1>2. InsideWhereItIs /\ [Next]_vars => InsideWhereItIs'
  <2> SUFFICES ASSUME InsideWhereItIs, [Next]_vars PROVE InsideWhereItIs'
    OBVIOUS
  <2>1. CASE MainStep
    <3>1. CASE CheckSession \/ ReadReload \/ Decide
      BY <3>1 DEF InsideWhereItIs, CheckSession, ReadReload, Decide
    <3>2. CASE NameRequest \/ RaiseCommunicating \/ ClearReload
      BY <3>2 DEF InsideWhereItIs, NameRequest, RaiseCommunicating, ClearReload
    <3>3. CASE Login \/ MainSends
      BY <3>3 DEF InsideWhereItIs, Login, MainSends
    <3>4. CASE LoggedIn \/ MainAnswered
      BY <3>4 DEF InsideWhereItIs, LoggedIn, MainAnswered
    <3>5. CASE MainTakes
      BY <3>5 DEF InsideWhereItIs, MainTakes
    <3>6. CASE ApplyTree \/ ApplyObject \/ ApplyView
      BY <3>6 DEF InsideWhereItIs, ApplyTree, ApplyObject, ApplyView
    <3>7. CASE LookAtObject \/ CheckEditorClosed \/ LookAtEditor \/ LockForEditor
      BY <3>7 DEF InsideWhereItIs, LookAtObject, CheckEditorClosed, LookAtEditor, LockForEditor
    <3> QED
      BY <2>1, <3>1, <3>2, <3>3, <3>4, <3>5, <3>6, <3>7 DEF MainStep
  <2>2. CASE LocalKey
    BY <2>2 DEF InsideWhereItIs, LocalKey, Free, AnyKeyAfterJob, CloseErrorDialog, CancelDialog,
                OpenDialog, Select, Type, CloseEditor, ReloadButton, Quit
  <2>3. CASE PressKey
    BY <2>3 DEF InsideWhereItIs, PressKey, Free
  <2>4. CASE DisplayStep
    BY <2>4 DEF InsideWhereItIs, DisplayStep, DisplaySends, DisplayAnswered, RunGoesOn, DisplayTakes
  <2>5. CASE Exited \/ UNCHANGED vars
    BY <2>5 DEF InsideWhereItIs, Exited, vars
  <2> QED
    BY <2>1, <2>2, <2>3, <2>4, <2>5 DEF Next
<1> QED
  BY <1>1, <1>2, PTL DEF Spec

\* The two threads use the one S9sRpcClient at the same time only when main()
\* logs in again, which it does without m_networkMutex.
THEOREM RequestsKeptApart == Spec => []RequestsApart
<1>1. LocksHeld /\ InsideWhereItIs => RequestsApart
  BY DEF LocksHeld, InsideWhereItIs, RequestsApart, Thread
<1> QED
  BY <1>1, LocksCorrect, InsideInvariant, PTL

-----------------------------------------------------------------------------

USE DEF BelowBound, MainTypes, DisplayTypes, ClientTypes, WidgetTypes

LEMMA NoReplyType == NoReply \in Reply
BY CommanderAssumption DEF NoReply, Reply, Rev

\* What a request leaves behind for its thread.
LEMMA FinishType ==
    ASSUME NEW t \in Thread, NEW what \in Want \cup WebKeys \cup {"login"},
           NEW p \in Path \cup {None}, NEW r \in Rev, NEW ok \in BOOLEAN, NEW stays,
           Finish(t, what, p, r, ok, stays)
    PROVE  reply' \in Reply
<1>1. t \in Thread \cup {"none"} /\ what \in Want \cup WebKeys \cup {"none", "login"}
  OBVIOUS
<1> QED
  BY <1>1 DEF Reply

LEMMA OutcomeType ==
    ASSUME authenticated \in BOOLEAN, NEW o \in Outcome \cup {<<TRUE, TRUE>>}
    PROVE  o[1] \in BOOLEAN /\ o[2] \in BOOLEAN
<1>1. \/ o = <<TRUE, authenticated>> \/ o = <<FALSE, authenticated>>
      \/ o = <<FALSE, FALSE>> \/ o = <<TRUE, TRUE>>
  BY ZenonT(30) DEF Outcome
<1>2. (o[1] = TRUE \/ o[1] = FALSE) /\ (o[2] = authenticated \/ o[2] = FALSE \/ o[2] = TRUE)
  BY <1>1
<1> QED
  BY <1>2

LEMMA MainStepTypes == TypeInv /\ MainStep => TypeInv'
<1> SUFFICES ASSUME TypeInv, MainStep PROVE TypeInv'
  OBVIOUS
<1> USE CommanderAssumption DEF TypeInv
<1>1. CASE CheckSession
  BY <1>1 DEF CheckSession, Want
<1>2. CASE Login
  BY <1>2 DEF Login, NoReply, Reply, Thread, Rev, Want
<1>3. CASE LoggedIn
  BY <1>3 DEF LoggedIn, Thread, Rev, Reply, Want
<1>4. CASE ReadReload
  BY <1>4 DEF ReadReload, Want
<1>5. CASE Decide
  BY <1>5 DEF Decide, Want
<1>6. CASE NameRequest
  BY <1>6 DEF NameRequest, Want
<1>7. CASE RaiseCommunicating
  BY <1>7 DEF RaiseCommunicating, Want
<1>8. CASE ClearReload
  <2>1. ClientTypes'
    BY <1>8 DEF ClearReload
  <2> QED
    BY <1>8, <2>1 DEF ClearReload, Want
<1>9. CASE MainSends
  BY <1>9 DEF MainSends, NoReply, Reply, Thread, Rev, Want
<1>10. CASE MainAnswered
  <2>1. PICK o \in Outcome : Finish("main", want, path, rev, o[1], o[2])
    BY <1>10 DEF MainAnswered
  <2>2. o[1] \in BOOLEAN /\ o[2] \in BOOLEAN
    BY OutcomeType
  <2>3. reply' \in Reply
    BY <2>1, <2>2, FinishType DEF Thread
  <2>4. authenticated' \in BOOLEAN
    BY <2>1, <2>2
  <2>5. ClientTypes'
    BY <1>10, <2>3, <2>4 DEF MainAnswered
  <2> QED
    BY <1>10, <2>5 DEF MainAnswered
<1>11. CASE MainTakes
  BY <1>11 DEF MainTakes, NoReply, Reply, Rev, Want
<1>12. CASE ApplyTree
  <2>1. mainReply.ok \in BOOLEAN /\ mainReply.rev \in Rev
    BY DEF Reply
  <2>2. mainReply' \in Reply
    BY <1>12, NoReplyType DEF ApplyTree
  <2>3. treeRev' \in Rev /\ treeOk' \in BOOLEAN
    BY <1>12, <2>1 DEF ApplyTree
  <2>4. ClientTypes'
    BY <1>12, <2>3 DEF ApplyTree
  <2>5. MainTypes'
    BY <1>12, <2>2 DEF ApplyTree, Want
  <2> QED
    BY <1>12, <2>4, <2>5 DEF ApplyTree
<1>13. CASE LookAtObject
  BY <1>13 DEF LookAtObject, Want
<1>14. CASE CheckEditorClosed
  BY <1>14 DEF CheckEditorClosed, Want
<1>15. CASE ApplyObject
  <2>1. mainReply.ok \in BOOLEAN /\ mainReply.path \in Path \cup {None}
    BY DEF Reply
  <2>2. mainReply' \in Reply
    BY <1>15, NoReplyType DEF ApplyObject
  <2>3. WidgetTypes'
    BY <1>15, <2>1 DEF ApplyObject
  <2>4. MainTypes'
    BY <1>15, <2>2 DEF ApplyObject, Want
  <2> QED
    BY <1>15, <2>3, <2>4 DEF ApplyObject
<1>16. CASE LookAtEditor
  BY <1>16 DEF LookAtEditor, Want
<1>17. CASE LockForEditor
  BY <1>17 DEF LockForEditor, Thread, Want
<1>18. CASE ApplyView
  <2>1. mainReply.ok \in BOOLEAN /\ mainReply.path \in Path \cup {None}
    BY DEF Reply
  <2>2. mainReply' \in Reply
    BY <1>18, NoReplyType DEF ApplyView
  <2>3. WidgetTypes'
    BY <1>18, <2>1 DEF ApplyView
  <2>4. MainTypes'
    BY <1>18, <2>2 DEF ApplyView, Want
  <2>5. ClientTypes'
    BY <1>18 DEF ApplyView
  <2> QED
    BY <1>18, <2>3, <2>4, <2>5 DEF ApplyView
<1> QED
  BY <1>1, <1>2, <1>3, <1>4, <1>5, <1>6, <1>7, <1>8, <1>9, <1>10, <1>11, <1>12, <1>13, <1>14, <1>15, <1>16, <1>17, <1>18 DEF MainStep

LEMMA DisplayStepTypes == TypeInv /\ DisplayStep => TypeInv'
<1> SUFFICES ASSUME TypeInv, DisplayStep PROVE TypeInv'
  OBVIOUS
<1> USE CommanderAssumption DEF TypeInv
<1>1. CASE DisplaySends
  BY <1>1, NoReplyType DEF DisplaySends, Thread
<1>2. CASE DisplayAnswered
  <2>1. PICK o \in Outcome \cup (IF key = "run" /\ MayExpire THEN {<<TRUE, TRUE>>} ELSE {}) :
          /\ rev' \in IF key \notin {"change", "save"} THEN {rev}
                      ELSE IF o[1] THEN {rev + 1} ELSE {rev, rev + 1}
          /\ Finish("display", key, selected, rev', o[1], o[2])
          /\ acked' = IF key \in {"change", "save"} /\ o[1] THEN rev' ELSE acked
    BY <1>2 DEF DisplayAnswered
  <2>2. o[1] \in BOOLEAN /\ o[2] \in BOOLEAN
    BY <2>1, OutcomeType
  <2>3. rev' \in Rev
    BY <1>2, <2>1 DEF DisplayAnswered, Rev
  <2>4. key \in WebKeys
    BY <1>2 DEF DisplayAnswered
  <2>5. reply' \in Reply
    BY <2>1, <2>2, <2>3, <2>4, FinishType DEF Thread
  <2>6. authenticated' \in BOOLEAN /\ inside' \subseteq Thread
    BY <2>1, <2>2
  <2>7. acked' \in Rev
    BY <2>1, <2>3
  <2>8. ClientTypes'
    BY <1>2, <2>3, <2>5, <2>6, <2>7 DEF DisplayAnswered
  <2> QED
    BY <1>2, <2>8 DEF DisplayAnswered
<1>3. CASE RunGoesOn
  BY <1>3, NoReplyType DEF RunGoesOn, Thread
<1>4. CASE DisplayTakes
  <2>1. reply.ok \in BOOLEAN /\ reply.path \in Path \cup {None}
    BY DEF Reply
  <2>2. reply' \in Reply
    BY <1>4, NoReplyType DEF DisplayTakes
  <2>3. reloadRequested' \in BOOLEAN /\ dialog' \in BOOLEAN /\ errorDialog' \in BOOLEAN
        /\ infoInvalid' \in BOOLEAN /\ waiting' \in BOOLEAN
    BY <1>4 DEF DisplayTakes, ChangeDone, LoadDone, RunDone
  <2>4. editor' \in [mode : {"closed", "view", "edit"}, path : Path \cup {None},
                     lines : Path \cup {None, Blank, Typed}]
    BY <1>4, <2>1 DEF DisplayTakes, ChangeDone, LoadDone, RunDone
  <2>5. ClientTypes'
    BY <1>4, <2>2, <2>3 DEF DisplayTakes
  <2>6. WidgetTypes'
    BY <1>4, <2>3, <2>4 DEF DisplayTakes
  <2> QED
    BY <1>4, <2>5, <2>6 DEF DisplayTakes
<1> QED
  BY <1>1, <1>2, <1>3, <1>4 DEF DisplayStep

LEMMA KeyTypes == TypeInv /\ (LocalKey \/ PressKey) => TypeInv'
<1> SUFFICES ASSUME TypeInv, LocalKey \/ PressKey PROVE TypeInv'
  OBVIOUS
<1> USE DEF TypeInv, Free
<1>1. CASE AnyKeyAfterJob \/ CloseErrorDialog \/ CancelDialog \/ OpenDialog
  <2>1. dialog' \in BOOLEAN /\ errorDialog' \in BOOLEAN /\ waiting' \in BOOLEAN
    BY <1>1 DEF AnyKeyAfterJob, CloseErrorDialog, CancelDialog, OpenDialog
  <2> QED
    BY <1>1, <2>1 DEF AnyKeyAfterJob, CloseErrorDialog, CancelDialog, OpenDialog
<1>2. CASE Select
  BY <1>2 DEF Select
<1>3. CASE Type
  BY <1>3 DEF Type
<1>4. CASE CloseEditor
  BY <1>4 DEF CloseEditor, NoEditor
<1>5. CASE ReloadButton
  <2>1. communicating' \in BOOLEAN /\ reloadRequested' \in BOOLEAN
    BY <1>5 DEF ReloadButton
  <2> QED
    BY <1>5, <2>1 DEF ReloadButton
<1>6. CASE Quit
  BY <1>6 DEF Quit
<1>7. CASE PressKey
  BY <1>7 DEF PressKey, Thread
<1> QED
  BY <1>1, <1>2, <1>3, <1>4, <1>5, <1>6, <1>7 DEF LocalKey

\* Every variable keeps its type: among them, every revision stays within the
\* controller's, and an editor or an info panel never names anything but a path.
THEOREM TypeCorrect == Spec => []TypeOK
<1>1. Init => TypeInv
  <2> SUFFICES ASSUME Init PROVE TypeInv
    OBVIOUS
  <2>1. BelowBound /\ MainTypes /\ DisplayTypes
    BY NoReplyType DEF Init, Want
  <2>2. 0 \in Rev
    BY CommanderAssumption DEF Rev
  <2>3. ClientTypes
    BY <2>2, NoReplyType DEF Init, Thread
  <2>4. WidgetTypes
    BY DEF Init, NoEditor
  <2> QED
    BY <2>1, <2>3, <2>4 DEF TypeInv
<1>2. TypeInv /\ [Next]_vars => TypeInv'
  <2> SUFFICES ASSUME TypeInv, [Next]_vars PROVE TypeInv'
    OBVIOUS
  <2>1. CASE Exited \/ UNCHANGED vars
    BY <2>1 DEF TypeInv, Exited, vars
  <2> QED
    BY <2>1, MainStepTypes, DisplayStepTypes, KeyTypes DEF Next
<1>3. TypeInv /\ LocksHeld => TypeOK
  BY DEF TypeInv, TypeOK
<1> QED
  BY <1>1, <1>2, <1>3, LocksCorrect, PTL DEF Spec

-----------------------------------------------------------------------------

LEMMA RepliesMatchStep ==
    MayExpire = FALSE /\ TypeOK /\ LocksInv /\ RepliesMatch /\ [Next]_vars => RepliesMatch'
<1> SUFFICES ASSUME MayExpire = FALSE, TypeOK, LocksInv, RepliesMatch, [Next]_vars
             PROVE  RepliesMatch'
  OBVIOUS
<1> USE DEF LocksInv, LocksHeld, RepliesMatch, OwnReply
<1>0. mainPc \notin {"login", "loggingIn"} /\ authenticated = TRUE
  OBVIOUS
<1>1. CASE MainStep
  <2>1. CASE CheckSession \/ ReadReload \/ Decide
    BY <2>1 DEF CheckSession, ReadReload, Decide
  <2>2. CASE Login \/ LoggedIn
    BY <2>2 DEF Login, LoggedIn
  <2>3. CASE NameRequest \/ RaiseCommunicating \/ ClearReload
    BY <2>3 DEF NameRequest, RaiseCommunicating, ClearReload
  <2>4. CASE MainSends
    BY <2>4 DEF MainSends
  <2>5. CASE MainAnswered
    <3>1. PICK o \in Outcome : Finish("main", want, path, rev, o[1], o[2])
      BY <2>5 DEF MainAnswered
    <3>2. authenticated' = TRUE
      <4>1. o = <<TRUE, TRUE>> \/ o = <<FALSE, TRUE>>
        BY <1>0 DEF Outcome
      <4>2. <<TRUE, TRUE>>[2] = TRUE /\ <<FALSE, TRUE>>[2] = TRUE
        OBVIOUS
      <4>3. authenticated' = o[2]
        BY <3>1, Zenon
      <4> QED
        BY <4>1, <4>2, <4>3, Zenon
    <3> QED
      BY <2>5, <3>1, <3>2 DEF MainAnswered
  <2>6. CASE MainTakes
    BY <2>6 DEF MainTakes
  <2>7. CASE ApplyTree \/ ApplyObject \/ ApplyView
    BY <2>7 DEF ApplyTree, ApplyObject, ApplyView
  <2>8. CASE LookAtObject \/ CheckEditorClosed
    BY <2>8 DEF LookAtObject, CheckEditorClosed
  <2>9. CASE LookAtEditor \/ LockForEditor
    BY <2>9 DEF LookAtEditor, LockForEditor
  <2> QED
    BY <1>1, <2>1, <2>2, <2>3, <2>4, <2>5, <2>6, <2>7, <2>8, <2>9 DEF MainStep
<1>2. CASE LocalKey
  BY <1>2 DEF LocalKey, Free, AnyKeyAfterJob, CloseErrorDialog, CancelDialog,
              OpenDialog, Select, Type, CloseEditor, ReloadButton, Quit
<1>3. CASE PressKey
  BY <1>3 DEF PressKey, Free
<1>4. CASE DisplayStep
  <2>1. CASE DisplaySends \/ RunGoesOn
    BY <2>1 DEF DisplaySends, RunGoesOn
  <2>2. CASE DisplayAnswered
    <3>1. PICK o \in Outcome \cup (IF key = "run" /\ MayExpire THEN {<<TRUE, TRUE>>} ELSE {}) :
            Finish("display", key, selected, rev', o[1], o[2])
      BY <2>2 DEF DisplayAnswered
    <3>2. authenticated' = TRUE
      <4>1. o = <<TRUE, TRUE>> \/ o = <<FALSE, TRUE>>
        BY <1>0 DEF Outcome
      <4>2. <<TRUE, TRUE>>[2] = TRUE /\ <<FALSE, TRUE>>[2] = TRUE
        OBVIOUS
      <4>3. authenticated' = o[2]
        BY <3>1, Zenon
      <4> QED
        BY <4>1, <4>2, <4>3, Zenon
    <3> QED
      BY <2>2, <3>1, <3>2 DEF DisplayAnswered
  <2>3. CASE DisplayTakes
    BY <2>3 DEF DisplayTakes
  <2> QED
    BY <1>4, <2>1, <2>2, <2>3 DEF DisplayStep
<1>5. CASE Exited \/ UNCHANGED vars
  BY <1>5 DEF Exited, vars
<1> QED
  BY <1>1, <1>2, <1>3, <1>4, <1>5 DEF Next

LEMMA ShownStep ==
    MayExpire = FALSE /\ TypeOK /\ RepliesMatch /\ ShownUnderItsPath /\ [Next]_vars
        => ShownUnderItsPath'
<1> SUFFICES ASSUME TypeOK, RepliesMatch, ShownUnderItsPath, [Next]_vars
             PROVE  ShownUnderItsPath'
  OBVIOUS
<1> USE DEF RepliesMatch, ShownUnderItsPath
<1>1. editor \in [mode : {"closed", "view", "edit"}, path : Path \cup {None},
                  lines : Path \cup {None, Blank, Typed}]
  BY DEF TypeOK, WidgetTypes
<1>2. CASE ApplyObject
  BY <1>2 DEF ApplyObject
<1>3. CASE ApplyView
  BY <1>1, <1>3 DEF ApplyView
<1>4. CASE Type
  BY <1>1, <1>4 DEF Type
<1>5. CASE CloseEditor
  BY <1>5 DEF CloseEditor, NoEditor
<1>6. CASE DisplayTakes
  BY <1>6 DEF DisplayTakes, ChangeDone, LoadDone, RunDone
<1>7. CASE UNCHANGED <<info, editor>>
  BY <1>7
<1>8. MainStep => ApplyObject \/ ApplyView \/ UNCHANGED <<info, editor>>
  BY DEF MainStep, CheckSession, Login, LoggedIn, ReadReload, Decide, NameRequest,
         RaiseCommunicating, ClearReload, MainSends, MainAnswered, MainTakes, ApplyTree,
         LookAtObject, CheckEditorClosed, LookAtEditor, LockForEditor
<1>9. LocalKey => Type \/ CloseEditor \/ UNCHANGED <<info, editor>>
  BY DEF LocalKey, AnyKeyAfterJob, CloseErrorDialog, CancelDialog, OpenDialog, Select,
         ReloadButton, Quit
<1>10. PressKey \/ DisplayStep => DisplayTakes \/ UNCHANGED <<info, editor>>
  BY DEF PressKey, DisplayStep, DisplaySends, DisplayAnswered, RunGoesOn
<1>11. Exited \/ UNCHANGED vars => UNCHANGED <<info, editor>>
  BY DEF Exited, vars
<1> QED
  BY <1>2, <1>3, <1>4, <1>5, <1>6, <1>7, <1>8, <1>9, <1>10, <1>11 DEF Next

\* While the controller does not forget the session, a thread that copies
\* m_client.reply() finds the reply to the request it has just made.
THEOREM OwnReplyCorrect == Spec => [](MayExpire = FALSE => OwnReply)
<1>1. Init => RepliesMatch
  BY DEF Init, RepliesMatch, OwnReply
<1>2. (MayExpire = FALSE => RepliesMatch) /\ TypeOK /\ LocksInv /\ [Next]_vars
        => (MayExpire = FALSE => RepliesMatch)'
  BY RepliesMatchStep
<1>3. (MayExpire = FALSE => RepliesMatch) => (MayExpire = FALSE => OwnReply)
  BY DEF RepliesMatch
<1> QED
  BY <1>1, <1>2, <1>3, TypeCorrect, LocksInvariant, PTL DEF Spec

\* While the session lasts, what the info panel and an editor show is the
\* object of the path they name, although the selection moves meanwhile.
THEOREM ShownCorrect == Spec => [](MayExpire = FALSE => ShownUnderItsPath)
<1>1. Init => RepliesMatch /\ ShownUnderItsPath
  BY DEF Init, RepliesMatch, OwnReply, ShownUnderItsPath, NoEditor
<1>2. (MayExpire = FALSE => RepliesMatch) /\ TypeOK /\ LocksInv /\ [Next]_vars
        => (MayExpire = FALSE => RepliesMatch)'
  BY RepliesMatchStep
<1>3. (MayExpire = FALSE => RepliesMatch) /\ TypeOK
        /\ (MayExpire = FALSE => ShownUnderItsPath) /\ [Next]_vars
        => (MayExpire = FALSE => ShownUnderItsPath)'
  BY ShownStep
<1> QED
  BY <1>1, <1>2, <1>3, TypeCorrect, LocksInvariant, PTL DEF Spec

-----------------------------------------------------------------------------

\* The file that the main thread reads anew is still only viewed, because the
\* display thread can not close or open the editor meanwhile.
ViewLocked ==
    want = "view" /\ mainPc \in {"net", "request", "take", "apply"} => editor.mode = "view"

LEMMA ViewLockedStep == LocksInv /\ TypeOK /\ ViewLocked /\ [Next]_vars => ViewLocked'
<1> SUFFICES ASSUME LocksInv, TypeOK, ViewLocked, [Next]_vars PROVE ViewLocked'
  OBVIOUS
<1> USE DEF LocksInv, LocksHeld, ViewLocked
<1>1. editor \in [mode : {"closed", "view", "edit"}, path : Path \cup {None},
                  lines : Path \cup {None, Blank, Typed}]
  BY DEF TypeOK, WidgetTypes
<1>2. CASE MainStep
  <2>1. CASE CheckSession \/ Login \/ LoggedIn \/ ReadReload \/ Decide
    BY <2>1 DEF CheckSession, Login, LoggedIn, ReadReload, Decide
  <2>2. CASE NameRequest \/ RaiseCommunicating \/ ClearReload
    BY <2>2 DEF NameRequest, RaiseCommunicating, ClearReload
  <2>3. CASE MainSends \/ MainAnswered \/ MainTakes
    BY <2>3 DEF MainSends, MainAnswered, MainTakes
  <2>4. CASE ApplyTree \/ ApplyObject \/ ApplyView
    BY <2>4 DEF ApplyTree, ApplyObject, ApplyView
  <2>5. CASE LookAtObject \/ CheckEditorClosed \/ LookAtEditor \/ LockForEditor
    BY <2>5 DEF LookAtObject, CheckEditorClosed, LookAtEditor, LockForEditor
  <2> QED
    BY <1>2, <2>1, <2>2, <2>3, <2>4, <2>5 DEF MainStep
<1>3. CASE LocalKey
  <2>1. CASE Type
    BY <1>1, <2>1 DEF Type
  <2>2. CASE CloseEditor
    BY <2>2 DEF CloseEditor, Free
  <2> QED
    BY <1>3, <2>1, <2>2 DEF LocalKey, AnyKeyAfterJob, CloseErrorDialog, CancelDialog, OpenDialog,
                            Select, ReloadButton, Quit
<1>4. CASE PressKey
  BY <1>4 DEF PressKey
<1>5. CASE DisplayStep
  BY <1>5 DEF DisplayStep, DisplaySends, DisplayAnswered, RunGoesOn, DisplayTakes
<1>6. CASE Exited \/ UNCHANGED vars
  BY <1>6 DEF Exited, vars
<1> QED
  BY <1>2, <1>3, <1>4, <1>5, <1>6 DEF Next

\* updateObject() looks at the editor twice, the second time under m_mutex, so
\* the main thread does not write over a file that is being edited.
THEOREM EditingCorrect == Spec => EditingIsSafe
<1>1. Init => ViewLocked
  BY DEF Init, ViewLocked
<1>2. ViewLocked /\ [Next]_vars
        => [mainPc' # mainPc /\ editor.mode = "edit" => UNCHANGED editor]_vars
  <2> SUFFICES ASSUME ViewLocked, Next, mainPc' # mainPc, editor.mode = "edit"
               PROVE  UNCHANGED editor
    OBVIOUS
  <2>1. MainStep => UNCHANGED editor
    BY DEF ViewLocked, MainStep, CheckSession, Login, LoggedIn, ReadReload, Decide, NameRequest,
           RaiseCommunicating, ClearReload, MainSends, MainAnswered, MainTakes, ApplyTree,
           ApplyObject, ApplyView, LookAtObject, CheckEditorClosed, LookAtEditor, LockForEditor
  <2>2. LocalKey => mainPc' = mainPc
    BY DEF LocalKey, AnyKeyAfterJob, CloseErrorDialog, CancelDialog, OpenDialog, Select, Type,
           CloseEditor, ReloadButton, Quit
  <2>3. PressKey \/ DisplayStep \/ Exited => mainPc' = mainPc
    BY DEF PressKey, DisplayStep, DisplaySends, DisplayAnswered, RunGoesOn, DisplayTakes,
           Exited, vars
  <2> QED
    BY <2>1, <2>2, <2>3 DEF Next
<1> QED
  BY <1>1, <1>2, ViewLockedStep, LocksInvariant, TypeCorrect, PTL DEF Spec, EditingIsSafe

-----------------------------------------------------------------------------

\* The display thread has the controller's confirmation and will ask for a
\* reload before it lets go of the mutexes.
Confirmed == dispPc = "take" /\ key \in {"change", "save"} /\ reply.ok

\* The tree will be read, or has been read and waits to be shown.
TreeComing ==
    want = "tree" /\ mainPc \in {"name", "raise", "clear", "net", "request", "take", "apply"}

\* A tree that was read before the last confirmed change is never the last one.
ReloadInv ==
    /\ acked <= rev
    /\ mainPc \in {"raise", "clear"} => want = "tree"
    /\ treeRev < acked => reloadRequested \/ Confirmed \/ ~treeOk \/ TreeComing
    /\ want = "tree" /\ mainPc = "take" /\ reply.ok => reply.rev >= acked
    /\ want = "tree" /\ mainPc = "apply" /\ mainReply.ok =>
           mainReply.rev >= acked \/ reloadRequested \/ Confirmed

LEMMA ReloadStep ==
    MayExpire = FALSE /\ TypeOK /\ LocksInv /\ RepliesMatch /\ ReloadInv /\ [Next]_vars
        => ReloadInv'
<1> SUFFICES ASSUME MayExpire = FALSE, TypeOK, LocksInv, RepliesMatch, ReloadInv, [Next]_vars
             PROVE  ReloadInv'
  OBVIOUS
<1>1. rev \in Int /\ acked \in Int /\ treeRev \in Int /\ reply \in Reply /\ mainReply \in Reply
  BY CommanderAssumption DEF TypeOK, ClientTypes, MainTypes, Rev
<1>2. reply.rev \in Int /\ mainReply.rev \in Int
  BY <1>1, CommanderAssumption DEF Reply, Rev
<1>3. mainPc \in {"request", "take"} => dispPc \notin {"request", "take"}
  BY DEF LocksInv, LocksHeld
<1>4. mainPc \notin {"login", "loggingIn"}
  BY DEF RepliesMatch
<1> USE <1>1, <1>2, <1>3, <1>4 DEF ReloadInv, Confirmed, TreeComing
<1>5. CASE MainStep
  <2>1. CASE CheckSession \/ Login \/ LoggedIn \/ ReadReload \/ Decide
    BY <2>1 DEF CheckSession, Login, LoggedIn, ReadReload, Decide
  <2>2. CASE NameRequest \/ RaiseCommunicating \/ ClearReload
    BY <2>2 DEF NameRequest, RaiseCommunicating, ClearReload
  <2>3. CASE MainSends
    BY <2>3 DEF MainSends, LocksInv, LocksHeld
  <2>4. CASE MainAnswered
    <3>1. PICK o \in Outcome : Finish("main", want, path, rev, o[1], o[2])
      BY <2>4 DEF MainAnswered
    <3>2. reply'.rev = rev
      BY <3>1
    <3> QED
      BY <2>4, <3>2 DEF MainAnswered
  <2>5. CASE MainTakes
    BY <2>5 DEF MainTakes
  <2>6. CASE ApplyTree
    BY <2>6 DEF ApplyTree
  <2>7. CASE ApplyObject \/ ApplyView
    BY <2>7 DEF ApplyObject, ApplyView
  <2>8. CASE LookAtObject \/ CheckEditorClosed \/ LookAtEditor \/ LockForEditor
    BY <2>8 DEF LookAtObject, CheckEditorClosed, LookAtEditor, LockForEditor
  <2> QED
    BY <1>5, <2>1, <2>2, <2>3, <2>4, <2>5, <2>6, <2>7, <2>8 DEF MainStep
<1>6. CASE LocalKey
  BY <1>6 DEF LocalKey, Free, AnyKeyAfterJob, CloseErrorDialog, CancelDialog,
              OpenDialog, Select, Type, CloseEditor, ReloadButton, Quit
<1>7. CASE PressKey
  BY <1>7 DEF PressKey, Free
<1>8. CASE DisplayStep
  <2>1. CASE DisplaySends
    BY <2>1 DEF DisplaySends, LocksInv, LocksHeld
  <2>2. CASE DisplayAnswered
    <3>1. PICK o : /\ rev' \in IF key \notin {"change", "save"} THEN {rev}
                              ELSE IF o[1] THEN {rev + 1} ELSE {rev, rev + 1}
                   /\ Finish("display", key, selected, rev', o[1], o[2])
                   /\ acked' = IF key \in {"change", "save"} /\ o[1] THEN rev' ELSE acked
      BY <2>2 DEF DisplayAnswered
    <3>2. rev' \in {rev, rev + 1}
      BY <3>1
    <3>3. \/ acked' = acked
          \/ acked' = rev' /\ key \in {"change", "save"} /\ reply'.ok
      BY <3>1
    <3> QED
      BY <2>2, <3>2, <3>3 DEF DisplayAnswered
  <2>3. CASE RunGoesOn
    BY <2>3 DEF RunGoesOn
  <2>4. CASE DisplayTakes
    BY <2>4 DEF DisplayTakes, ChangeDone, LoadDone, RunDone
  <2> QED
    BY <1>8, <2>1, <2>2, <2>3, <2>4 DEF DisplayStep
<1>9. CASE Exited \/ UNCHANGED vars
  BY <1>9 DEF Exited, vars
<1> QED
  BY <1>5, <1>6, <1>7, <1>8, <1>9 DEF Next

\* While the session lasts, a change the controller has confirmed is not
\* forgotten, although m_reloadRequested is read, set and cleared without a
\* mutex: it is cleared before the tree is asked for, never after.
THEOREM ReloadCorrect == Spec => [](MayExpire = FALSE => NoLostReload)
<1>1. Init => RepliesMatch /\ ReloadInv
  BY CommanderAssumption DEF Init, RepliesMatch, OwnReply, ReloadInv
<1>2. (MayExpire = FALSE => RepliesMatch) /\ TypeOK /\ LocksInv /\ [Next]_vars
        => (MayExpire = FALSE => RepliesMatch)'
  BY RepliesMatchStep
<1>3. (MayExpire = FALSE => RepliesMatch) /\ TypeOK /\ LocksInv
        /\ (MayExpire = FALSE => ReloadInv) /\ [Next]_vars
        => (MayExpire = FALSE => ReloadInv)'
  BY ReloadStep
<1>4. (MayExpire = FALSE => ReloadInv) => (MayExpire = FALSE => NoLostReload)
  BY DEF ReloadInv, NoLostReload, Confirmed, TreeComing, TreeOnItsWay
<1> QED
  BY <1>1, <1>2, <1>3, <1>4, TypeCorrect, LocksInvariant, PTL DEF Spec
=============================================================================
