------------------------------- MODULE Monitor -------------------------------
(***************************************************************************)
(* s9s event --list and --watch: S9sMonitor.  The main thread takes events   *)
(* from the controller or, played back, from a file, and files them in the   *)
(* containers of the monitor; the display thread reads the keyboard and      *)
(* draws the containers every second.  m_mutex is held while an event is     *)
(* processed and while a key is processed and the screen drawn; the playback *)
(* looks at the keys pressed so far without it.                              *)
(*                                                                           *)
(* An event stands for what it does to the containers: the object it is      *)
(* about and whether that is created, changed or destroyed.  The time of the *)
(* playback is counted in the three minutes one press of the right arrow     *)
(* skips.                                                                    *)
(***************************************************************************)
EXTENDS Naturals, Sequences, FiniteSets

CONSTANTS
    Feeds,          \* what the file holds or the controller will send
    Sources,        \* where the events come from: "file", "controller"
    Started,        \* the display modes it is started in: "list" (PrintEvents), "nodes"
    Views,          \* the display modes the user changes to
    EnabledTypes,   \* the types of events the --with-event-* options let pass
    EnabledClusters,    \* the cluster of --cluster-id, or all of them
    MaxEvents,      \* 3000: how many events are remembered
    MaxKeys,        \* bound on the keys the user presses
    MaxTroubles     \* bound on what goes wrong with the controller

Event == [id : Nat \ {0}, created : Nat \ {0}, about : STRING,
          kind : {"cluster", "job", "host", "server"}, destroyed : BOOLEAN,
          type : STRING, cluster : Nat]

ASSUME MonitorAssumption ==
    /\ Feeds \subseteq Seq(Event)
    /\ Sources \subseteq {"file", "controller"}
    /\ Started \subseteq {"list", "nodes"}
    /\ Views \subseteq {"nodes", "clusters", "jobs", "servers", "containers", "events"}
    /\ {MaxEvents, MaxKeys, MaxTroubles} \subseteq Nat

VARIABLES
    source, feed, next,     \* the events, and the next one to be read
    mutex,                  \* m_mutex: who holds it
    mainPc, event,          \* the main thread, and the event in its hand
    now, target,            \* thisCreated, and the end of a skip
    isStopped,              \* m_isStopped: the playback pauses
    rightKeyPresses,        \* m_rightKeyPresses
    displayMode,            \* m_displayMode: "list" is PrintEvents
    events,                 \* m_events
    objects,                \* m_clusters, m_jobs, m_nodes, m_servers
    dispPc, key, keysLeft,  \* the display thread
    screen, printed,        \* what the terminal shows
    authenticated,          \* m_client.isAuthenticated()
    session,                \* whether the controller knows the session of the client
    lastReply,              \* m_lastReply
    troublesLeft,
    processed,              \* history: the events processEvent() got
    pressed, skipped        \* history: right arrows pressed, and skipped for

feedVars    == <<source, feed, next>>
mainVars    == <<mainPc, event, now, target>>
keyVars     == <<isStopped, rightKeyPresses, displayMode, pressed>>
containers  == <<events, objects>>
dispVars    == <<dispPc, key, keysLeft>>
terminal    == <<screen, printed>>
sessionVars == <<authenticated, session, lastReply, troublesLeft>>
vars == <<feedVars, mutex, mainVars, keyVars, containers, dispVars, terminal, sessionVars,
          processed, skipped>>

None    == "none"
\* S9sEvent(): what readEvent() leaves behind at the end of the file.
NoEvent == [id |-> 0, created |-> 0, about |-> "nothing", kind |-> "none",
            destroyed |-> FALSE, type |-> "none", cluster |-> 0]
Message == [mode |-> "message", events |-> << >>, objects |-> << >>]

Init ==
    /\ source \in Sources /\ feed \in Feeds /\ next = 1
    /\ mutex = "free"
    /\ mainPc = IF source = "file" THEN "ready" ELSE "login"
    /\ event = NoEvent /\ now = 0 /\ target = 0
    /\ isStopped = FALSE /\ rightKeyPresses = 0 /\ displayMode \in Started
    /\ pressed = 0 /\ skipped = 0
    /\ events = << >> /\ objects = << >>
    /\ dispPc = "idle" /\ key = None /\ keysLeft = MaxKeys
    /\ screen = Message /\ printed = << >>
    /\ authenticated = (source = "controller") /\ session = authenticated /\ lastReply = None
    /\ troublesLeft = MaxTroubles
    /\ processed = << >>

-----------------------------------------------------------------------------
(* Playing back a file: S9sMonitor::main() *)

Running == ~isStopped \/ rightKeyPresses > 0

\* readEvent() clears the event before it looks for the next one.
readEvent ==
    IF next <= Len(feed)
    THEN event' = feed[next] /\ next' = next + 1 /\ now' = feed[next].created
    ELSE event' = NoEvent /\ UNCHANGED <<next, now>>

\* Mistake: at the end of the file more of it is waited for.
ReadNextOrWait ==
    /\ mainPc = "ready" /\ Running /\ next <= Len(feed)
    /\ readEvent
    /\ mainPc' = "look"
    /\ UNCHANGED <<source, feed, mutex, target, keyVars, containers, dispVars, terminal,
                   sessionVars, processed, skipped>>
ReadNext ==
    /\ mainPc = "ready" /\ Running
    /\ readEvent
    /\ mainPc' = IF next <= Len(feed) THEN "look" ELSE "returned"
    /\ UNCHANGED <<source, feed, mutex, target, keyVars, containers, dispVars, terminal,
                   sessionVars, processed, skipped>>

\* The keys are read without the mutex.
Look ==
    /\ mainPc = "look"
    /\ mainPc' = IF rightKeyPresses > 0 THEN "skip" ELSE "hold"
    /\ UNCHANGED <<feedVars, mutex, event, now, target, keyVars, containers, dispVars, terminal,
                   sessionVars, processed, skipped>>

StartSkip ==
    /\ mainPc = "skip" /\ mutex = "free"
    /\ mutex' = "main"
    /\ target' = now + rightKeyPresses
    /\ skipped' = skipped + rightKeyPresses
    /\ mainPc' = "append"
    /\ UNCHANGED <<feedVars, event, now, keyVars, containers, dispVars, terminal, sessionVars,
                   processed>>

SkipNext ==
    /\ mainPc = "skipNext"
    /\ readEvent
    /\ mainPc' = IF next <= Len(feed) /\ feed[next].created < target THEN "append" ELSE "skipEnd"
    /\ UNCHANGED <<source, feed, mutex, target, keyVars, containers, dispVars, terminal,
                   sessionVars, processed, skipped>>

Free(t) == mutex = t /\ mutex' = "free"
Lock(t) == mutex = "free" /\ mutex' = t

\* What refreshScreen() draws: the trouble with the controller, or the containers.
NotConnected == source = "controller" /\ (~authenticated \/ lastReply \notin {None, "ok"})
\* The objects of one kind: what the views draw below the header.
OfKind(objs, kind) == [o \in {p \in DOMAIN objs : objs[p].kind = kind} |-> objs[o]]
printNodes(objs)      == OfKind(objs, "host")
printClusters(objs)   == OfKind(objs, "cluster")
printJobs(objs)       == OfKind(objs, "job")
printServers(objs)    == OfKind(objs, "server")
printContainers(objs) == OfKind(objs, "server")
Shown(mode, objs) ==
    CASE mode = "nodes"      -> printNodes(objs)
      [] mode = "clusters"   -> printClusters(objs)
      [] mode = "jobs"       -> printJobs(objs)
      [] mode = "servers"    -> printServers(objs)
      [] mode = "containers" -> printContainers(objs)
      [] mode \in {"events", "list"} -> << >>
Drawing(mode) == [mode |-> mode, events |-> events, objects |-> Shown(mode, objects)]

\* Mistake: the event the skip ended with is forgotten.
EndSkipAndGoOn ==
    /\ mainPc = "skipEnd"
    /\ rightKeyPresses' = 0
    /\ target' = 0
    /\ screen' = IF displayMode = "list" THEN screen ELSE Drawing(displayMode)
    /\ Free("main")
    /\ mainPc' = "ready"
    /\ UNCHANGED <<feedVars, event, now, isStopped, displayMode, pressed, containers, dispVars,
                   printed, sessionVars, processed, skipped>>
EndSkip ==
    /\ mainPc = "skipEnd"
    /\ rightKeyPresses' = 0
    /\ target' = 0
    /\ screen' = IF displayMode = "list" THEN screen ELSE Drawing(displayMode)
    /\ Free("main")
    /\ mainPc' = "hold"
    /\ UNCHANGED <<feedVars, event, now, isStopped, displayMode, pressed, containers, dispVars,
                   printed, sessionVars, processed, skipped>>

\* Mistake: the presses are forgotten after every event, not after a skip.
HoldAndForget ==
    /\ mainPc = "hold" /\ Running
    /\ Lock("main")
    /\ rightKeyPresses' = 0
    /\ mainPc' = "append"
    /\ UNCHANGED <<feedVars, event, now, target, isStopped, displayMode, pressed, containers,
                   dispVars, terminal, sessionVars, processed, skipped>>
Hold ==
    /\ mainPc = "hold" /\ Running
    /\ Lock("main")
    /\ mainPc' = "append"
    /\ UNCHANGED <<feedVars, event, now, target, keyVars, containers, dispVars, terminal,
                   sessionVars, processed, skipped>>

-----------------------------------------------------------------------------
(* processEvent(), with the mutex held *)

AtMost(n, s) == IF Len(s) > n THEN SubSeq(s, Len(s) - n + 1, Len(s)) ELSE s

AppendEvent ==
    /\ mainPc = "append"
    /\ events' = AtMost(MaxEvents, Append(events, event))
    /\ processed' = Append(processed, event)
    /\ mainPc' = "update"
    /\ UNCHANGED <<feedVars, mutex, event, now, target, keyVars, objects, dispVars, terminal,
                   sessionVars, skipped>>

\* Only servers are taken out when they are destroyed.
Destroys(e) == e.kind = "server" /\ e.destroyed
\* The containers of the objects after event e.
Updated(objs, e) ==
    CASE e = NoEvent -> objs
      [] Destroys(e) -> [o \in DOMAIN objs \ {e.about} |-> objs[o]]
      [] OTHER -> [o \in DOMAIN objs \cup {e.about} |-> IF o = e.about THEN e ELSE objs[o]]
UpdateObjects ==
    /\ mainPc = "update"
    /\ objects' = Updated(objects, event)
    /\ mainPc' = IF target # 0 THEN "skipNext" ELSE "draw"
    /\ UNCHANGED <<feedVars, mutex, event, now, target, keyVars, events, dispVars, terminal,
                   sessionVars, processed, skipped>>

\* processEvent() draws nothing while there are presses of the right arrow that
\* the playback has not skipped for; nobody takes them when there is no file.
DrawEvent ==
    /\ mainPc = "draw"
    /\ IF rightKeyPresses > 0 THEN UNCHANGED terminal
       ELSE IF displayMode = "list"
       THEN printed' = Append(printed, event) /\ UNCHANGED screen
       ELSE screen' = Drawing(displayMode) /\ UNCHANGED printed
    /\ Free("main")
    /\ mainPc' = IF source = "file" THEN "ready" ELSE "stream"
    /\ UNCHANGED <<feedVars, event, now, target, keyVars, containers, dispVars, sessionVars,
                   processed, skipped>>

-----------------------------------------------------------------------------
(* Watching the controller: S9sMonitor::main() *)

Trouble   == troublesLeft > 0 /\ troublesLeft' = troublesLeft - 1
NoTrouble == UNCHANGED troublesLeft

\* maybeAuthenticate(), until it succeeds.
Authenticate ==
    /\ mainPc = "login"
    /\ \/ authenticated /\ UNCHANGED <<authenticated, session, troublesLeft>> /\ mainPc' = "subscribe"
       \/ /\ ~authenticated /\ NoTrouble
          /\ authenticated' = TRUE /\ session' = TRUE /\ mainPc' = "subscribe"
       \/ ~authenticated /\ Trouble /\ UNCHANGED <<authenticated, session, mainPc>>
    /\ UNCHANGED <<feedVars, mutex, event, now, target, keyVars, containers, dispVars, terminal,
                   lastReply, processed, skipped>>

\* The session expires while the controller is not asked for anything.
SessionExpires ==
    /\ mainPc \in {"login", "subscribe"} /\ session
    /\ Trouble
    /\ session' = FALSE
    /\ UNCHANGED <<feedVars, mutex, mainVars, keyVars, containers, dispVars, terminal,
                   authenticated, lastReply, processed, skipped>>

Subscribe ==
    /\ mainPc = "subscribe"
    /\ lastReply' = None
    /\ mainPc' = "subscribing"
    /\ UNCHANGED <<feedVars, mutex, event, now, target, keyVars, containers, dispVars, terminal,
                   authenticated, session, troublesLeft, processed, skipped>>

\* Mistake: the client keeps a session the controller has forgotten.
SubscribedStillLoggedIn ==
    /\ mainPc = "subscribing"
    /\ \/ session /\ NoTrouble /\ mainPc' = "stream" /\ UNCHANGED <<lastReply, authenticated>>
       \/ /\ ~session /\ NoTrouble /\ mainPc' = "login"
          /\ lastReply' = "authRequired" /\ UNCHANGED authenticated
       \/ /\ Trouble /\ mainPc' = "login"
          /\ \E status \in {"accessDenied", "connectError"} :
                lastReply' = status /\ authenticated' = (status = "accessDenied")
    /\ UNCHANGED <<feedVars, mutex, event, now, target, keyVars, containers, dispVars, terminal,
                   session, processed, skipped>>
\* The controller answers with the stream, does not know the session any more,
\* refuses for another reason, or is not reached.
Subscribed ==
    /\ mainPc = "subscribing"
    /\ \/ session /\ NoTrouble /\ mainPc' = "stream" /\ UNCHANGED <<lastReply, authenticated>>
       \/ /\ ~session /\ NoTrouble /\ mainPc' = "login"
          /\ lastReply' = "authRequired" /\ authenticated' = FALSE
       \/ /\ Trouble /\ mainPc' = "login"
          /\ \E status \in {"accessDenied", "connectError"} :
                lastReply' = status /\ authenticated' = (status = "accessDenied")
    /\ UNCHANGED <<feedVars, mutex, event, now, target, keyVars, containers, dispVars, terminal,
                   session, processed, skipped>>

\* The controller closes the stream, or it breaks: neither ends the session.
StreamEnds ==
    /\ mainPc = "stream"
    /\ Trouble
    /\ lastReply' \in {None, "connectError"}
    /\ mainPc' = "login"
    /\ UNCHANGED <<feedVars, mutex, event, now, target, keyVars, containers, dispVars, terminal,
                   authenticated, session, processed, skipped>>

\* eventCallback(): only a list leaves types of events out.
PassesFilter(e) ==
    (displayMode = "list" => e.type \in EnabledTypes) /\ e.cluster \in EnabledClusters
Arrive ==
    /\ mainPc = "stream" /\ next <= Len(feed)
    /\ Lock("main")
    /\ event' = feed[next] /\ next' = next + 1
    /\ mainPc' = "callback"
    /\ UNCHANGED <<source, feed, now, target, keyVars, containers, dispVars, terminal,
                   sessionVars, processed, skipped>>
\* Mistake: an event that is left out leaves the mutex locked.
CallbackStaysLocked ==
    /\ mainPc = "callback"
    /\ mainPc' = IF PassesFilter(event) THEN "append" ELSE "stream"
    /\ UNCHANGED <<feedVars, mutex, event, now, target, keyVars, containers, dispVars, terminal,
                   sessionVars, processed, skipped>>
Callback ==
    /\ mainPc = "callback"
    /\ IF PassesFilter(event) THEN mainPc' = "append" /\ UNCHANGED mutex
       ELSE mainPc' = "stream" /\ Free("main")
    /\ UNCHANGED <<feedVars, event, now, target, keyVars, containers, dispVars, terminal,
                   sessionVars, processed, skipped>>

-----------------------------------------------------------------------------
(* The display thread: S9sDisplay::exec() *)

Keys == {"right", "space", "quit", "other"} \cup Views

KeyPressed ==
    /\ dispPc = "idle" /\ keysLeft > 0
    /\ key' \in Keys /\ keysLeft' = keysLeft - 1
    /\ dispPc' = "read"
    /\ UNCHANGED <<feedVars, mutex, mainVars, keyVars, containers, terminal, sessionVars,
                   processed, skipped>>

\* processKey(), and exit() out of it.
ProcessKey ==
    /\ dispPc = "read"
    /\ Lock("display")
    /\ dispPc' = IF key = "quit" THEN "gone" ELSE "refresh"
    /\ isStopped' = IF key = "space" THEN ~isStopped ELSE isStopped
    /\ rightKeyPresses' = IF key = "right" THEN rightKeyPresses + 1 ELSE rightKeyPresses
    /\ pressed' = IF key = "right" THEN pressed + 1 ELSE pressed
    /\ displayMode' = IF key \in Views THEN key ELSE displayMode
    /\ key' = None
    /\ UNCHANGED <<feedVars, mainVars, containers, keysLeft, terminal, sessionVars, processed,
                   skipped>>

\* Mistake: an idle refresh does without the mutex.
RefreshUnlocked ==
    /\ dispPc = "idle"
    /\ dispPc' = "refresh"
    /\ UNCHANGED <<feedVars, mutex, mainVars, keyVars, containers, key, keysLeft, terminal,
                   sessionVars, processed, skipped>>
Refresh ==
    /\ dispPc = "idle"
    /\ Lock("display")
    /\ dispPc' = "refresh"
    /\ UNCHANGED <<feedVars, mainVars, keyVars, containers, key, keysLeft, terminal, sessionVars,
                   processed, skipped>>

\* refreshScreen() draws the header first, with the number of events, then the
\* objects; a list has no screen.
DrawHeader ==
    /\ dispPc = "refresh"
    /\ screen' = CASE displayMode = "list" -> screen
                   [] displayMode # "list" /\ NotConnected -> Message
                   [] OTHER -> [screen EXCEPT !.mode = displayMode, !.events = events]
    /\ dispPc' = IF displayMode = "list" \/ NotConnected THEN "drawn" ELSE "objects"
    /\ UNCHANGED <<feedVars, mutex, mainVars, keyVars, containers, key, keysLeft, printed,
                   sessionVars, processed, skipped>>
DrawObjects ==
    /\ dispPc = "objects"
    /\ screen' = [screen EXCEPT !.objects = Shown(displayMode, objects)]
    /\ dispPc' = "drawn"
    /\ UNCHANGED <<feedVars, mutex, mainVars, keyVars, containers, key, keysLeft, printed,
                   sessionVars, processed, skipped>>
Drawn ==
    /\ dispPc = "drawn"
    /\ dispPc' = "idle"
    /\ mutex' = IF mutex = "display" THEN "free" ELSE mutex
    /\ UNCHANGED <<feedVars, mainVars, keyVars, containers, key, keysLeft, terminal, sessionVars,
                   processed, skipped>>

-----------------------------------------------------------------------------
Playback == ReadNext \/ Look \/ StartSkip \/ SkipNext \/ EndSkip \/ Hold
Process  == AppendEvent \/ UpdateObjects \/ DrawEvent
Watching == \/ Authenticate \/ SessionExpires \/ Subscribe \/ Subscribed
            \/ StreamEnds \/ Arrive \/ Callback
Main     == Playback \/ Process \/ Watching
Display  == KeyPressed \/ ProcessKey \/ Refresh \/ DrawHeader \/ DrawObjects \/ Drawn

\* exit() ends both threads, and so does the end of the file: main() returns and
\* the program with it.
Over  == dispPc = "gone" \/ mainPc = "returned"
Ended == Over /\ UNCHANGED vars
Next  == (~Over /\ (Main \/ Display)) \/ Ended

Spec == Init /\ [][Next]_vars

\* Both threads run, and the display thread sleeps without the mutex between two
\* refreshes, so that the main thread gets it; the user need not press a key.
FairSpec ==
    /\ Spec
    /\ WF_vars(~Over /\ (Look \/ ReadNext \/ SkipNext \/ EndSkip \/ Process \/ Callback))
    /\ WF_vars(~Over /\ (Authenticate \/ Subscribe \/ Subscribed))
    /\ SF_vars(~Over /\ (StartSkip \/ Hold \/ Arrive))
    /\ WF_vars(~Over /\ (DrawHeader \/ DrawObjects \/ Drawn))
    /\ SF_vars(~Over /\ (ProcessKey \/ Refresh))

-----------------------------------------------------------------------------
(* Properties *)

TypeOK ==
    /\ mutex \in {"free", "main", "display"}
    /\ mainPc \in {"ready", "look", "skip", "skipNext", "skipEnd", "hold", "append", "update",
                   "draw", "login", "subscribe", "subscribing", "stream", "callback", "returned"}
    /\ dispPc \in {"idle", "read", "refresh", "objects", "drawn", "gone"}
    /\ next \in 1..(Len(feed) + 1)
    /\ Len(events) <= MaxEvents
    /\ target # 0 => target \in Nat /\ rightKeyPresses > 0
    /\ rightKeyPresses \in Nat /\ pressed \in 0..MaxKeys
    /\ mutex = "main" <=> mainPc \in {"skipNext", "skipEnd", "append", "update", "draw", "callback"}
    /\ mutex = "display" <=> dispPc \in {"refresh", "objects", "drawn", "gone"}

\* What the objects are after the events of s, in terms of the last event of each.
Told(s)        == {i \in DOMAIN s : s[i] # NoEvent}
LastOf(s, o)   == CHOOSE i \in Told(s) : s[i].about = o
                                        /\ \A j \in Told(s) : s[j].about = o => j <= i
ObjectsAfter(s) ==
    [o \in {k \in {s[i].about : i \in Told(s)} : ~Destroys(s[LastOf(s, k)])} |-> s[LastOf(s, o)]]

\* What stands on the terminal is the monitor of one moment: the header and the
\* objects, which are drawn one after the other while events arrive and objects
\* are destroyed, were drawn after the same event.
ScreenIsOneMoment ==
    dispPc # "objects" /\ screen # Message =>
        \E k \in 0..Len(processed) :
           LET seen == SubSeq(processed, 1, k)
           IN  /\ screen.events = AtMost(MaxEvents, seen)
               /\ screen.objects = Shown(screen.mode, ObjectsAfter(seen))

\* How many events the main thread is done with, or has begun to file.
Handled ==
    LET inHand == {"look", "skip", "skipEnd", "hold", "callback", "append"}
    IN  next - 1 - (IF mainPc \in inHand /\ event # NoEvent THEN 1 ELSE 0)

\* The events that have to be processed, and their places among the first n of s.
Wanted(from, e) ==
    /\ e # NoEvent
    /\ from = "controller" => e.type \in EnabledTypes /\ e.cluster \in EnabledClusters
WantedOf(from, s, n) == {i \in 1..n : Wanted(from, s[i])}

\* The events of s are the first n of those that were sent, one for one.
Matches(place, from, s, sent, n) ==
    /\ \A i \in DOMAIN place : s[i] = sent[place[i]]
    /\ \A i, j \in DOMAIN place : i < j => place[i] < place[j]
    /\ \A k \in WantedOf(from, sent, n) : \E i \in DOMAIN place : place[i] = k
InOrder(from, s, sent, n) ==
    \E place \in [WantedOf(from, s, Len(s)) -> WantedOf(from, sent, n)] :
       Matches(place, from, s, sent, n)

\* Whatever the user presses, pauses and skips, each event of the file is
\* processed once and in its order; of the events of the controller those that
\* pass the filter are.
EachOnceInOrder == InOrder(source, processed, feed, Handled)

\* The playback takes the presses of the right arrow in one place and forgets
\* them in another: it skips three minutes for each, none is lost or counted
\* twice.
NoPressLost ==
    pressed = skipped + (IF target # 0 THEN 0 ELSE rightKeyPresses)

\* The list shows no event of a type or cluster that was not asked for: the
\* display mode is looked at twice, and the user may change it.
ListIsFiltered ==
    source = "controller" =>
        \A i \in DOMAIN printed :
           printed[i].type \in EnabledTypes /\ printed[i].cluster \in EnabledClusters

\* exit() is called in the display thread with the mutex held: no event is half
\* filed, or half written to the output file, when the program ends.
ExitBetweenEvents ==
    dispPc = "gone" =>
        mainPc \notin {"callback", "append", "update", "draw", "skipNext", "skipEnd"}

\* A session that is forgotten, a stream that breaks and a controller that is
\* not there for a while do not stop the monitor: the last events arrive, and
\* the screen shows them, even those that arrived while keys were pressed.
WatchCatchesUp ==
    source = "controller" /\ displayMode # "list" ~>
        Over \/ (next > Len(feed) /\ screen = Drawing(displayMode))

\* A playback comes to its end unless the user leaves it paused.
PlaybackEnds == source = "file" => <>Over \/ <>[]isStopped
=============================================================================
