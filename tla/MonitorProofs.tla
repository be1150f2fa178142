---------------------------- MODULE MonitorProofs ----------------------------
(***************************************************************************)
(* Proofs about Monitor for every feed of events, every filter and every   *)
(* number of keys: who holds the mutex, what the right arrow skips, what   *)
(* the list and the screen show, which events are processed and where the  *)
(* program may end.                                                        *)
(***************************************************************************)
EXTENDS Monitor, SequenceTheorems, WellFoundedInduction, TLAPS

USE DEF feedVars, mainVars, keyVars, containers, dispVars, terminal, sessionVars

MainPlace == {"ready", "look", "skip", "skipNext", "skipEnd", "hold", "append", "update",
              "draw", "login", "subscribe", "subscribing", "stream", "callback", "returned"}
MainHolds == {"skipNext", "skipEnd", "append", "update", "draw", "callback"}

\* The events are those of the feed, or the one that stands for none.
EventInv ==
    /\ source \in {"file", "controller"}
    /\ feed \in Seq(Event) /\ next \in 1..(Len(feed) + 1)
    /\ event \in Event \cup {NoEvent} /\ now \in Nat
    /\ events \in Seq(Event \cup {NoEvent}) /\ Len(events) <= MaxEvents

\* Each of the two threads holds the mutex in known places, and only there.
MutexInv ==
    /\ mutex \in {"free", "main", "display"}
    /\ mainPc \in MainPlace
    /\ dispPc \in {"idle", "read", "refresh", "objects", "drawn", "gone"}
    /\ mutex = "main" <=> mainPc \in MainHolds
    /\ mutex = "display" <=> dispPc \in {"refresh", "objects", "drawn", "gone"}

\* The presses of the right arrow, and the skip that takes them.
PressInv ==
    /\ rightKeyPresses \in Nat /\ pressed \in Nat /\ skipped \in Nat /\ target \in Nat
    /\ keysLeft \in 0..MaxKeys
    /\ pressed + keysLeft + (IF dispPc = "read" THEN 1 ELSE 0) <= MaxKeys
    /\ mainPc = "skip" => rightKeyPresses > 0 /\ target = 0
    /\ mainPc \in {"skipNext", "skipEnd"} => target # 0
    /\ target # 0 => mainPc \in {"append", "update", "skipNext", "skipEnd"} /\ rightKeyPresses > 0
    /\ NoPressLost

\* The event that is filed passed the filter if the list is to show it.
ListInv ==
    /\ ListIsFiltered
    /\ source = "controller" /\ displayMode = "list" /\ mainPc \in {"append", "update", "draw"} =>
          event.type \in EnabledTypes /\ event.cluster \in EnabledClusters
    /\ source = "controller" =>
          target = 0 /\ mainPc \notin {"ready", "look", "skip", "skipNext", "skipEnd", "hold"}
    /\ displayMode \in Started \cup Views
    /\ printed \in Seq(Event \cup {NoEvent})
    /\ dispPc = "read" => key \in Keys

\* The event in the hand of the main thread is the one of the feed before the
\* next, or the end of the file; what was handled was processed if it should be.
InHand == {"look", "skip", "skipEnd", "hold", "callback", "append"}
OrderInv ==
    /\ processed \in Seq(Event \cup {NoEvent})
    /\ mainPc \in InHand /\ event # NoEvent => next > 1 /\ event = feed[next - 1]
    /\ source = "file" => mainPc \in {"ready", "look", "skip", "skipNext", "skipEnd", "hold",
                                    "append", "update", "draw", "returned"}
    /\ EachOnceInOrder

\* The containers are what the processed events make of them, the objects one
\* event late while it is being processed.
ContainerInv ==
    /\ events = AtMost(MaxEvents, processed)
    /\ mainPc # "update" => objects = ObjectsAfter(processed)
    /\ mainPc = "update" => /\ Len(processed) > 0 /\ processed[Len(processed)] = event
                            /\ objects = ObjectsAfter(SubSeq(processed, 1, Len(processed) - 1))

\* The screen is the monitor of one moment, or the header of this one.
Moment(k, s) ==
    /\ s.events = AtMost(MaxEvents, SubSeq(processed, 1, k))
    /\ s.objects = Shown(s.mode, ObjectsAfter(SubSeq(processed, 1, k)))
ScreenInv ==
    /\ DOMAIN screen = {"mode", "events", "objects"}
    /\ dispPc = "objects" => screen.mode = displayMode /\ screen.events = events
    /\ dispPc # "objects" /\ screen # Message => \E k \in 0..Len(processed) : Moment(k, screen)

IInv == EventInv /\ MutexInv /\ PressInv /\ ListInv

-----------------------------------------------------------------------------

LEMMA InitInv == ASSUME MonitorAssumption, Init PROVE IInv
<1>1. EventInv
  BY DEF Init, EventInv, MonitorAssumption
<1>2. MutexInv
  BY DEF Init, MutexInv, MainPlace, MainHolds
<1>3. PressInv
  BY DEF Init, PressInv, NoPressLost, MonitorAssumption
<1>4. ListInv
  BY DEF Init, ListInv, ListIsFiltered
<1> QED
  BY <1>1, <1>2, <1>3, <1>4 DEF IInv

\* What is kept of a sequence of events is a sequence of at most as many.
LEMMA AtMostBounds ==
    ASSUME NEW S, NEW n \in Nat, NEW s \in Seq(S)
    PROVE  AtMost(n, s) \in Seq(S) /\ Len(AtMost(n, s)) <= n
<1>1. CASE Len(s) > n
  <2>1. Len(s) - n + 1 \in 1..(Len(s) + 1) /\ Len(s) - n + 1 <= Len(s) + 1 /\ Len(s) \in Nat
    BY <1>1
  <2>2. SubSeq(s, Len(s) - n + 1, Len(s)) \in Seq(S)
    BY <2>1, SubSeqProperties
  <2>3. Len(SubSeq(s, Len(s) - n + 1, Len(s))) = n
    BY <2>1
  <2> QED
    BY <1>1, <2>2, <2>3 DEF AtMost
<1>2. CASE ~(Len(s) > n)
  BY <1>2 DEF AtMost
<1> QED
  BY <1>1, <1>2

\* The next event of the feed, when there is one.
LEMMA NextEvent ==
    ASSUME EventInv, next <= Len(feed)
    PROVE  feed[next] \in Event /\ feed[next].created \in Nat /\ next + 1 \in 1..(Len(feed) + 1)
<1>1. next \in 1..Len(feed) /\ feed \in Seq(Event) /\ Len(feed) \in Nat
  BY DEF EventInv
<1>2. feed[next] \in Event
  BY <1>1
<1>3. feed[next].created \in Nat \ {0}
  BY <1>2 DEF Event
<1> QED
  BY <1>1, <1>2, <1>3

\* A thread that takes the mutex leaves a place where nobody holds it.
LEMMA NextMutex == ASSUME MonitorAssumption, IInv, [Next]_vars PROVE MutexInv'
<1> USE DEF MutexInv, MainPlace, MainHolds
<1>a. MutexInv
  BY DEF IInv
<1>1. CASE ReadNext \/ Look \/ StartSkip \/ SkipNext \/ EndSkip \/ Hold
  BY <1>1, <1>a
     DEF ReadNext, readEvent, Look, StartSkip, SkipNext, EndSkip, Free, Hold, Lock, Running
<1>2. CASE AppendEvent \/ UpdateObjects \/ DrawEvent
  BY <1>2, <1>a DEF AppendEvent, UpdateObjects, DrawEvent, Free
<1>3. CASE Authenticate \/ SessionExpires \/ Subscribe \/ Subscribed \/ StreamEnds
            \/ Arrive \/ Callback
  BY <1>3, <1>a
     DEF Authenticate, Trouble, NoTrouble, SessionExpires, Subscribe, Subscribed, StreamEnds,
         Arrive, Lock, Callback, Free
<1>4. CASE KeyPressed \/ ProcessKey \/ Refresh \/ DrawHeader \/ DrawObjects \/ Drawn
  BY <1>4, <1>a DEF KeyPressed, Keys, ProcessKey, Lock, Refresh, DrawHeader, DrawObjects, Drawn
<1>5. CASE UNCHANGED vars
  BY <1>5, <1>a DEF vars
<1> QED
  BY <1>1, <1>2, <1>3, <1>4, <1>5
     DEF Next, Main, Playback, Process, Watching, Display, Ended

\* The feed is read in its order, and the monitor remembers some of it.
LEMMA NextEvents == ASSUME MonitorAssumption, IInv, [Next]_vars PROVE EventInv'
<1> USE DEF EventInv
<1>a. EventInv
  BY DEF IInv
<1>1. CASE ReadNext
  BY <1>1, <1>a, NextEvent DEF ReadNext, readEvent
<1>2. CASE SkipNext
  BY <1>2, <1>a, NextEvent DEF SkipNext, readEvent
<1>3. CASE AppendEvent
  <2>1. Append(events, event) \in Seq(Event \cup {NoEvent}) /\ MaxEvents \in Nat
    BY <1>a DEF MonitorAssumption
  <2> QED
    BY <1>3, <1>a, <2>1, AtMostBounds DEF AppendEvent
<1>4. CASE Arrive
  BY <1>4, <1>a, NextEvent DEF Arrive, Lock
<1>5. CASE Look \/ StartSkip \/ EndSkip \/ Hold
  BY <1>5, <1>a DEF Look, StartSkip, EndSkip, Free, Hold, Lock, Running
<1>6. CASE UpdateObjects \/ DrawEvent
  BY <1>6, <1>a DEF UpdateObjects, DrawEvent, Free
<1>7. CASE Authenticate \/ SessionExpires \/ Subscribe \/ Subscribed \/ StreamEnds \/ Callback
  BY <1>7, <1>a
     DEF Authenticate, Trouble, NoTrouble, SessionExpires, Subscribe, Subscribed, StreamEnds,
         Callback, Free
<1>8. CASE KeyPressed \/ ProcessKey \/ Refresh \/ DrawHeader \/ DrawObjects \/ Drawn
  BY <1>8, <1>a DEF KeyPressed, Keys, ProcessKey, Lock, Refresh, DrawHeader, DrawObjects, Drawn
<1>9. CASE UNCHANGED vars
  BY <1>9, <1>a DEF vars
<1> QED
  BY <1>1, <1>2, <1>3, <1>4, <1>5, <1>6, <1>7, <1>8, <1>9
     DEF Next, Main, Playback, Process, Watching, Display, Ended

\* Only a skip takes presses, and it takes all of them.
LEMMA NextPress == ASSUME MonitorAssumption, IInv, [Next]_vars PROVE PressInv'
<1> USE DEF PressInv, NoPressLost
<1>a. PressInv /\ MutexInv /\ now \in Nat /\ MaxKeys \in Nat
  BY DEF IInv, EventInv, MonitorAssumption
<1>1. CASE StartSkip
  BY <1>1, <1>a DEF StartSkip
<1>2. CASE EndSkip
  BY <1>2, <1>a DEF EndSkip, Free
<1>3. CASE ProcessKey
  BY <1>3, <1>a DEF ProcessKey, Lock, MutexInv, MainHolds
<1>4. CASE ReadNext \/ Look \/ SkipNext \/ Hold
  BY <1>4, <1>a DEF ReadNext, readEvent, Look, SkipNext, Hold, Lock, Running
<1>5. CASE AppendEvent \/ UpdateObjects \/ DrawEvent
  BY <1>5, <1>a DEF AppendEvent, UpdateObjects, DrawEvent, Free
<1>6. CASE Authenticate \/ SessionExpires \/ Subscribe \/ Subscribed \/ StreamEnds
            \/ Arrive \/ Callback
  BY <1>6, <1>a
     DEF Authenticate, Trouble, NoTrouble, SessionExpires, Subscribe, Subscribed, StreamEnds,
         Arrive, Lock, Callback, Free
<1>7. CASE KeyPressed \/ Refresh \/ DrawHeader \/ DrawObjects \/ Drawn
  BY <1>7, <1>a DEF KeyPressed, Keys, Refresh, Lock, DrawHeader, DrawObjects, Drawn
<1>8. CASE UNCHANGED vars
  BY <1>8, <1>a DEF vars
<1> QED
  BY <1>1, <1>2, <1>3, <1>4, <1>5, <1>6, <1>7, <1>8
     DEF Next, Main, Playback, Process, Watching, Display, Ended

\* The display mode never becomes the list, and the mutex keeps it while an event is filed.
LEMMA NextList == ASSUME MonitorAssumption, IInv, [Next]_vars PROVE ListInv'
<1> USE DEF ListInv, ListIsFiltered
<1>a. ListInv /\ MutexInv /\ EventInv /\ "list" \notin Views
  BY DEF IInv, MonitorAssumption
<1>1. CASE DrawEvent
  <2>1. CASE rightKeyPresses > 0 \/ displayMode # "list"
    BY <1>1, <1>a, <2>1 DEF DrawEvent, Free
  <2>2. CASE ~(rightKeyPresses > 0) /\ displayMode = "list"
    <3>1. printed' = Append(printed, event) /\ event \in Event \cup {NoEvent}
      BY <1>1, <1>a, <2>2 DEF DrawEvent, EventInv
    <3>2. /\ printed' \in Seq(Event \cup {NoEvent})
          /\ \A i \in DOMAIN printed' :
                \/ i \in DOMAIN printed /\ printed'[i] = printed[i]
                \/ printed'[i] = event
      BY <1>a, <3>1
    <3> QED
      BY <1>1, <1>a, <2>2, <3>2 DEF DrawEvent, Free
  <2> QED
    BY <2>1, <2>2
<1>2. CASE Callback
  BY <1>2, <1>a DEF Callback, Free, PassesFilter
<1>3. CASE ProcessKey
  BY <1>3, <1>a DEF ProcessKey, Lock, MutexInv, MainHolds, Keys
<1>4. CASE ReadNext \/ Look \/ StartSkip \/ SkipNext \/ EndSkip \/ Hold
  BY <1>4, <1>a
     DEF ReadNext, readEvent, Look, StartSkip, SkipNext, EndSkip, Free, Hold, Lock, Running
<1>5. CASE AppendEvent \/ UpdateObjects
  BY <1>5, <1>a DEF AppendEvent, UpdateObjects
<1>6. CASE Authenticate \/ SessionExpires \/ Subscribe \/ Subscribed \/ StreamEnds \/ Arrive
  BY <1>6, <1>a
     DEF Authenticate, Trouble, NoTrouble, SessionExpires, Subscribe, Subscribed, StreamEnds,
         Arrive, Lock
<1>7. CASE KeyPressed \/ Refresh \/ Drawn
  BY <1>7, <1>a DEF KeyPressed, Refresh, Lock, Drawn
<1>8. CASE DrawHeader \/ DrawObjects
  <2>1. dispPc' # "read" /\ UNCHANGED <<source, displayMode, mainPc, event, printed, target>>
    BY <1>8 DEF DrawHeader, DrawObjects
  <2> QED
    BY <1>a, <2>1
<1>9. CASE UNCHANGED vars
  BY <1>9, <1>a DEF vars
<1> QED
  BY <1>1, <1>2, <1>3, <1>4, <1>5, <1>6, <1>7, <1>8, <1>9
     DEF Next, Main, Playback, Process, Watching, Display, Ended

-----------------------------------------------------------------------------
(* Which events are processed *)

\* An event that is processed extends the match.
LEMMA MatchExtends ==
    ASSUME NEW T, NEW from, NEW sent \in Seq(T), NEW s \in Seq(T), NEW n \in Nat, n < Len(sent),
           Wanted(from, sent[n + 1]), InOrder(from, s, sent, n)
    PROVE  InOrder(from, Append(s, sent[n + 1]), sent, n + 1)
<1> DEFINE t == Append(s, sent[n + 1])
           W(x, m) == WantedOf(from, x, m)
<1>1. PICK old \in [W(s, Len(s)) -> W(sent, n)] : Matches(old, from, s, sent, n)
  BY DEF InOrder
<1>2. /\ Len(t) = Len(s) + 1 /\ t[Len(s) + 1] = sent[n + 1] /\ \A i \in 1..Len(s) : t[i] = s[i]
      /\ Len(s) \in Nat
  OBVIOUS
<1> HIDE DEF t
<1> DEFINE place == [i \in W(t, Len(t)) |-> IF i = Len(t) THEN n + 1 ELSE old[i]]
<1>3. W(t, Len(t)) = W(s, Len(s)) \cup {Len(t)}
  BY <1>2 DEF WantedOf
<1>4. W(sent, n + 1) = W(sent, n) \cup {n + 1}
  BY DEF WantedOf
<1>5. /\ Len(t) \notin W(s, Len(s)) /\ n + 1 \notin W(sent, n)
      /\ \A i \in W(s, Len(s)) : i \in 1..Len(s)
      /\ \A k \in W(sent, n) : k \in 1..n
  BY <1>2 DEF WantedOf
<1>6. place \in [W(t, Len(t)) -> W(sent, n + 1)]
  BY <1>3, <1>4
<1>7. \A i \in W(s, Len(s)) : place[i] = old[i]
  BY <1>3, <1>5
<1>8. place[Len(t)] = n + 1 /\ DOMAIN place = W(s, Len(s)) \cup {Len(t)}
  BY <1>3
<1> HIDE DEF place
<1>9. Matches(place, from, t, sent, n + 1)
  <2>1. \A i \in DOMAIN place : t[i] = sent[place[i]]
    BY <1>1, <1>2, <1>5, <1>7, <1>8 DEF Matches
  <2>2. \A i, j \in DOMAIN place : i < j => place[i] < place[j]
    <3> TAKE i, j \in DOMAIN place
    <3> HAVE i < j
    <3>1. i \in W(s, Len(s)) /\ i \in 1..Len(s) /\ j \in 1..Len(t)
      BY <1>2, <1>5, <1>8
    <3>2. CASE j = Len(t)
      <4>1. old[i] \in 1..n
        BY <1>5, <3>1
      <4> QED
        BY <1>7, <1>8, <3>1, <3>2, <4>1
    <3>3. CASE j # Len(t)
      BY <1>1, <1>7, <1>8, <3>1, <3>3 DEF Matches
    <3> QED
      BY <3>2, <3>3
  <2>3. \A k \in W(sent, n + 1) : \E i \in DOMAIN place : place[i] = k
    BY <1>1, <1>4, <1>7, <1>8 DEF Matches
  <2> QED
    BY <2>1, <2>2, <2>3 DEF Matches
<1> QED
  BY <1>6, <1>9 DEF t, InOrder

\* An event that need not be processed may be, and need not.
LEMMA MatchKeeps ==
    ASSUME NEW T, NEW from, NEW sent, NEW s \in Seq(T), NEW n \in Nat, NEW e, ~Wanted(from, e),
           InOrder(from, s, sent, n)
    PROVE  /\ InOrder(from, Append(s, e), sent, n)
           /\ e = sent[n + 1] => InOrder(from, s, sent, n + 1)
<1> DEFINE t == Append(s, e)
           W(x, m) == WantedOf(from, x, m)
<1>1. PICK old \in [W(s, Len(s)) -> W(sent, n)] : Matches(old, from, s, sent, n)
  BY DEF InOrder
<1>2. /\ Len(t) = Len(s) + 1 /\ t[Len(t)] = e /\ \A i \in 1..Len(s) : t[i] = s[i]
      /\ Len(s) \in Nat
  OBVIOUS
<1> HIDE DEF t
<1>3. InOrder(from, t, sent, n)
  <2>1. W(t, Len(t)) = W(s, Len(s)) /\ \A i \in W(s, Len(s)) : i \in 1..Len(s)
    BY <1>2 DEF WantedOf
  <2>2. Matches(old, from, t, sent, n)
    BY <1>1, <1>2, <2>1 DEF Matches
  <2> QED
    BY <2>1, <2>2 DEF InOrder
<1>4. ASSUME e = sent[n + 1] PROVE InOrder(from, s, sent, n + 1)
  <2>1. W(sent, n + 1) = W(sent, n)
    BY <1>4 DEF WantedOf
  <2>2. Matches(old, from, s, sent, n + 1)
    BY <1>1, <2>1 DEF Matches
  <2> QED
    BY <2>1, <2>2 DEF InOrder
<1> QED
  BY <1>3, <1>4 DEF t

LEMMA NextOrder ==
    ASSUME MonitorAssumption, EventInv, OrderInv, [Next]_vars PROVE OrderInv'
<1> USE DEF InHand
<1>e. next \in 1..(Len(feed) + 1) /\ Len(feed) \in Nat /\ feed \in Seq(Event)
  BY DEF EventInv
<1>f. \A e \in Event : e # NoEvent
  <2> TAKE e \in Event
  <2>1. e.id \in Nat \ {0} /\ NoEvent.id = 0
    BY DEF Event, NoEvent
  <2> QED
    BY <2>1
<1>a. /\ \A e \in Event : e # NoEvent
      /\ next \in 1..(Len(feed) + 1) /\ Len(feed) \in Nat /\ feed \in Seq(Event)
      /\ \A k \in 1..Len(feed) : feed[k] \in Event
  BY <1>e, <1>f
<1>b. /\ processed \in Seq(Event \cup {NoEvent}) /\ feed \in Seq(Event \cup {NoEvent})
      /\ mainPc \in InHand /\ event # NoEvent =>
            /\ next - 2 \in Nat /\ event = feed[next - 2 + 1] /\ next - 2 < Len(feed)
            /\ Handled = next - 2
      /\ mainPc \notin InHand \/ event = NoEvent => Handled = next - 1
  BY <1>a DEF OrderInv, Handled
<1>c. ASSUME UNCHANGED <<source, feed, processed>>, Handled' = Handled PROVE EachOnceInOrder'
  BY <1>c DEF OrderInv, EachOnceInOrder
\* A step that has nothing to do with the events.
<1>d. ASSUME UNCHANGED <<source, feed, next, event, processed>>,
             mainPc' \in InHand <=> mainPc \in InHand,
             source = "file" => mainPc' \in {"ready", "look", "skip", "skipNext", "skipEnd", "hold",
                                             "append", "update", "draw", "returned"}
      PROVE  OrderInv'
  BY <1>c, <1>d DEF OrderInv, Handled
<1>1. CASE ReadNext
  <2>1. UNCHANGED <<source, feed, processed>> /\ mainPc = "ready" /\ Handled = next - 1
    BY <1>1, <1>b DEF ReadNext
  <2>2. CASE next <= Len(feed)
    <3>1. /\ event' = feed[next] /\ next' = next + 1 /\ mainPc' = "look" /\ event' # NoEvent
      BY <1>1, <1>a, <2>2 DEF ReadNext, readEvent
    <3>2. next' > 1 /\ event' = feed'[next' - 1] /\ Handled' = Handled
      BY <1>a, <2>1, <3>1 DEF Handled
    <3> QED
      BY <1>c, <2>1, <3>1, <3>2 DEF OrderInv
  <2>3. CASE ~(next <= Len(feed))
    <3>1. /\ event' = NoEvent /\ next' = next /\ mainPc' = "returned"
      BY <1>1, <2>3 DEF ReadNext, readEvent
    <3>2. Handled' = Handled
      BY <1>a, <2>1, <3>1 DEF Handled
    <3> QED
      BY <1>c, <2>1, <3>1, <3>2 DEF OrderInv
  <2> QED
    BY <2>2, <2>3
<1>2. CASE SkipNext
  <2>1. UNCHANGED <<source, feed, processed>> /\ mainPc = "skipNext" /\ Handled = next - 1
    BY <1>2, <1>b DEF SkipNext
  <2>2. mainPc' \in {"append", "skipEnd"}
    BY <1>2 DEF SkipNext
  <2>3. CASE next <= Len(feed)
    <3>1. /\ event' = feed[next] /\ next' = next + 1 /\ event' # NoEvent
      BY <1>2, <1>a, <2>3 DEF SkipNext, readEvent
    <3>2. next' > 1 /\ event' = feed'[next' - 1] /\ Handled' = Handled
      BY <1>a, <2>1, <2>2, <3>1 DEF Handled
    <3> QED
      BY <1>c, <2>1, <2>2, <3>2 DEF OrderInv
  <2>4. CASE ~(next <= Len(feed))
    <3>1. /\ event' = NoEvent /\ next' = next
      BY <1>2, <2>4 DEF SkipNext, readEvent
    <3>2. Handled' = Handled
      BY <1>a, <2>1, <3>1 DEF Handled
    <3> QED
      BY <1>c, <2>1, <2>2, <3>1, <3>2 DEF OrderInv
  <2> QED
    BY <2>3, <2>4
<1>3. CASE Arrive
  <2>1. /\ UNCHANGED <<source, feed, processed>> /\ mainPc = "stream" /\ mainPc' = "callback"
        /\ event' = feed[next] /\ next' = next + 1 /\ event' # NoEvent /\ source # "file"
        /\ Handled = next - 1
    BY <1>3, <1>a, <1>b DEF Arrive, OrderInv
  <2>2. next' > 1 /\ event' = feed'[next' - 1] /\ Handled' = Handled
    BY <1>a, <2>1 DEF Handled
  <2> QED
    BY <1>c, <2>1, <2>2 DEF OrderInv
<1>4. CASE AppendEvent
  <2>1. /\ UNCHANGED <<source, feed, next, event>> /\ mainPc = "append" /\ mainPc' = "update"
        /\ processed' = Append(processed, event) /\ Handled' = next - 1
    BY <1>4, <1>a DEF AppendEvent, Handled
  <2>2. processed' \in Seq(Event \cup {NoEvent})
    BY <1>b, <2>1 DEF EventInv
  <2>3. InOrder(source, processed', feed, next - 1)
    <3>1. CASE event # NoEvent
      <4> DEFINE n == next - 2
      <4>1. n \in Nat /\ n < Len(feed) /\ event = feed[n + 1] /\ n + 1 = next - 1
        BY <1>a, <1>b, <2>1, <3>1
      <4>2. InOrder(source, processed, feed, n)
        BY <1>b, <2>1, <3>1 DEF OrderInv, EachOnceInOrder
      <4> HIDE DEF n
      <4>3. CASE Wanted(source, event)
        BY <1>b, <2>1, <4>1, <4>2, <4>3, MatchExtends
      <4>4. CASE ~Wanted(source, event)
        <5>1. InOrder(source, processed', feed, n)
          BY <1>b, <2>1, <4>1, <4>2, <4>4, MatchKeeps
        <5> QED
          BY <2>2, <4>1, <4>4, <5>1, MatchKeeps
      <4> QED
        BY <4>3, <4>4
    <3>2. CASE event = NoEvent
      <4>1. ~Wanted(source, event) /\ InOrder(source, processed, feed, next - 1) /\ next - 1 \in Nat
        BY <1>a, <1>b, <3>2 DEF Wanted, OrderInv, EachOnceInOrder
      <4> QED
        BY <1>b, <2>1, <4>1, MatchKeeps
    <3> QED
      BY <3>1, <3>2
  <2>4. EachOnceInOrder'
    BY <2>1, <2>3 DEF EachOnceInOrder
  <2> QED
    BY <2>1, <2>2, <2>4 DEF OrderInv
<1>5. CASE Callback
  <2>1. CASE PassesFilter(event) /\ mainPc' = "append"
    BY <1>5, <2>1, <1>d DEF Callback, OrderInv
  <2>2. CASE ~PassesFilter(event) /\ mainPc' = "stream"
    <3>1. /\ UNCHANGED <<source, feed, next, event, processed>> /\ mainPc = "callback"
          /\ Handled' = next - 1 /\ source = "controller"
      BY <1>5, <2>2 DEF Callback, Handled, OrderInv, EventInv
    <3>2. ~Wanted(source, event)
      BY <2>2, <3>1 DEF PassesFilter, Wanted
    <3>3. InOrder(source, processed, feed, next - 1)
      <4>1. CASE event # NoEvent
        <5> DEFINE n == next - 2
        <5>1. n \in Nat /\ event = feed[n + 1] /\ n + 1 = next - 1
          BY <1>a, <1>b, <3>1, <4>1
        <5>2. InOrder(source, processed, feed, n)
          BY <1>b, <3>1, <4>1 DEF OrderInv, EachOnceInOrder
        <5> HIDE DEF n
        <5> QED
          BY <1>b, <3>2, <5>1, <5>2, MatchKeeps
      <4>2. CASE event = NoEvent
        BY <1>b, <4>2 DEF OrderInv, EachOnceInOrder
      <4> QED
        BY <4>1, <4>2
    <3>4. EachOnceInOrder'
      BY <3>1, <3>3 DEF EachOnceInOrder
    <3> QED
      BY <2>2, <3>1, <3>4 DEF OrderInv
  <2> QED
    BY <1>5, <2>1, <2>2 DEF Callback
<1>6. CASE Look \/ StartSkip \/ EndSkip \/ Hold
  BY <1>6, <1>d DEF Look, StartSkip, EndSkip, Hold, OrderInv
<1>7. CASE UpdateObjects \/ DrawEvent
  BY <1>7, <1>d DEF UpdateObjects, DrawEvent, OrderInv
<1>8. CASE Authenticate \/ SessionExpires \/ Subscribe \/ Subscribed \/ StreamEnds
  BY <1>8, <1>d DEF Authenticate, SessionExpires, Subscribe, Subscribed, StreamEnds, OrderInv
<1>9. CASE KeyPressed \/ ProcessKey \/ Refresh \/ DrawHeader \/ DrawObjects \/ Drawn
  BY <1>9, <1>d DEF KeyPressed, ProcessKey, Refresh, DrawHeader, DrawObjects, Drawn, OrderInv
<1>10. CASE UNCHANGED vars
  BY <1>10, <1>d DEF vars, OrderInv
<1> QED
  BY <1>1, <1>2, <1>3, <1>4, <1>5, <1>6, <1>7, <1>8, <1>9, <1>10
     DEF Next, Main, Playback, Process, Watching, Display, Ended

-----------------------------------------------------------------------------
(* What the containers hold *)

\* What is remembered of an event more is found from what was remembered.
LEMMA AtMostAppend ==
    ASSUME NEW S, NEW n \in Nat, NEW s \in Seq(S), NEW e \in S
    PROVE  AtMost(n, Append(AtMost(n, s), e)) = AtMost(n, Append(s, e))
<1> DEFINE a == AtMost(n, s)
           b == Append(a, e)
           t == Append(s, e)
<1>1. /\ t \in Seq(S) /\ Len(t) = Len(s) + 1 /\ Len(s) \in Nat
      /\ \A i \in 1..Len(s) : t[i] = s[i]
      /\ t[Len(s) + 1] = e
  OBVIOUS
<1>2. CASE ~(Len(s) > n)
  BY <1>2 DEF AtMost
<1>3. CASE Len(s) > n
  <2>1. a = SubSeq(s, Len(s) - n + 1, Len(s))
    BY <1>3 DEF AtMost
  <2>2. a \in Seq(S) /\ Len(a) = n /\ \A i \in 1..n : a[i] = s[Len(s) - n + i]
    <3>1. Len(s) - n + 1 \in 1..(Len(s) + 1) /\ Len(s) - n + 1 \in Int /\ Len(s) \in Int
      BY <1>1, <1>3
    <3>2. \A i \in 1..Len(s) : s[i] \in S
      BY ElementOfSeq
    <3>3. \A i \in (Len(s) - n + 1)..Len(s) : s[i] \in S
      BY <3>1, <3>2
    <3>4. a \in Seq(S) /\ Len(a) = Len(s) - (Len(s) - n + 1) + 1
      BY <2>1, <3>1, <3>3, SubSeqProperties
    <3>5. \A i \in 1..n : a[i] = s[Len(s) - n + i]
      BY <1>1, <1>3, <2>1
    <3> QED
      BY <1>1, <3>4, <3>5
  <2> HIDE DEF a, t
  <2>3. b \in Seq(S) /\ Len(b) = n + 1 /\ b[n + 1] = e /\ \A i \in 1..n : b[i] = a[i]
    BY <2>2
  <2> HIDE DEF b
  <2>4. AtMost(n, b) = SubSeq(b, 2, n + 1) /\ AtMost(n, t) = SubSeq(t, Len(s) - n + 2, Len(s) + 1)
    <3>1. Len(b) > n /\ Len(b) - n + 1 = 2
      BY <2>3
    <3>2. Len(t) > n /\ Len(t) - n + 1 = Len(s) - n + 2
      BY <1>1, <1>3
    <3>3. AtMost(n, b) = SubSeq(b, 2, n + 1)
      BY <2>3, <3>1 DEF AtMost
    <3>4. AtMost(n, t) = SubSeq(t, Len(s) - n + 2, Len(s) + 1)
      BY <1>1, <3>2 DEF AtMost
    <3> QED
      BY <3>3, <3>4
  <2>5. SubSeq(b, 2, n + 1) = [i \in 1..n |-> b[i + 1]]
    BY <2>3
  <2>6. SubSeq(t, Len(s) - n + 2, Len(s) + 1) = [i \in 1..n |-> t[Len(s) - n + 1 + i]]
    BY <1>1, <1>3
  <2>7. \A i \in 1..n : b[i + 1] = t[Len(s) - n + 1 + i]
    <3> TAKE i \in 1..n
    <3>1. CASE i = n
      BY <1>1, <2>3, <3>1
    <3>2. CASE i < n
      <4>1. i + 1 \in 1..n /\ Len(s) - n + 1 + i \in 1..Len(s)
        BY <1>1, <1>3, <3>2
      <4>2. b[i + 1] = s[Len(s) - n + (i + 1)]
        BY <2>2, <2>3, <4>1
      <4>3. t[Len(s) - n + 1 + i] = s[Len(s) - n + 1 + i]
        BY <1>1, <4>1
      <4> QED
        BY <1>1, <4>2, <4>3
    <3> QED
      BY <3>1, <3>2
  <2>8. [i \in 1..n |-> b[i + 1]] = [i \in 1..n |-> t[Len(s) - n + 1 + i]]
    BY <2>7
  <2> QED
    BY <2>4, <2>5, <2>6, <2>8 DEF b, a, t
<1> QED
  BY <1>2, <1>3

\* A set of places in a sequence has a last one.
LEMMA LastExists ==
    ASSUME NEW n \in Nat, NEW S \in SUBSET (1..n), S # {}
    PROVE  \E x \in S : \A y \in S : y <= x
<1> DEFINE D == {n - x : x \in S}
           Less == OpToRel(<, Nat)
<1>1. \A x \in S : x \in 1..n /\ n - x \in Nat
  OBVIOUS
<1>2. D \in SUBSET Nat /\ D # {}
  BY <1>1
<1>3. IsWellFoundedOn(Less, Nat)
  BY NatLessThanWellFounded
<1> HIDE DEF Less
<1>4. PICK d \in D : \A e \in D : ~(<<e, d>> \in Less)
  BY <1>2, <1>3, WFMin
<1>5. PICK x \in S : d = n - x
  BY <1>4
<1>6. ASSUME NEW y \in S, ~(y <= x) PROVE FALSE
  <2>1. n - y \in D /\ n - y \in Nat /\ d \in Nat /\ n - y < d
    BY <1>1, <1>5, <1>6
  <2>2. <<n - y, d>> \in Less
    BY <2>1 DEF OpToRel, Less
  <2> QED
    BY <1>4, <2>1, <2>2
<1> QED
  BY <1>6

\* The last event that is about an object is one of those that are.
LEMMA LastOfIs ==
    ASSUME NEW T, NEW s \in Seq(T), NEW o, \E i \in Told(s) : s[i].about = o
    PROVE  LastOf(s, o) \in Told(s) /\ s[LastOf(s, o)].about = o
<1> DEFINE S == {i \in Told(s) : s[i].about = o}
<1>1. Len(s) \in Nat /\ S \in SUBSET (1..Len(s)) /\ S # {}
  BY LenProperties DEF Told
<1>2. PICK x \in S : \A y \in S : y <= x
  BY <1>1, LastExists
<1>3. \E i \in Told(s) : s[i].about = o /\ \A j \in Told(s) : s[j].about = o => j <= i
  BY <1>2
<1> QED
  BY <1>3 DEF LastOf

\* One event more changes the objects as processEvent() does.
LEMMA ObjectsAppend ==
    ASSUME NEW s \in Seq(Event \cup {NoEvent}), NEW e \in Event \cup {NoEvent}
    PROVE  ObjectsAfter(Append(s, e)) = Updated(ObjectsAfter(s), e)
<1> DEFINE t == Append(s, e)
<1>1. /\ Len(t) = Len(s) + 1 /\ t[Len(t)] = e /\ \A i \in 1..Len(s) : t[i] = s[i]
      /\ Len(s) \in Nat /\ DOMAIN s = 1..Len(s) /\ DOMAIN t = 1..Len(t)
      /\ t \in Seq(Event \cup {NoEvent})
  OBVIOUS
<1> HIDE DEF t
<1>2. CASE e = NoEvent
  <2>1. Told(t) = Told(s) /\ \A i \in Told(s) : i \in 1..Len(s)
    BY <1>1, <1>2 DEF Told
  <2>2. \A o : LastOf(t, o) = LastOf(s, o)
    BY <1>1, <2>1 DEF LastOf
  <2> DEFINE About(x) == {x[i].about : i \in Told(x)}
             Here(x) == {k \in About(x) : ~Destroys(x[LastOf(x, k)])}
  <2>3. \A k \in About(s) : LastOf(s, k) \in 1..Len(s)
    <3> TAKE k \in About(s)
    <3>1. \E i \in Told(s) : s[i].about = k
      OBVIOUS
    <3> QED
      BY <3>1, <2>1, LastOfIs
  <2>4. About(t) = About(s)
    BY <1>1, <2>1
  <2>5. /\ ObjectsAfter(s) = [o \in Here(s) |-> s[LastOf(s, o)]]
        /\ ObjectsAfter(t) = [o \in Here(t) |-> t[LastOf(t, o)]]
    BY DEF ObjectsAfter
  <2> HIDE DEF About
  <2>6. \A k \in About(s) : t[LastOf(t, k)] = s[LastOf(s, k)]
    BY <1>1, <2>2, <2>3
  <2>7. \A k : k \in Here(t) <=> k \in Here(s)
    BY <2>4, <2>6
  <2>8. \A k \in Here(s) : k \in About(s)
    OBVIOUS
  <2> HIDE DEF Here
  <2>9. Here(t) = Here(s) /\ \A k \in Here(s) : t[LastOf(t, k)] = s[LastOf(s, k)]
    BY <2>6, <2>7, <2>8
  <2>10. ObjectsAfter(t) = ObjectsAfter(s)
    <3>1. ObjectsAfter(t) = [o \in Here(s) |-> t[LastOf(t, o)]]
      BY <2>5, <2>9
    <3>2. [o \in Here(s) |-> t[LastOf(t, o)]] = [o \in Here(s) |-> s[LastOf(s, o)]]
      BY <2>9
    <3> QED
      BY <2>5, <3>1, <3>2
  <2>11. Updated(ObjectsAfter(s), e) = ObjectsAfter(s)
    BY <1>2 DEF Updated, Destroys, NoEvent
  <2> QED
    BY <2>10, <2>11 DEF t
<1>3. CASE e # NoEvent
  <2>1. Told(t) = Told(s) \cup {Len(t)} /\ \A i \in Told(s) : i \in 1..Len(s)
    BY <1>1, <1>3 DEF Told
  <2>2. LastOf(t, e.about) = Len(t)
    <3> DEFINE P(i) == t[i].about = e.about /\ \A j \in Told(t) : t[j].about = e.about => j <= i
    <3>1. Len(t) \in Told(t) /\ P(Len(t))
      BY <1>1, <2>1
    <3>2. \A i \in Told(t) : P(i) => i = Len(t)
      BY <1>1, <2>1
    <3> HIDE DEF P
    <3>3. (CHOOSE i \in Told(t) : P(i)) = Len(t)
      BY <3>1, <3>2
    <3> QED
      BY <3>3 DEF LastOf, P
  <2>3. ASSUME NEW o, o # e.about PROVE LastOf(t, o) = LastOf(s, o)
    <3> DEFINE P(i) == i \in Told(t) /\ t[i].about = o /\ \A j \in Told(t) : t[j].about = o => j <= i
               Q(i) == i \in Told(s) /\ s[i].about = o /\ \A j \in Told(s) : s[j].about = o => j <= i
    <3>1. \A i : P(i) <=> Q(i)
      BY <1>1, <2>1, <2>3
    <3> HIDE DEF P, Q
    <3>2. (CHOOSE i : P(i)) = (CHOOSE i : Q(i))
      BY <3>1
    <3> QED
      BY <3>2 DEF LastOf, P, Q
  <2> DEFINE About(x) == {x[i].about : i \in Told(x)}
             Here(x) == {k \in About(x) : ~Destroys(x[LastOf(x, k)])}
  <2>4. About(t) = About(s) \cup {e.about}
    BY <1>1, <2>1
  <2>5. \A o \in About(s) : LastOf(s, o) \in 1..Len(s)
    <3> TAKE o \in About(s)
    <3>1. \E i \in Told(s) : s[i].about = o
      OBVIOUS
    <3> QED
      BY <3>1, <2>1, LastOfIs
  <2>6. \A o \in About(s) \ {e.about} : t[LastOf(t, o)] = s[LastOf(s, o)]
    BY <1>1, <2>3, <2>5
  <2>7. t[LastOf(t, e.about)] = e
    BY <1>1, <2>2
  <2> HIDE DEF About
  <2>8. \A o : o \in Here(t) <=> IF o = e.about THEN ~Destroys(e) ELSE o \in Here(s)
    BY <2>4, <2>6, <2>7
  <2>9. /\ ObjectsAfter(s) = [o \in Here(s) |-> s[LastOf(s, o)]]
        /\ ObjectsAfter(t) = [o \in Here(t) |-> t[LastOf(t, o)]]
    BY DEF ObjectsAfter, About
  <2>10. \A o \in Here(s) : o \in About(s)
    OBVIOUS
  <2> HIDE DEF Here
  <2>11. CASE Destroys(e)
    <3>1. Here(t) = Here(s) \ {e.about}
      BY <2>8, <2>11
    <3>2. Updated(ObjectsAfter(s), e) = [o \in Here(s) \ {e.about} |-> s[LastOf(s, o)]]
      BY <1>3, <2>9, <2>11 DEF Updated
    <3> QED
      BY <2>6, <2>9, <2>10, <3>1, <3>2 DEF t
  <2>12. CASE ~Destroys(e)
    <3>1. Here(t) = Here(s) \cup {e.about}
      BY <2>8, <2>12
    <3>2. Updated(ObjectsAfter(s), e)
            = [o \in Here(s) \cup {e.about} |-> IF o = e.about THEN e ELSE ObjectsAfter(s)[o]]
      BY <1>3, <2>9, <2>12 DEF Updated
    <3>3. \A o \in Here(s) : ObjectsAfter(s)[o] = s[LastOf(s, o)]
      BY <2>9
    <3>4. \A o \in Here(t) : t[LastOf(t, o)] = IF o = e.about THEN e ELSE ObjectsAfter(s)[o]
      BY <2>6, <2>7, <2>10, <3>1, <3>3
    <3> QED
      BY <2>9, <3>1, <3>2, <3>4 DEF t
  <2> QED
    BY <2>11, <2>12
<1> QED
  BY <1>2, <1>3

LEMMA NextContainers ==
    ASSUME MonitorAssumption, EventInv, OrderInv, ContainerInv, [Next]_vars PROVE ContainerInv'
<1>a. ContainerInv /\ MaxEvents \in Nat /\ event \in Event \cup {NoEvent}
      /\ processed \in Seq(Event \cup {NoEvent})
  BY DEF EventInv, OrderInv, MonitorAssumption
<1>b. ASSUME UNCHANGED <<events, objects, processed>>, mainPc # "update", mainPc' # "update"
      PROVE  ContainerInv'
  BY <1>a, <1>b DEF ContainerInv
<1>1. CASE AppendEvent
  <2>1. /\ mainPc = "append" /\ mainPc' = "update" /\ UNCHANGED <<objects, event>>
        /\ events' = AtMost(MaxEvents, Append(events, event))
        /\ processed' = Append(processed, event)
    BY <1>1 DEF AppendEvent
  <2>2. events' = AtMost(MaxEvents, processed')
    BY <2>1, <1>a, AtMostAppend DEF ContainerInv
  <2>3. /\ Len(processed') = Len(processed) + 1 /\ Len(processed) \in Nat
        /\ processed'[Len(processed')] = event
    BY <2>1, <1>a
  <2>4. SubSeq(processed', 1, Len(processed') - 1) = processed
    BY <2>1, <1>a
  <2>5. objects = ObjectsAfter(processed)
    BY <1>a, <2>1 DEF ContainerInv
  <2>6. objects' = ObjectsAfter(SubSeq(processed', 1, Len(processed') - 1))
    BY <2>1, <2>4, <2>5
  <2> QED
    BY <2>1, <2>2, <2>3, <2>6 DEF ContainerInv
<1>2. CASE UpdateObjects
  <2>1. /\ mainPc = "update" /\ mainPc' # "update" /\ UNCHANGED <<events, processed>>
        /\ objects' = Updated(objects, event)
    BY <1>2 DEF UpdateObjects
  <2> DEFINE before == SubSeq(processed, 1, Len(processed) - 1)
  <2>2. /\ Len(processed) > 0 /\ processed[Len(processed)] = event
        /\ objects = ObjectsAfter(before)
    BY <1>a, <2>1 DEF ContainerInv
  <2>3. before \in Seq(Event \cup {NoEvent}) /\ processed = Append(before, event)
    BY <1>a, <2>2
  <2> HIDE DEF before
  <2>4. ObjectsAfter(processed) = Updated(ObjectsAfter(before), event)
    BY <1>a, <2>3, ObjectsAppend
  <2> QED
    BY <1>a, <2>1, <2>2, <2>4 DEF ContainerInv
<1>3. CASE ReadNext \/ Look \/ StartSkip \/ SkipNext \/ EndSkip \/ Hold
  BY <1>3, <1>b DEF ReadNext, Look, StartSkip, SkipNext, EndSkip, Hold
<1>4. CASE DrawEvent
  BY <1>4, <1>b DEF DrawEvent
<1>5. CASE Authenticate \/ SessionExpires \/ Subscribe \/ Subscribed \/ StreamEnds
            \/ Arrive \/ Callback
  BY <1>5, <1>b DEF Authenticate, SessionExpires, Subscribe, Subscribed, StreamEnds, Arrive, Callback
<1>6. CASE UNCHANGED <<mainPc, event, events, objects, processed>>
  BY <1>6, <1>a DEF ContainerInv
<1>7. CASE KeyPressed \/ ProcessKey \/ Refresh \/ DrawHeader \/ DrawObjects \/ Drawn
  BY <1>7, <1>6 DEF KeyPressed, ProcessKey, Refresh, DrawHeader, DrawObjects, Drawn
<1>8. CASE UNCHANGED vars
  BY <1>8, <1>6 DEF vars
<1> QED
  BY <1>1, <1>2, <1>3, <1>4, <1>5, <1>7, <1>8
     DEF Next, Main, Playback, Process, Watching, Display, Ended

-----------------------------------------------------------------------------
(* What stands on the screen *)

LEMMA ShownNow ==
    ASSUME MonitorAssumption, OrderInv, ContainerInv, mainPc # "update"
    PROVE  /\ Len(processed) \in 0..Len(processed)
           /\ AtMost(MaxEvents, SubSeq(processed, 1, Len(processed))) = events
           /\ ObjectsAfter(SubSeq(processed, 1, Len(processed))) = objects
<1>1. processed \in Seq(Event \cup {NoEvent}) /\ Len(processed) \in Nat
  BY DEF OrderInv
<1>2. SubSeq(processed, 1, Len(processed)) = processed
  BY <1>1
<1>3. AtMost(MaxEvents, processed) = events /\ ObjectsAfter(processed) = objects
  BY DEF ContainerInv
<1> DEFINE seen == SubSeq(processed, 1, Len(processed))
<1>4. Len(processed) \in 0..Len(processed)
  BY <1>1
<1>5. seen = processed
  BY <1>2
<1> HIDE DEF seen
<1>6. AtMost(MaxEvents, seen) = events /\ ObjectsAfter(seen) = objects
  BY <1>3, <1>5
<1> QED
  BY <1>4, <1>6 DEF seen

\* A header is drawn together with its objects, or the main thread waits for
\* the mutex in between.
LEMMA NextScreen ==
    ASSUME MonitorAssumption, IInv, OrderInv, ContainerInv, ScreenInv, [Next]_vars
    PROVE  ScreenInv'
<1>a. ScreenInv /\ MutexInv /\ processed \in Seq(Event \cup {NoEvent})
  BY DEF IInv, OrderInv
\* The moment of the screen stays what it was when more is processed.
<1>b. ASSUME NEW k \in 0..Len(processed), processed' = processed \/ \E e : processed' = Append(processed, e)
      PROVE  k \in 0..Len(processed') /\ SubSeq(processed', 1, k) = SubSeq(processed, 1, k)
  <2>1. /\ Len(processed) \in Nat /\ Len(processed') \in Nat /\ Len(processed') >= Len(processed)
        /\ \A i \in 1..Len(processed) : processed'[i] = processed[i]
    BY <1>a, <1>b
  <2> QED
    BY <2>1, <1>a, <1>b
<1>c. ASSUME UNCHANGED screen, dispPc # "objects", dispPc' # "objects",
             processed' = processed \/ \E e : processed' = Append(processed, e)
      PROVE  ScreenInv'
  <2>1. CASE screen = Message
    BY <1>a, <1>c, <2>1 DEF ScreenInv
  <2>2. CASE screen # Message
    <3>1. PICK k \in 0..Len(processed) : Moment(k, screen)
      BY <1>a, <1>c, <2>2 DEF ScreenInv
    <3>2. k \in 0..Len(processed') /\ SubSeq(processed', 1, k) = SubSeq(processed, 1, k)
      BY <1>b, <1>c
    <3>3. Moment(k, screen)'
      BY <1>c, <3>1, <3>2 DEF Moment
    <3> QED
      BY <1>a, <1>c, <3>2, <3>3 DEF ScreenInv
  <2> QED
    BY <2>1, <2>2
<1>d. ASSUME UNCHANGED <<screen, dispPc, displayMode, events>>, dispPc = "objects"
      PROVE  ScreenInv'
  BY <1>a, <1>d DEF ScreenInv
\* All of the screen is drawn.
<1>e. ASSUME screen' = Drawing(displayMode), mainPc # "update", dispPc' # "objects",
             UNCHANGED processed
      PROVE  ScreenInv'
  <2>1. /\ screen'.events = events /\ screen'.mode = displayMode
        /\ screen'.objects = Shown(displayMode, objects)
        /\ DOMAIN screen' = {"mode", "events", "objects"}
    BY <1>e DEF Drawing
  <2>2. Moment(Len(processed), screen)'
    BY <1>e, <2>1, ShownNow DEF Moment
  <2> QED
    BY <1>e, <2>1, <2>2, ShownNow DEF ScreenInv
<1>1. CASE AppendEvent
  <2>1. UNCHANGED <<screen, dispPc>> /\ processed' = Append(processed, event)
    BY <1>1 DEF AppendEvent
  <2>2. dispPc # "objects"
    BY <1>1, <1>a DEF AppendEvent, MutexInv, MainHolds
  <2> QED
    BY <1>c, <2>1, <2>2
<1>2. CASE DrawEvent \/ EndSkip
  <2>1. dispPc # "objects" /\ UNCHANGED <<dispPc, processed>> /\ mainPc # "update"
    BY <1>2, <1>a DEF DrawEvent, EndSkip, MutexInv, MainHolds
  <2>2. screen' = screen \/ screen' = Drawing(displayMode)
    BY <1>2 DEF DrawEvent, EndSkip
  <2> QED
    BY <1>c, <1>e, <2>1, <2>2
<1>3. CASE DrawHeader
  <2>1. UNCHANGED <<processed, displayMode, events>> /\ dispPc = "refresh"
    BY <1>3 DEF DrawHeader
  <2>2. CASE displayMode = "list"
    BY <1>3, <1>c, <2>1, <2>2 DEF DrawHeader
  <2>3. CASE displayMode # "list" /\ NotConnected
    BY <1>3, <2>3 DEF DrawHeader, ScreenInv, Message
  <2>4. CASE displayMode # "list" /\ ~NotConnected
    <3>1. screen' = [screen EXCEPT !.mode = displayMode, !.events = events] /\ dispPc' = "objects"
      BY <1>3, <2>4 DEF DrawHeader
    <3> QED
      BY <1>a, <2>1, <3>1 DEF ScreenInv
  <2> QED
    BY <2>2, <2>3, <2>4
<1>4. CASE DrawObjects
  <2>1. /\ dispPc = "objects" /\ dispPc' = "drawn" /\ UNCHANGED processed
        /\ screen' = [screen EXCEPT !.objects = Shown(displayMode, objects)]
    BY <1>4 DEF DrawObjects
  <2>2. mainPc # "update"
    BY <2>1, <1>a DEF MutexInv, MainHolds
  <2>3. screen' = Drawing(displayMode)
    BY <1>a, <2>1 DEF ScreenInv, Drawing
  <2> QED
    BY <1>e, <2>1, <2>2, <2>3
<1>5. CASE ReadNext \/ Look \/ StartSkip \/ SkipNext \/ Hold \/ UpdateObjects
  <2>1. UNCHANGED <<screen, dispPc, displayMode, events, processed>>
    BY <1>5 DEF ReadNext, Look, StartSkip, SkipNext, Hold, UpdateObjects
  <2> QED
    BY <1>c, <1>d, <2>1
<1>6. CASE Authenticate \/ SessionExpires \/ Subscribe \/ Subscribed \/ StreamEnds
            \/ Arrive \/ Callback
  <2>1. UNCHANGED <<screen, dispPc, displayMode, events, processed>>
    BY <1>6 DEF Authenticate, SessionExpires, Subscribe, Subscribed, StreamEnds, Arrive, Callback
  <2> QED
    BY <1>c, <1>d, <2>1
<1>7. CASE KeyPressed \/ ProcessKey \/ Refresh \/ Drawn
  <2>1. UNCHANGED <<screen, processed>> /\ dispPc # "objects" /\ dispPc' # "objects"
    BY <1>7 DEF KeyPressed, ProcessKey, Refresh, Drawn
  <2> QED
    BY <1>c, <2>1
<1>8. CASE UNCHANGED vars
  <2>1. UNCHANGED <<screen, dispPc, displayMode, events, processed>>
    BY <1>8 DEF vars
  <2> QED
    BY <1>c, <1>d, <2>1
<1> QED
  BY <1>1, <1>2, <1>3, <1>4, <1>5, <1>6, <1>7, <1>8
     DEF Next, Main, Playback, Process, Watching, Display, Ended

LEMMA InitMore == ASSUME MonitorAssumption, Init PROVE OrderInv /\ ContainerInv /\ ScreenInv
<1>1. processed = <<>> /\ Len(processed) = 0 /\ Handled = 0 /\ source \in {"file", "controller"}
  BY DEF Init, Handled, MonitorAssumption
<1>2. EachOnceInOrder
  <2>1. WantedOf(source, processed, 0) = {} /\ WantedOf(source, feed, 0) = {}
    BY DEF WantedOf
  <2> DEFINE place == [i \in {} |-> 0]
  <2>2. place \in [{} -> {}] /\ DOMAIN place = {}
    OBVIOUS
  <2> HIDE DEF place
  <2>3. Matches(place, source, processed, feed, 0)
    BY <2>1, <2>2 DEF Matches
  <2> QED
    BY <1>1, <2>1, <2>2, <2>3 DEF EachOnceInOrder, InOrder
<1>3. OrderInv
  BY <1>1, <1>2 DEF Init, OrderInv, InHand
<1>4. ContainerInv
  <2>1. Told(<<>>) = {}
    BY DEF Told
  <2>2. ObjectsAfter(<<>>) = [o \in {} |-> 0]
    BY <2>1 DEF ObjectsAfter
  <2>3. <<>> = [o \in {} |-> 0]
    OBVIOUS
  <2>4. AtMost(MaxEvents, <<>>) = <<>>
    BY DEF AtMost, MonitorAssumption
  <2> QED
    BY <1>1, <2>2, <2>3, <2>4 DEF Init, ContainerInv
<1>5. ScreenInv
  BY DEF Init, ScreenInv, Message
<1> QED
  BY <1>3, <1>4, <1>5

-----------------------------------------------------------------------------

THEOREM Invariance == ASSUME MonitorAssumption PROVE Spec => []IInv
<1>1. Init => IInv
  BY InitInv
<1>2. IInv /\ [Next]_vars => IInv'
  BY NextMutex, NextEvents, NextPress, NextList DEF IInv
<1> QED
  BY <1>1, <1>2, PTL DEF Spec

THEOREM EventsInvariance ==
    ASSUME MonitorAssumption PROVE Spec => [](OrderInv /\ ContainerInv /\ ScreenInv)
<1> DEFINE J == OrderInv /\ ContainerInv /\ ScreenInv
<1>1. Init => J
  BY InitMore
<1>2. IInv /\ J /\ [Next]_vars => J'
  BY NextOrder, NextContainers, NextScreen DEF IInv
<1> HIDE DEF J
<1>3. Spec => []J
  BY <1>1, <1>2, Invariance, PTL DEF Spec
<1> QED
  BY <1>3 DEF J

\* The variables have their types, and each thread holds the mutex exactly
\* where it should (S9sMonitor::main, processKey, refreshScreen).
THEOREM TypeCorrect == ASSUME MonitorAssumption PROVE Spec => []TypeOK
<1>1. IInv => TypeOK
  BY DEF IInv, EventInv, MutexInv, PressInv, TypeOK, MainPlace, MainHolds, MonitorAssumption
<1> QED
  BY <1>1, Invariance, PTL

\* Every press of the right arrow is skipped for once or still waits
\* (m_rightKeyPresses, which the main thread reads without the mutex).
THEOREM PressesCorrect == ASSUME MonitorAssumption PROVE Spec => []NoPressLost
<1>1. IInv => NoPressLost
  BY DEF IInv, PressInv
<1> QED
  BY <1>1, Invariance, PTL

\* The list of the events of a controller shows those that were asked for
\* (eventCallback, processEvent), whatever keys are pressed meanwhile.
THEOREM ListCorrect == ASSUME MonitorAssumption PROVE Spec => []ListIsFiltered
<1>1. IInv => ListIsFiltered
  BY DEF IInv, ListInv
<1> QED
  BY <1>1, Invariance, PTL

\* Each event that has to be processed is, once and in the order it was sent
\* (S9sMonitor::main, processEvent), whatever the user pauses and skips.
THEOREM OrderCorrect == ASSUME MonitorAssumption PROVE Spec => []EachOnceInOrder
<1>1. OrderInv /\ ContainerInv /\ ScreenInv => EachOnceInOrder
  BY DEF OrderInv
<1> QED
  BY <1>1, EventsInvariance, PTL

\* The screen shows the containers as they were after some event
\* (refreshScreen), for any number of events, objects and keys.
THEOREM ScreenCorrect == ASSUME MonitorAssumption PROVE Spec => []ScreenIsOneMoment
<1>1. OrderInv /\ ContainerInv /\ ScreenInv => ScreenIsOneMoment
  BY DEF ScreenInv, Moment, ScreenIsOneMoment
<1> QED
  BY <1>1, EventsInvariance, PTL

\* exit() in the display thread waits for the event that is being filed.
THEOREM ExitCorrect == ASSUME MonitorAssumption PROVE Spec => []ExitBetweenEvents
<1>1. IInv => ExitBetweenEvents
  BY DEF IInv, MutexInv, ExitBetweenEvents, MainHolds
<1> QED
  BY <1>1, Invariance, PTL
=============================================================================
