--------------------------- MODULE JobWaitProofs ---------------------------
(***************************************************************************)
(* Proofs about JobWait for every number of messages, every size of a      *)
(* round and every limit of failures.                                      *)
(***************************************************************************)
EXTENDS JobWait, SequenceTheorems, TLAPS

USE DEF jobVars

\* What the local reply has to do with the job: a reply that tells an end is
\* never kept while the loop goes on, and the messages of a reply that is about
\* to be printed continue the log.
ReplyInv ==
    /\ reply.status = "ok" /\ reply.job \in Ended => job = reply.job
    /\ pc \in {"create", "ask", "sleep"} => ~(reply.status = "ok" /\ reply.job \in Ended)
    /\ pc = "show" => reply.status = "ok" /\ reply.job \in JobStatus
    /\ pc = "authenticate" => reply.status = "authRequired"
    /\ pc # "done" => line.job \notin Ended
    /\ pc = "show" /\ mode = "log" =>
         reply.from = nLogsPrinted /\ reply.from <= reply.upto /\ reply.upto <= total

\* The log that was printed; the job that ended writes no more, so a last round
\* that was not full took all there was.
LogInv ==
    /\ Len(printed) = nLogsPrinted
    /\ nLogsPrinted <= total
    /\ \A i \in 1..Len(printed) : printed[i] = i
    /\ mode = "log" /\ reply.status = "ok" /\ reply.job \in Ended /\ reply.upto - reply.from < Limit
         => reply.upto = total
    /\ SawEnd /\ mode = "log" => nLogsPrinted = reply.upto

\* As long as the loop goes on it has failures left, and nobody has told it of
\* a bad end.
ExitInv ==
    /\ pc # "done" => nFailures <= MaxFailures
    /\ pc # "done" => exit # "jobFailed"
    /\ ExitTellsBadEnd

IInv == TypeOK /\ ReplyInv /\ LogInv /\ ExitInv

----------------------------------------------------------------------------

LEMMA EmptyFields ==
    ASSUME NEW s
    PROVE  /\ Empty(s).status = s
           /\ Empty(s).job = "none"
           /\ Empty(s).from = 0
           /\ Empty(s).upto = 0
  BY DEF Empty

LEMMA EmptyType ==
    ASSUME WaitAssumption, NEW s \in {"none", "authRequired", "error", "ok"}
    PROVE  Empty(s) \in Reply
  BY DEF WaitAssumption, Empty, Reply

\* The parts of a reply, one by one.
LEMMA ReplyFields ==
    ASSUME TypeOK
    PROVE  /\ reply.status \in {"none", "authRequired", "error", "ok"}
           /\ reply.job \in JobStatus \cup {"none"}
           /\ reply.from \in 0..MaxMessages
           /\ reply.upto \in 0..MaxMessages
  BY DEF TypeOK, Reply

\* What a round asks for ends with a message that was written.
LEMMA UptoRange ==
    ASSUME WaitAssumption, TypeOK, LogInv
    PROVE  /\ Upto \in nLogsPrinted..total
           /\ mode = "log" /\ Upto - nLogsPrinted < Limit => Upto = total
  BY DEF WaitAssumption, TypeOK, LogInv, Upto

\* The messages of a reply that is about to be printed are the next ones.
LEMMA MessagesContinue ==
    ASSUME WaitAssumption, IInv, pc = "show", mode = "log"
    PROVE  /\ Messages \in Seq(1..MaxMessages)
           /\ Len(Messages) = reply.upto - nLogsPrinted
           /\ Len(Messages) \in Nat
           /\ \A i \in 1..Len(Messages) : Messages[i] = nLogsPrinted + i
<1>1. /\ reply.from = nLogsPrinted /\ reply.from <= reply.upto
      /\ reply.from \in 0..MaxMessages /\ reply.upto \in 0..MaxMessages
  BY ReplyFields DEF IInv, ReplyInv
<1>2. reply.upto - reply.from \in Nat /\ MaxMessages \in Nat
  BY <1>1 DEF WaitAssumption
<1>3. \A i \in 1..(reply.upto - reply.from) : reply.from + i \in 1..MaxMessages
  BY <1>1, <1>2
<1>4. Messages \in Seq(1..MaxMessages)
  BY <1>2, <1>3 DEF Messages
<1>5. Len(Messages) = reply.upto - reply.from
  BY <1>2 DEF Messages
<1>6. \A i \in 1..Len(Messages) : Messages[i] = reply.from + i
  BY <1>5 DEF Messages
<1> QED
  BY <1>1, <1>2, <1>4, <1>5, <1>6

LEMMA InitInv == ASSUME WaitAssumption, Init PROVE IInv
<1>1. TypeOK
  BY EmptyType DEF Init, TypeOK, WaitAssumption, Exit
<1>2. ReplyInv
  BY EmptyFields DEF Init, ReplyInv, Ended
<1>3. LogInv
  BY EmptyFields DEF Init, LogInv, SawEnd, TypeOK, WaitAssumption
<1>4. ExitInv
  BY DEF Init, ExitInv, ExitTellsBadEnd, WaitAssumption
<1> QED
  BY <1>1, <1>2, <1>3, <1>4 DEF IInv

----------------------------------------------------------------------------
(* The type invariant *)

LEMMA NextType == ASSUME WaitAssumption, IInv, [Next]_vars PROVE TypeOK'
<1> USE DEF TypeOK
<1>a. TypeOK
  BY DEF IInv
<1>b. MaxFailures \in Nat /\ MaxMessages \in Nat /\ Limit \in Nat \ {0}
  BY DEF WaitAssumption
<1>1. CASE WriteMessage
  BY <1>1, <1>a, <1>b DEF WriteMessage
<1>2. CASE EndJob
  BY <1>2, <1>a, <1>b DEF EndJob, JobStatus
<1>3. CASE NotCreated
  BY <1>3, <1>a, <1>b DEF NotCreated, Exit
<1>4. CASE Created
  BY <1>4, <1>a, <1>b DEF Created
<1>5. CASE RequestFails \/ ErrorReply \/ NotAuthenticated
  <2>0. nFailures <= MaxFailures
    BY <1>5 DEF RequestFails, ErrorReply, NotAuthenticated, IInv, ExitInv
  <2> QED
    BY <1>5, <2>0, <1>a, <1>b, EmptyType DEF RequestFails, ErrorReply, NotAuthenticated, CountFailure, Exit
<1>6. CASE AuthRequired
  BY <1>6, <1>a, <1>b, EmptyType DEF AuthRequired
<1>7. CASE Authenticated
  BY <1>7, <1>a, <1>b DEF Authenticated
<1>8. CASE Answer
  <2>1. reply' \in Reply
    <3>1. Upto \in 0..MaxMessages
      BY <1>a, <1>b, UptoRange DEF IInv
    <3> QED
      BY <1>8, <1>a, <3>1 DEF Answer, Reply
  <2> QED
    BY <1>8, <1>a, <1>b, <2>1 DEF Answer
<1>9. CASE PrintLog
  <2>1. pc = "show" /\ mode = "log"
    BY <1>9 DEF PrintLog
  <2>2. printed' \in Seq(1..MaxMessages)
    <3> HIDE DEF TypeOK
    <3>1. printed \in Seq(1..MaxMessages)
      BY <1>a DEF TypeOK
    <3>2. printed' = printed \o Messages
      BY <1>9 DEF PrintLog
    <3> QED
      BY <2>1, <3>1, <3>2, MessagesContinue, ConcatProperties
  <2>3. nLogsPrinted' \in 0..MaxMessages
    <3> HIDE DEF TypeOK
    <3>1. nLogsPrinted' = nLogsPrinted + Len(Messages)
      BY <1>9 DEF PrintLog
    <3>2. nLogsPrinted \in 0..MaxMessages
      BY <1>a DEF TypeOK
    <3> QED
      BY <1>a, <1>b, <2>1, <3>1, <3>2, MessagesContinue, ReplyFields
  <2> QED
    BY <1>9, <1>a, <1>b, <2>2, <2>3 DEF PrintLog, GoOn, Exit
<1>10. CASE PrintJson
  BY <1>10, <1>a, <1>b DEF PrintJson, GoOn
<1>11. CASE PrintProgress
  BY <1>11, <1>a, <1>b DEF PrintProgress, GoOn, Exit
<1>12. CASE SameLine
  BY <1>12, <1>a, <1>b DEF SameLine
<1>13. CASE Wake
  BY <1>13, <1>a, <1>b DEF Wake
<1>14. CASE UNCHANGED vars
  BY <1>14, <1>a, <1>b DEF vars
<1> QED
  BY <1>1, <1>2, <1>3, <1>4, <1>5, <1>6, <1>7, <1>8, <1>9, <1>10, <1>11, <1>12, <1>13, <1>14
  DEF Next, Environment, Client, Round, Show

----------------------------------------------------------------------------
(* The reply and the job *)

LEMMA NextReply == ASSUME WaitAssumption, IInv, [Next]_vars PROVE ReplyInv'
<1> USE DEF ReplyInv
<1>a. TypeOK /\ ReplyInv
  BY DEF IInv
<1>b. total \in Nat /\ nLogsPrinted \in Nat /\ job \in JobStatus
  BY <1>a DEF TypeOK, WaitAssumption
<1>1. CASE WriteMessage
  BY <1>1, <1>a, <1>b, ReplyFields DEF WriteMessage, Ended
<1>2. CASE EndJob
  BY <1>2, <1>a DEF EndJob, Ended
<1>3. CASE NotCreated \/ Created \/ Authenticated \/ NotAuthenticated \/ RequestFails \/ Wake
  BY <1>3, <1>a DEF NotCreated, Created, Authenticated, NotAuthenticated, RequestFails, Wake, CountFailure
<1>4. CASE ErrorReply \/ AuthRequired
  BY <1>4, <1>a, EmptyFields DEF ErrorReply, AuthRequired, CountFailure
<1>5. CASE Answer
  <2>1. Upto \in nLogsPrinted..total
    BY UptoRange DEF IInv
  <2> QED
    BY <1>5, <1>a, <1>b, <2>1 DEF Answer
<1>6. CASE PrintLog \/ PrintJson \/ PrintProgress
  BY <1>6, <1>a DEF PrintLog, PrintJson, PrintProgress, GoOn
<1>7. CASE SameLine
  BY <1>7, <1>a DEF SameLine
<1>8. CASE UNCHANGED vars
  BY <1>8, <1>a DEF vars
<1> QED
  BY <1>1, <1>2, <1>3, <1>4, <1>5, <1>6, <1>7, <1>8 DEF Next, Environment, Client, Round, Show

----------------------------------------------------------------------------
(* The log *)

LEMMA NextLog == ASSUME WaitAssumption, IInv, [Next]_vars PROVE LogInv'
<1> USE DEF LogInv
<1>a. TypeOK /\ ReplyInv /\ LogInv
  BY DEF IInv
<1>b. /\ total \in Nat /\ nLogsPrinted \in Nat /\ job \in JobStatus
      /\ Limit \in Nat /\ reply.from \in Nat /\ reply.upto \in Nat
  BY <1>a, ReplyFields DEF TypeOK, WaitAssumption
<1>1. CASE WriteMessage
  <2>1. ~(reply.status = "ok" /\ reply.job \in Ended)
    BY <1>1, <1>a DEF WriteMessage, ReplyInv, Ended
  <2> QED
    BY <1>1, <1>a, <1>b, <2>1 DEF WriteMessage, SawEnd
<1>2. CASE EndJob
  BY <1>2, <1>a DEF EndJob, SawEnd
<1>3. CASE NotCreated \/ Created \/ Authenticated \/ NotAuthenticated \/ RequestFails \/ Wake
  BY <1>3, <1>a DEF NotCreated, Created, Authenticated, NotAuthenticated, RequestFails, Wake,
                    CountFailure, SawEnd, ReplyInv
<1>4. CASE ErrorReply \/ AuthRequired
  BY <1>4, <1>a, EmptyFields DEF ErrorReply, AuthRequired, CountFailure, SawEnd
<1>5. CASE Answer
  <2>1. /\ Upto \in nLogsPrinted..total
        /\ mode = "log" /\ Upto - nLogsPrinted < Limit => Upto = total
    BY UptoRange DEF IInv
  <2> QED
    BY <1>5, <1>a, <1>b, <2>1 DEF Answer, SawEnd
<1>6. CASE PrintLog
  <2>1. pc = "show" /\ mode = "log"
    BY <1>6 DEF PrintLog
  <2>2. printed' = printed \o Messages /\ nLogsPrinted' = nLogsPrinted + Len(Messages)
    BY <1>6 DEF PrintLog
  <2>3. printed \in Seq(1..MaxMessages) /\ Len(printed) = nLogsPrinted
    BY <1>a DEF TypeOK
  <2>4. /\ Messages \in Seq(1..MaxMessages)
        /\ Len(Messages) = reply.upto - nLogsPrinted
        /\ Len(Messages) \in Nat
        /\ \A i \in 1..Len(Messages) : Messages[i] = nLogsPrinted + i
    BY <2>1, MessagesContinue
  <2>x. \A j \in 1..(Len(printed) + Len(Messages)) :
          printed'[j] = IF j <= Len(printed) THEN printed[j] ELSE Messages[j - Len(printed)]
    <3> HIDE DEF LogInv
    <3> QED
      BY <2>2, <2>3, <2>4, ConcatProperties
  <2>5. Len(printed') = nLogsPrinted'
    BY <2>2, <2>3, <2>4, ConcatProperties
  <2>6. nLogsPrinted' = reply.upto /\ reply.upto <= total
    BY <1>a, <1>b, <2>1, <2>2, <2>4 DEF ReplyInv
  <2>7. \A i \in 1..Len(printed') : printed'[i] = i
    <3>1. SUFFICES ASSUME NEW i \in 1..Len(printed') PROVE printed'[i] = i
      OBVIOUS
    <3>2. CASE i <= Len(printed)
      BY <1>a, <1>b, <2>2, <2>3, <2>5, <2>x, <3>1, <3>2
    <3>3. CASE i > Len(printed)
      <4>1. printed'[i] = Messages[i - Len(printed)]
        BY <1>b, <2>2, <2>3, <2>5, <2>x, <3>1, <3>3
      <4>2. i - Len(printed) \in 1..Len(Messages)
        BY <1>b, <2>2, <2>3, <2>4, <2>5, <3>1, <3>3
      <4> QED
        BY <1>b, <2>3, <2>4, <4>1, <4>2
    <3> QED
      BY <1>b, <2>3, <2>5, <3>1, <3>2, <3>3
  <2>8. UNCHANGED <<jobVars, mode, reply>>
    BY <1>6 DEF PrintLog
  <2> QED
    BY <1>a, <2>5, <2>6, <2>7, <2>8 DEF SawEnd
<1>7. CASE PrintJson \/ PrintProgress \/ SameLine
  BY <1>7, <1>a DEF PrintJson, PrintProgress, SameLine, SawEnd
<1>8. CASE UNCHANGED vars
  BY <1>8, <1>a DEF vars, SawEnd
<1> QED
  BY <1>1, <1>2, <1>3, <1>4, <1>5, <1>6, <1>7, <1>8 DEF Next, Environment, Client, Round, Show

----------------------------------------------------------------------------
(* The exit status *)

LEMMA NextExit == ASSUME WaitAssumption, IInv, [Next]_vars PROVE ExitInv'
<1> USE DEF ExitInv, ExitTellsBadEnd, SawEnd
<1>a. TypeOK /\ ReplyInv /\ ExitInv
  BY DEF IInv
<1>b. MaxFailures \in Nat /\ nFailures \in Nat
  BY <1>a DEF TypeOK, WaitAssumption
<1>1. CASE WriteMessage \/ EndJob
  BY <1>1, <1>a, <1>b DEF WriteMessage, EndJob, BadEnd
<1>2. CASE NotCreated \/ Created
  BY <1>2, <1>a, <1>b DEF NotCreated, Created, ReplyInv
<1>3. CASE RequestFails \/ NotAuthenticated
  BY <1>3, <1>a, <1>b DEF RequestFails, NotAuthenticated, CountFailure, ReplyInv
<1>4. CASE ErrorReply \/ AuthRequired
  BY <1>4, <1>a, <1>b, EmptyFields DEF ErrorReply, AuthRequired, CountFailure
<1>5. CASE Authenticated \/ Answer \/ Wake
  BY <1>5, <1>a, <1>b DEF Authenticated, Answer, Wake
<1>6. CASE PrintLog
  BY <1>6, <1>a, <1>b DEF PrintLog, GoOn, BadEnd, ReplyInv, Ended
<1>7. CASE PrintJson
  BY <1>7, <1>a, <1>b DEF PrintJson, GoOn, BadEnd, ReplyInv, Ended
<1>8. CASE PrintProgress
  BY <1>8, <1>a, <1>b DEF PrintProgress, GoOn, BadEnd, ReplyInv, Ended
<1>9. CASE SameLine
  BY <1>9, <1>a, <1>b DEF SameLine, BadEnd, ReplyInv
<1>10. CASE UNCHANGED vars
  BY <1>10, <1>a, <1>b DEF vars, BadEnd
<1> QED
  BY <1>1, <1>2, <1>3, <1>4, <1>5, <1>6, <1>7, <1>8, <1>9, <1>10
  DEF Next, Environment, Client, Round, Show

----------------------------------------------------------------------------
(* The theorems *)

\* The inductive invariant of the wait.
THEOREM Inductive == ASSUME WaitAssumption PROVE Spec => []IInv
<1>1. Init => IInv
  BY InitInv
<1>2. IInv /\ [Next]_vars => IInv'
  BY NextType, NextReply, NextLog, NextExit DEF IInv
<1> QED
  BY <1>1, <1>2, PTL DEF Spec

\* The variables stay in their types, and the counters of failures and
\* authentications stay within their limits.
THEOREM TypeCorrect == ASSUME WaitAssumption PROVE Spec => []TypeOK
<1>1. IInv => TypeOK
  BY DEF IInv
<1> QED
  BY <1>1, Inductive, PTL

\* Every message of the job is printed once and in order.
THEOREM LogCorrect == ASSUME WaitAssumption PROVE Spec => []PrintedOnce
<1>1. IInv => PrintedOnce
  BY DEF IInv, LogInv, PrintedOnce
<1> QED
  BY <1>1, Inductive, PTL

\* A wait that saw the end of the job has printed its whole log, unless the
\* last round was full.
THEOREM TailCorrect == ASSUME WaitAssumption PROVE Spec => []TailComplete
<1>1. IInv => TailComplete
  BY DEF IInv, LogInv, TailComplete, SawEnd
<1> QED
  BY <1>1, Inductive, PTL

\* The program fails with JobFailed exactly when it saw the job end badly.
THEOREM ExitCorrect == ASSUME WaitAssumption PROVE Spec => []ExitTellsBadEnd
<1>1. IInv => ExitTellsBadEnd
  BY DEF IInv, ExitInv
<1> QED
  BY <1>1, Inductive, PTL
=============================================================================
