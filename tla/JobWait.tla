------------------------------ MODULE JobWait ------------------------------
(***************************************************************************)
(* A command that creates a job, or names one, and waits for it:           *)
(* maybeJobRegistered, jobRegistered, waitForJob, waitForJobWithLog and    *)
(* waitForJobWithProgress of S9sBusinessLogic.  Every round sends one      *)
(* request; what may become of it, and the job that goes on meanwhile, is  *)
(* the environment.  The messages of the job are the numbers 1..total.     *)
(***************************************************************************)
EXTENDS Integers, Sequences

CONSTANTS
    Modes,          \* how the user waits, a subset of Mode
    Limit,          \* messages asked for in one round: 300
    MaxFailures,    \* 3 in both loops, for failures and authentications
    MaxMessages     \* bound: messages the job writes

Mode == {"none", "log", "progress", "piped", "json"}

ASSUME WaitAssumption ==
    /\ Modes \subseteq Mode
    /\ Limit \in Nat \ {0}
    /\ MaxFailures \in Nat
    /\ MaxMessages \in Nat

Ended     == {"FINISHED", "FAILED", "ABORTED"}
JobStatus == Ended \cup {"RUNNING"}

VARIABLES
    job,                \* environment: the status of the job
    total,              \* environment: messages the job has written
    mode,               \* --log or --follow, or how progress is shown
    pc,                 \* where the client is
    reply,              \* the local variable reply
    printed,            \* the messages printed, in the order they were
    nLogsPrinted,
    nFailures,
    nAuthentications,
    line,               \* previousProgressLine
    exit                \* S9sOptions::m_exitStatus

jobVars == <<job, total>>
vars == <<jobVars, mode, pc, reply, printed, nLogsPrinted, nFailures, nAuthentications, line, exit>>

\* What a reply tells: nothing, an error, or the job and its messages after
\* from, up to upto.  The progress of a job is the number of its messages.
Reply == [status : {"none", "authRequired", "error", "ok"},
          job : JobStatus \cup {"none"}, from : 0..MaxMessages, upto : 0..MaxMessages]

Empty(s) == [status |-> s, job |-> "none", from |-> 0, upto |-> 0]

\* The command creates a job, or it is one that waits for a job by its number.
Init ==
    /\ job \in JobStatus
    /\ total \in 0..MaxMessages
    /\ mode \in Modes
    /\ pc \in (IF mode = "none" THEN {"create"} ELSE {"create", "ask"})
    /\ reply = Empty("none")
    /\ printed = <<>>
    /\ nLogsPrinted = 0
    /\ nFailures = 0
    /\ nAuthentications = 0
    /\ line = Empty("none")
    /\ exit = "ok"

----------------------------------------------------------------------------
(* The job *)

WriteMessage ==
    /\ job = "RUNNING"
    /\ total < MaxMessages
    /\ total' = total + 1
    /\ UNCHANGED <<job, mode, pc, reply, printed, nLogsPrinted, nFailures, nAuthentications, line, exit>>

EndJob ==
    /\ job = "RUNNING"
    /\ job' \in Ended
    /\ UNCHANGED <<total, mode, pc, reply, printed, nLogsPrinted, nFailures, nAuthentications, line, exit>>

----------------------------------------------------------------------------
(* maybeJobRegistered, jobRegistered *)

\* The request that creates the job failed, or was refused by the controller.
NotCreated ==
    /\ pc = "create"
    /\ pc' = "done"
    /\ exit' \in {"failed", "accessDenied"}
    /\ UNCHANGED <<jobVars, mode, reply, printed, nLogsPrinted, nFailures, nAuthentications, line>>

\* The job is there: it is waited for when the user asked for it.
Created ==
    /\ pc = "create"
    /\ pc' = IF mode = "none" THEN "done" ELSE "ask"
    /\ UNCHANGED <<jobVars, mode, reply, printed, nLogsPrinted, nFailures, nAuthentications, line, exit>>

----------------------------------------------------------------------------
(* One round: the request and its outcome *)

\* Mistake: the counter is tested before it is incremented.
CountAfterwards ==
    /\ nFailures' = nFailures + 1
    /\ pc' = IF nFailures > MaxFailures THEN "done" ELSE "ask"

\* Mistake: the failures are not counted.
RetryForEver ==
    /\ nFailures' = nFailures
    /\ pc' = "ask"

\* The round failed: it is tried again at once, MaxFailures times in a row.
CountFailure ==
    /\ nFailures' = nFailures + 1
    /\ pc' = IF nFailures' > MaxFailures THEN "done" ELSE "ask"

\* Mistake: the round is not left after a failure.
RequestFailsThrough ==
    /\ pc = "ask"
    /\ nFailures' = nFailures + 1
    /\ pc' = IF nFailures' > MaxFailures THEN "done" ELSE "show"
    /\ exit' = "connectionError"
    /\ UNCHANGED <<jobVars, mode, reply, printed, nLogsPrinted, nAuthentications, line>>

\* executeRequest returns false and the local reply is that of the last round.
RequestFails ==
    /\ pc = "ask"
    /\ CountFailure
    /\ exit' = "connectionError"
    /\ UNCHANGED <<jobVars, mode, reply, printed, nLogsPrinted, nAuthentications, line>>

\* The controller answers with an error.
ErrorReply ==
    /\ pc = "ask"
    /\ reply' = Empty("error")
    /\ nAuthentications' = 0
    /\ CountFailure
    /\ UNCHANGED <<jobVars, mode, printed, nLogsPrinted, line, exit>>

\* Mistake: the authentications are not counted.
AuthRequiredUncounted ==
    /\ pc = "ask"
    /\ reply' = Empty("authRequired")
    /\ pc' = "authenticate"
    /\ UNCHANGED <<jobVars, mode, printed, nLogsPrinted, nFailures, nAuthentications, line, exit>>

\* The session is gone: the client logs in again, MaxFailures + 1 times in a row.
AuthRequired ==
    /\ pc = "ask"
    /\ reply' = Empty("authRequired")
    /\ IF nAuthentications > MaxFailures
       THEN pc' = "done" /\ UNCHANGED nAuthentications
       ELSE pc' = "authenticate" /\ nAuthentications' = nAuthentications + 1
    /\ UNCHANGED <<jobVars, mode, printed, nLogsPrinted, nFailures, line, exit>>

\* authenticate() fails: the request did not get through, or was denied.
NotAuthenticated ==
    /\ pc = "authenticate"
    /\ CountFailure
    /\ exit' \in {"connectionError", "accessDenied"}
    /\ UNCHANGED <<jobVars, mode, reply, printed, nLogsPrinted, nAuthentications, line>>

\* authenticate() succeeds and the round goes on with the reply that had no
\* job: only the progress line, being empty, is followed by no sleep.
Authenticated ==
    /\ pc = "authenticate"
    /\ nFailures' = 0
    /\ pc' = IF mode \in {"progress", "piped"} THEN "ask" ELSE "sleep"
    /\ UNCHANGED <<jobVars, mode, reply, printed, nLogsPrinted, nAuthentications, line, exit>>

\* The last message of an answer: getJobLog asks for at most Limit of them
\* behind the offset, getJobInstanceForWait for the progress.
Upto == IF mode # "log" \/ total <= nLogsPrinted + Limit THEN total ELSE nLogsPrinted + Limit

\* The controller takes the messages and the status of the job.
Answer ==
    /\ pc = "ask"
    /\ reply' = [status |-> "ok", job |-> job, from |-> nLogsPrinted, upto |-> Upto]
    /\ pc' = "show"
    /\ nFailures' = 0
    /\ nAuthentications' = 0
    /\ UNCHANGED <<jobVars, mode, printed, nLogsPrinted, line, exit>>

----------------------------------------------------------------------------
(* One round: what the reply is used for *)

\* The messages of the reply.
Messages == [i \in 1..(reply.upto - reply.from) |-> reply.from + i]

GoOn == pc' = IF reply.job \in Ended THEN "done" ELSE "sleep"

\* Mistake: an aborted job does not count as a failed one.
PrintLogIgnoringAborted ==
    /\ pc = "show"
    /\ mode = "log"
    /\ printed' = printed \o Messages
    /\ nLogsPrinted' = nLogsPrinted + Len(Messages)
    /\ exit' = IF reply.job = "FAILED" THEN "jobFailed" ELSE exit
    /\ GoOn
    /\ UNCHANGED <<jobVars, mode, reply, nFailures, nAuthentications, line>>

\* Mistake: the offset is advanced by what was asked for.
PrintLogByLimit ==
    /\ pc = "show"
    /\ mode = "log"
    /\ printed' = printed \o Messages
    /\ nLogsPrinted' = nLogsPrinted + (IF Messages = <<>> THEN 0 ELSE Limit)
    /\ exit' = IF reply.job \in {"FAILED", "ABORTED"} THEN "jobFailed" ELSE exit
    /\ GoOn
    /\ UNCHANGED <<jobVars, mode, reply, nFailures, nAuthentications, line>>

\* waitForJobWithLog.
PrintLog ==
    /\ pc = "show"
    /\ mode = "log"
    /\ printed' = printed \o Messages
    /\ nLogsPrinted' = nLogsPrinted + Len(Messages)
    /\ exit' = IF reply.job \in {"FAILED", "ABORTED"} THEN "jobFailed" ELSE exit
    /\ GoOn
    /\ UNCHANGED <<jobVars, mode, reply, nFailures, nAuthentications, line>>

\* waitForJobWithProgress with the JSON output: the loop is left before the
\* failed job is looked at.  Its two sleeps are one.
PrintJson ==
    /\ pc = "show"
    /\ mode = "json"
    /\ GoOn
    /\ UNCHANGED <<jobVars, mode, reply, printed, nLogsPrinted, nFailures, nAuthentications, line, exit>>

\* waitForJobWithProgress.  The line is what the reply tells of the job.
PrintProgress ==
    /\ pc = "show"
    /\ mode \in {"progress", "piped"}
    /\ mode = "piped" => line # reply
    /\ line' = reply
    /\ exit' = IF reply.job = "FAILED" THEN "jobFailed" ELSE exit
    /\ GoOn
    /\ UNCHANGED <<jobVars, mode, reply, printed, nLogsPrinted, nFailures, nAuthentications>>

\* The output is no terminal and the line did not change: it is not printed,
\* and the next request is sent at once.
SameLine ==
    /\ pc = "show"
    /\ mode = "piped"
    /\ line = reply
    /\ pc' = IF reply.job \in Ended THEN "done" ELSE "ask"
    /\ UNCHANGED <<jobVars, mode, reply, printed, nLogsPrinted, nFailures, nAuthentications, line, exit>>

Wake ==
    /\ pc = "sleep"
    /\ pc' = "ask"
    /\ UNCHANGED <<jobVars, mode, reply, printed, nLogsPrinted, nFailures, nAuthentications, line, exit>>

----------------------------------------------------------------------------

Environment == WriteMessage \/ EndJob

Round == RequestFails \/ ErrorReply \/ AuthRequired \/ NotAuthenticated \/ Authenticated \/ Answer

Show == PrintLog \/ PrintJson \/ PrintProgress \/ SameLine

Client == NotCreated \/ Created \/ Round \/ Show \/ Wake

Next == Environment \/ Client

Spec == Init /\ [][Next]_vars

\* Every request comes back, with an answer or by its timeout, and sleep(1) ends.
FairSpec == Spec /\ WF_vars(Client)

----------------------------------------------------------------------------
(* Properties *)

Exit == {"ok", "failed", "accessDenied", "connectionError", "jobFailed"}

TypeOK ==
    /\ job \in JobStatus
    /\ total \in 0..MaxMessages
    /\ mode \in Modes
    /\ pc \in {"create", "ask", "authenticate", "show", "sleep", "done"}
    /\ reply \in Reply
    /\ printed \in Seq(1..MaxMessages)
    /\ nLogsPrinted \in 0..MaxMessages
    /\ nFailures \in 0..(MaxFailures + 1)
    /\ nAuthentications \in 0..(MaxFailures + 1)
    /\ line \in Reply
    /\ exit \in Exit

\* Every message is printed once and in order, however many rounds fail or
\* find the session gone in between.
PrintedOnce == Len(printed) <= total /\ \A i \in 1..Len(printed) : printed[i] = i

SawEnd == pc = "done" /\ reply.status = "ok" /\ reply.job \in Ended

\* When the loop has seen the end of the job the log is complete, unless the
\* last round brought as many messages as were asked for.
TailComplete ==
    SawEnd /\ mode = "log" /\ reply.upto - reply.from < Limit => Len(printed) = total

\* The ends of a job that count as a failure of the program.
BadEnd ==
    CASE mode = "log"                   -> {"FAILED", "ABORTED"}
      [] mode \in {"progress", "piped"} -> {"FAILED"}
      [] OTHER                          -> {}

\* The program fails with JobFailed exactly when it saw the job end badly,
\* whatever went wrong while it waited.
ExitTellsBadEnd == pc = "done" => (exit = "jobFailed" <=> SawEnd /\ reply.job \in BadEnd)

\* A command that waits comes to an end when the job does, as long as the
\* controller does not answer with errors for ever.
WaitEnds == <>[](reply.status # "error") => (job \in Ended ~> pc = "done")

\* While the log is followed, or the job is printed as JSON, the controller is
\* not asked in a busy loop, even by a client that is turned down.
RoundsAreSpaced == mode \in {"log", "json"} => []<>(pc \in {"sleep", "done"})
=============================================================================
