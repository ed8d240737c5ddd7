------------------------------ MODULE PollingJob ------------------------------
(***************************************************************************)
(* The handle of one HEAppE job in the polling client: QJob.result and     *)
(* QJob.wait_for_final_state ask HEAppE for the state every half second    *)
(* until the job has ended or the time is up.  The clock is read after     *)
(* each poll but the first.  A job that is cancelled while it runs may     *)
(* settle as FAILED, so the handle remembers that it asked.                *)
(*                                                                         *)
(* One thread waits; cancel() may come from another one.  The client has   *)
(* no event stream: it never opens the WebSocket of HEAppEJobs.            *)
(***************************************************************************)
EXTENDS HEAppEJobs

CONSTANTS
    Mine,        \* the job of this handle
    MaxCalls,    \* bound: calls of result() and wait_for_final_state()
    Mishaps      \* what may go wrong, a subset of AllMishaps

AllMishaps == {"request", "files", "noState"}

ASSUME PollingAssumption ==
    /\ Mine \in Jobs
    /\ MaxCalls \in Nat
    /\ Mishaps \subseteq AllMishaps

VARIABLES
    cancelRequested,  \* _cancel_requested: HEAppE accepted a cancel()
    pc,               \* what the waiting call is doing
    call,             \* which call it is, and its arguments
    polled,           \* job_status
    taskIds,          \* task_ids is not empty
    expired,          \* timeout_secs have passed since the call began
    hasResult,        \* _result
    outcome,          \* how the last call ended
    calls

waitVars == <<pc, call, polled, taskIds, expired, calls>>
answerVars == <<hasResult, outcome>>
vars == <<heappeVars, cancelRequested, waitVars, answerVars>>

(***************************************************************************)
(* limited: timeout_secs > 0.                                              *)
(***************************************************************************)
Calls == [name : {"result", "wait_for_final_state"}, limited : BOOLEAN,
          cancelAfter : BOOLEAN]

Busy == {"first", "poll", "check", "cancel", "fetch"}

Outcomes == {"none", "result", "failed", "canceled", "final", "timeout",
             "timeoutCanceled", "cannotCancel", "noStatus", "noFiles",
             "indexError"}

Statuses == {"WAITING", "FINISHED", "FAILED", "CANCELED", "UNKNOWN"}

StatusSpinning(s) ==                          \* mutant: a cancelled job spins
    IF s \in {"FINISHED", "FAILED"} THEN s ELSE "WAITING"

(***************************************************************************)
(* QClient.get_job_status folds the states of a live job into one.         *)
(***************************************************************************)
StatusOf(s) == IF Ended(s) THEN s ELSE "WAITING"

Init ==
    /\ HEAppEInit
    /\ cancelRequested = FALSE
    /\ pc = "idle"
    /\ call \in Calls
    /\ polled = "WAITING"
    /\ taskIds = TRUE
    /\ expired = FALSE
    /\ hasResult = FALSE
    /\ outcome = "none"
    /\ calls = 0

-----------------------------------------------------------------------------
Return(o) ==
    /\ pc' = "idle"
    /\ outcome' = o

Call(c) ==
    /\ pc = "idle"
    /\ calls < MaxCalls
    /\ calls' = calls + 1
    /\ call' = c
    /\ expired' = FALSE
    /\ IF c.name = "result" /\ hasResult
       THEN Return("result")
       ELSE pc' = "first" /\ outcome' = "none"
    /\ UNCHANGED <<heappeVars, cancelRequested, polled, taskIds, hasResult>>

(***************************************************************************)
(* What a status query may answer.                                         *)
(***************************************************************************)
Answers == {StatusOf(jobState[Mine])}
             \cup (IF "noState" \in Mishaps THEN {"UNKNOWN"} ELSE {})

\* mutant: no look at how the job ended
FinishUnchecked(s, known) ==
    IF call.name = "wait_for_final_state"
    THEN Return("final")
    ELSE pc' = "fetch" /\ UNCHANGED outcome

(***************************************************************************)
(* The job has ended with status s.  result() names the files to fetch by  *)
(* the task ids of the first poll before it looks at the status again.     *)
(***************************************************************************)
Finish(s, known) ==
    CASE call.name = "wait_for_final_state"   -> Return("final")
      [] call.name = "result" /\ ~known       -> Return("indexError")
      [] call.name = "result" /\ known /\ s = "CANCELED" -> Return("canceled")
      [] call.name = "result" /\ known /\ s = "FAILED"   -> Return("failed")
      [] OTHER -> pc' = "fetch" /\ UNCHANGED outcome

FirstPoll ==
    /\ pc = "first"
    /\ \E s \in Answers :
         /\ polled' = s
         /\ taskIds' = (s # "UNKNOWN")
         /\ IF Ended(s)
            THEN Finish(s, s # "UNKNOWN")
            ELSE pc' = "poll" /\ UNCHANGED outcome
    /\ UNCHANGED <<heappeVars, cancelRequested, call, expired, calls,
                   hasResult>>

(***************************************************************************)
(* After a sleep.  The ids that come with this answer are thrown away.     *)
(***************************************************************************)
Poll ==
    /\ pc = "poll"
    /\ \E s \in Answers : polled' = s
    /\ pc' = "check"
    /\ UNCHANGED <<heappeVars, cancelRequested, call, taskIds, expired,
                   calls, answerVars>>

FailToPoll ==
    /\ pc \in {"first", "poll"}
    /\ "request" \in Mishaps
    /\ Return("noStatus")
    /\ UNCHANGED <<heappeVars, cancelRequested, call, polled, taskIds,
                   expired, calls, hasResult>>

(***************************************************************************)
(* The clock is looked at before the status that was just polled.          *)
(* wait_for_final_state says "cancelled" whether it cancelled or not.      *)
(***************************************************************************)
Check ==
    /\ pc = "check"
    /\ CASE expired /\ call.cancelAfter -> pc' = "cancel" /\ UNCHANGED outcome
         [] expired /\ ~call.cancelAfter /\ call.name = "result" ->
              Return("timeout")
         [] expired /\ ~call.cancelAfter /\ call.name # "result" ->
              Return("timeoutCanceled")
         [] ~expired /\ Ended(polled) -> Finish(polled, taskIds)
         [] OTHER -> pc' = "poll" /\ UNCHANGED outcome
    /\ UNCHANGED <<heappeVars, cancelRequested, call, polled, taskIds,
                   expired, calls, hasResult>>

DeadlinePasses ==
    /\ pc \in Busy
    /\ call.limited
    /\ ~expired
    /\ expired' = TRUE
    /\ UNCHANGED <<heappeVars, cancelRequested, pc, call, polled, taskIds,
                   calls, answerVars>>

-----------------------------------------------------------------------------
(***************************************************************************)
(* cancel(): only what HEAppE accepts is noted.  HEAppE rejects the        *)
(* cancellation of a job that has ended.                                   *)
(***************************************************************************)
Accepted ==
    /\ ~Ended(jobState[Mine])
    /\ cancelAsked' = cancelAsked \cup {Mine}
    /\ cancelRequested' = TRUE
    /\ UNCHANGED <<jobState, connected, inFlight>>

Rejected ==
    /\ Ended(jobState[Mine]) \/ "request" \in Mishaps
    /\ UNCHANGED <<heappeVars, cancelRequested>>

CancelAfterTimeout ==
    /\ pc = "cancel"
    /\ \/ Accepted /\ Return("timeoutCanceled")
       \/ Rejected /\ Return("cannotCancel")
    /\ UNCHANGED <<call, polled, taskIds, expired, calls, hasResult>>

\* mutant: noted although HEAppE rejects it
CancelNotedAnyway ==
    /\ ~cancelRequested
    /\ cancelRequested' = TRUE
    /\ UNCHANGED <<heappeVars, waitVars, answerVars>>

Cancel ==
    /\ ~cancelRequested
    /\ Accepted
    /\ UNCHANGED <<waitVars, answerVars>>

(***************************************************************************)
(* get_job_results of a finished job: download and unpickle the files.     *)
(***************************************************************************)
FetchFiles ==
    /\ pc = "fetch"
    /\ Return("result")
    /\ hasResult' = TRUE
    /\ UNCHANGED <<heappeVars, cancelRequested, call, polled, taskIds,
                   expired, calls>>

FailToFetchFiles ==
    /\ pc = "fetch"
    /\ "files" \in Mishaps
    /\ Return("noFiles")
    /\ UNCHANGED <<heappeVars, cancelRequested, call, polled, taskIds,
                   expired, calls, hasResult>>

-----------------------------------------------------------------------------
Wait ==
    \/ FirstPoll \/ Poll \/ FailToPoll \/ Check
    \/ CancelAfterTimeout
    \/ FetchFiles \/ FailToFetchFiles

HEAppE ==
    /\ \E j \in Jobs : Advance(j) \/ End(j) \/ AcceptCancel(j)
    /\ UNCHANGED <<cancelRequested, waitVars, answerVars>>

Next ==
    \/ \E c \in Calls : Call(c)
    \/ Wait
    \/ DeadlinePasses
    \/ Cancel
    \/ HEAppE

Spec == Init /\ [][Next]_vars

(***************************************************************************)
(* The polling thread runs, time passes, and HEAppE ends every job: its    *)
(* task has a walltime limit.                                              *)
(***************************************************************************)
FairSpec ==
    /\ Spec
    /\ WF_vars(Wait)
    /\ WF_vars(HEAppE /\ Advance(Mine))
    /\ WF_vars(HEAppE /\ End(Mine))

-----------------------------------------------------------------------------
(***************************************************************************)
(* _to_qiskit_status of what status() polls, before there is a remote job. *)
(***************************************************************************)
Status ==
    LET s == StatusOf(jobState[Mine])
    IN  CASE s = "FINISHED" -> "DONE"
          [] s = "WAITING"  -> "RUNNING"
          [] s = "CANCELED" -> "CANCELLED"
          [] OTHER -> IF cancelRequested THEN "CANCELLED" ELSE "ERROR"

PollingTypeOK ==
    /\ HEAppETypeOK
    /\ cancelRequested \in BOOLEAN
    /\ pc \in Busy \cup {"idle"}
    /\ call \in Calls
    /\ polled \in Statuses
    /\ taskIds \in BOOLEAN
    /\ expired \in BOOLEAN
    /\ hasResult \in BOOLEAN
    /\ outcome \in Outcomes
    /\ calls \in 0 .. MaxCalls

(***************************************************************************)
(* A job is shown as cancelled only if HEAppE was asked to cancel it, even *)
(* where a failure is taken for a cancellation.                            *)
(***************************************************************************)
CancelledWasAsked == Status = "CANCELLED" => Mine \in cancelAsked

(***************************************************************************)
(* The handle keeps JobPromise, and HEAppE being lost is no excuse: that   *)
(* has exceptions of its own.                                              *)
(***************************************************************************)
Report ==
    IF outcome \in {"result", "failed", "canceled"} THEN outcome ELSE "none"

Promise == INSTANCE JobPromise WITH state <- jobState[Mine],
                                    asked <- cancelRequested,
                                    report <- Report,
                                    lost <- FALSE

KeepsPromise == Promise!Spec

(***************************************************************************)
(* Every wait ends, with or without a timeout: a poll sees the state       *)
(* itself, so no end can be missed.  The one exception is a HEAppE that    *)
(* answers without a state.                                                *)
(***************************************************************************)
WaitEnds == (pc # "idle") ~> (pc = "idle" \/ polled = "UNKNOWN")
===============================================================================
