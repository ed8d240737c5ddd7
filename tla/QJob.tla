--------------------------------- MODULE QJob ---------------------------------
(***************************************************************************)
(* The handle of one HEAppE job in the event-driven client.  QJob.result   *)
(* looks at the state noted in the handle, or fetches it once if there is  *)
(* none, and unless the job has ended opens the event WebSocket and waits  *)
(* for an event that ends it; then it downloads the artifacts and converts *)
(* them.  Each step that talks to HEAppE is an action, and between two of  *)
(* them the job moves on.                                                  *)
(*                                                                         *)
(* One thread calls result() and status(); cancel() may come from another  *)
(* thread while the first one waits.                                       *)
(***************************************************************************)
EXTENDS HEAppEJobs

CONSTANTS
    Mine,        \* the job of this handle
    TaskIds,     \* the ids HEAppE gave to its tasks
    MaxCalls,    \* bound: calls of result()
    Mishaps,     \* what may go wrong, a subset of AllMishaps
    NotFetched   \* _submitted_job has no "State" or no "Tasks"

AllMishaps == {"interrupt", "request", "socket", "artifacts", "null"}

ASSUME QJobAssumption ==
    /\ Mine \in Jobs
    /\ MaxCalls \in Nat
    /\ Mishaps \subseteq AllMishaps
    /\ NotFetched \notin JobStates

VARIABLES
    submittedState,   \* _submitted_job["State"], read by name
    lastKnown,        \* _last_known_status
    cancelRequested,  \* _cancel_requested
    pc,               \* what result() is doing
    format,           \* the key of the running call of result()
    since,            \* history: the job's state when the WebSocket opened
    lost,             \* history: HEAppE was lost while the last call waited
    artifacts,        \* _artifacts and _artifacts_have_measurements
    resultCache,      \* the keys of _result_cache
    outcome,          \* how the last call of result() ended
    calls

handleVars == <<submittedState, lastKnown, cancelRequested>>
callVars   == <<pc, format, outcome, calls>>
resultVars == <<artifacts, resultCache>>
history    == <<since, lost>>
vars == <<heappeVars, handleVars, callVars, resultVars, history>>

(***************************************************************************)
(* What is asked of result(): per-shot measurements or counts only, and    *)
(* one of the two result types.  The bit order acts like the result type.  *)
(***************************************************************************)
Formats == [measurements : BOOLEAN, legacy : BOOLEAN]

(***************************************************************************)
(* "null": measurements were downloaded, but the backend had none.         *)
(***************************************************************************)
Artifacts == {"none", "counts", "measured", "null"}

(***************************************************************************)
(* "failed" and "canceled" are the RuntimeErrors "Job N failed" and "Job N *)
(* was canceled", whatever they are raised for.                            *)
(***************************************************************************)
Outcomes == {"none", "result", "canceled", "failed", "noArtifacts",
             "keyError", "noMeasurements", "interrupted"}

Busy == {"info", "subscribe", "listen", "artifacts"}

Init ==
    /\ HEAppEInit
    /\ submittedState \in {NotFetched, jobState[Mine]}
    /\ lastKnown = "SUBMITTED"
    /\ cancelRequested = FALSE
    /\ pc = "idle"
    /\ format \in Formats
    /\ since = jobState[Mine]
    /\ lost = FALSE
    /\ artifacts = "none"
    /\ resultCache = {}
    /\ outcome = "none"
    /\ calls = 0

-----------------------------------------------------------------------------
(* How a call of result() goes on.                                         *)

\* mutant: only what was downloaded in just this format is kept
HaveSameArtifacts(f) ==
    IF f.measurements THEN artifacts \in {"measured", "null"}
                      ELSE artifacts = "counts"

(***************************************************************************)
(* _get_artifacts keeps what it has unless measurements are newly asked.   *)
(***************************************************************************)
HaveArtifacts(f) ==
    \/ artifacts \in {"measured", "null"}
    \/ artifacts = "counts" /\ ~f.measurements

(***************************************************************************)
(* The artifacts a are there: convert them and cache the result, or        *)
(* complain that measurements are missing.                                 *)
(***************************************************************************)
Convert(f, a) ==
    /\ pc' = "idle"
    /\ artifacts' = a
    /\ IF f.measurements /\ a # "measured"
       THEN outcome' = "noMeasurements" /\ UNCHANGED resultCache
       ELSE outcome' = "result" /\ resultCache' = resultCache \cup {f}

(***************************************************************************)
(* The call ends with an exception and without a result.                   *)
(***************************************************************************)
Raise(o) ==
    /\ pc' = "idle"
    /\ outcome' = o
    /\ UNCHANGED resultVars

(***************************************************************************)
(* Any exception while the call asks or waits for the state is raised as   *)
(* if the job had ended: as a cancellation once cancel() was called, as a  *)
(* failure otherwise.                                                      *)
(***************************************************************************)
RaiseWaiting == Raise(IF cancelRequested THEN "canceled" ELSE "failed")

\* mutant: no look at how the job ended
ConcludeAnyEnd(f, s) ==
    IF HaveArtifacts(f)
    THEN Convert(f, artifacts)
    ELSE pc' = "artifacts" /\ outcome' = "none" /\ UNCHANGED resultVars

(***************************************************************************)
(* The job has ended in state s: an error, or on to the artifacts.         *)
(***************************************************************************)
Conclude(f, s) ==
    CASE s # "FINISHED" ->
           Raise(IF cancelRequested \/ s = "CANCELED" THEN "canceled"
                                                      ELSE "failed")
      [] s = "FINISHED" /\ HaveArtifacts(f) -> Convert(f, artifacts)
      [] OTHER ->
           pc' = "artifacts" /\ outcome' = "none" /\ UNCHANGED resultVars

(***************************************************************************)
(* The state s noted in the handle decides whether to wait.                *)
(***************************************************************************)
Decide(f, s) ==
    /\ lastKnown' = s
    /\ IF Ended(s)
       THEN Conclude(f, s)
       ELSE pc' = "subscribe" /\ outcome' = "none" /\ UNCHANGED resultVars

CallResult(f) ==
    /\ pc = "idle"
    /\ calls < MaxCalls
    /\ calls' = calls + 1
    /\ format' = f
    /\ CASE f \in resultCache ->
              outcome' = "result" /\ UNCHANGED <<pc, lastKnown, resultVars>>
         [] f \notin resultCache /\ submittedState = NotFetched ->
              pc' = "info" /\ outcome' = "none"
              /\ UNCHANGED <<lastKnown, resultVars>>
         [] OTHER -> Decide(f, submittedState)
    /\ lost' = FALSE
    /\ UNCHANGED <<heappeVars, submittedState, cancelRequested, since>>

FetchInfo ==
    /\ pc = "info"
    /\ submittedState' = jobState[Mine]
    /\ Decide(format, jobState[Mine])
    /\ UNCHANGED <<heappeVars, cancelRequested, format, calls, history>>

(***************************************************************************)
(* The request fails, or its answer has no state.                          *)
(***************************************************************************)
FailToFetchInfo ==
    /\ pc = "info"
    /\ "request" \in Mishaps
    /\ RaiseWaiting
    /\ lost' = TRUE
    /\ UNCHANGED <<heappeVars, handleVars, format, calls, since>>

(***************************************************************************)
(* iter_events: only what happens after the WebSocket is connected is      *)
(* reported.                                                               *)
(***************************************************************************)
Subscribe ==
    /\ pc = "subscribe"
    /\ Open
    /\ since' = jobState[Mine]
    /\ pc' = "listen"
    /\ UNCHANGED <<handleVars, format, outcome, calls, resultVars, lost>>

FailToSubscribe ==
    /\ pc = "subscribe"
    /\ "socket" \in Mishaps
    /\ RaiseWaiting
    /\ lost' = TRUE
    /\ UNCHANGED <<heappeVars, handleVars, format, calls, since>>

(***************************************************************************)
(* await_for_job_terminal_state passes over the events of other jobs and   *)
(* those that do not end this one.                                         *)
(***************************************************************************)
EndsMineUncanceled(e) ==                    \* mutant: a spelling is missing
    e.job = Mine /\ e.state \in TerminalStates \ {"CANCELED"}

EndsMine(e) == e.job = Mine /\ Ended(e.state)

\* mutant: waits for success only
SkipUnfinished ==
    /\ pc = "listen"
    /\ inFlight # <<>>
    /\ Head(inFlight) # [job |-> Mine, state |-> "FINISHED"]
    /\ inFlight' = Tail(inFlight)
    /\ UNCHANGED <<jobState, cancelAsked, connected, handleVars, callVars,
                   resultVars, history>>

SkipEvent ==
    /\ pc = "listen"
    /\ inFlight # <<>>
    /\ ~EndsMine(Head(inFlight))
    /\ inFlight' = Tail(inFlight)
    /\ UNCHANGED <<jobState, cancelAsked, connected, handleVars, callVars,
                   resultVars, history>>

ReceiveEnd ==
    /\ pc = "listen"
    /\ inFlight # <<>>
    /\ LET e == Head(inFlight)
       IN  /\ EndsMine(e)
           /\ lastKnown' = e.state
           /\ Conclude(format, e.state)
    /\ Disconnect
    /\ UNCHANGED <<submittedState, cancelRequested, format, calls, history>>

(***************************************************************************)
(* The server closes the socket, or the socket fails.                      *)
(***************************************************************************)
LoseSocket ==
    /\ pc = "listen"
    /\ "socket" \in Mishaps
    /\ RaiseWaiting
    /\ lost' = TRUE
    /\ Disconnect
    /\ UNCHANGED <<handleVars, format, calls, since>>

(***************************************************************************)
(* The answer of QScheduler is keyed by task id and looked up by job id.   *)
(***************************************************************************)
FetchArtifacts ==
    /\ pc = "artifacts"
    /\ IF Mine \in TaskIds
       THEN \E a \in IF ~format.measurements THEN {"counts"}
                     ELSE {"measured"} \cup ({"null"} \cap Mishaps) :
              Convert(format, a)
       ELSE Raise("keyError")
    /\ UNCHANGED <<heappeVars, handleVars, format, calls, history>>

FailToFetchArtifacts ==
    /\ pc = "artifacts"
    /\ "artifacts" \in Mishaps
    /\ Raise("noArtifacts")
    /\ UNCHANGED <<heappeVars, handleVars, format, calls, history>>

(***************************************************************************)
(* KeyboardInterrupt is no Exception: nothing in result() catches it.      *)
(***************************************************************************)
Interrupt ==
    /\ pc \in Busy
    /\ "interrupt" \in Mishaps
    /\ Raise("interrupted")
    /\ Disconnect
    /\ UNCHANGED <<handleVars, format, calls, history>>

(***************************************************************************)
(* QClient.cancel_job is a coroutine that QJob.cancel makes and does not   *)
(* await: only the flag is set.                                            *)
(***************************************************************************)
Cancel ==
    /\ ~cancelRequested
    /\ cancelRequested' = TRUE
    /\ UNCHANGED <<heappeVars, submittedState, lastKnown, callVars,
                   resultVars, history>>

-----------------------------------------------------------------------------
Handle ==
    \/ FetchInfo \/ FailToFetchInfo
    \/ Subscribe \/ FailToSubscribe
    \/ SkipEvent \/ ReceiveEnd \/ LoseSocket
    \/ FetchArtifacts \/ FailToFetchArtifacts

User ==
    \/ \E f \in Formats : CallResult(f)
    \/ Interrupt
    \/ Cancel

HEAppE ==
    /\ \E j \in Jobs : Advance(j) \/ End(j) \/ AcceptCancel(j)
    /\ UNCHANGED <<handleVars, callVars, resultVars, history>>

Next == Handle \/ User \/ HEAppE

Spec == Init /\ [][Next]_vars

(***************************************************************************)
(* The client keeps running, but nothing has to fail: a broken socket is   *)
(* no way out of a wait.  HEAppE runs every job to an end: its tasks have  *)
(* a walltime limit.                                                       *)
(***************************************************************************)
JobsEnd ==
    \A j \in Jobs :
      /\ WF_vars(Advance(j) /\ UNCHANGED <<handleVars, callVars, resultVars,
                                           history>>)
      /\ WF_vars(End(j) /\ UNCHANGED <<handleVars, callVars, resultVars,
                                       history>>)

Proceed ==
    FetchInfo \/ Subscribe \/ SkipEvent \/ ReceiveEnd \/ FetchArtifacts

Fairness == WF_vars(Proceed) /\ JobsEnd

FairSpec == Spec /\ Fairness

-----------------------------------------------------------------------------
(***************************************************************************)
(* QJob.status(): the noted state, not a query.  Qiskit's JobStatus has no *)
(* CANCELED, and two of HEAppE's states are not in the mapping.            *)
(***************************************************************************)
StatusMapping ==
    [s \in JobStates |->
       CASE s = "FINISHED"    -> "DONE"
         [] s = "RUNNING"     -> "RUNNING"
         [] s = "SUBMITTED"   -> "QUEUED"
         [] s = "CONFIGURING" -> "INITIALIZING"
         [] s = "CANCELED"    -> "CANCELLED"
         [] OTHER             -> "ERROR"]

Status ==
    IF cancelRequested THEN "AttributeError" ELSE StatusMapping[lastKnown]

QJobTypeOK ==
    /\ HEAppETypeOK
    /\ submittedState \in JobStates \cup {NotFetched}
    /\ lastKnown \in JobStates
    /\ cancelRequested \in BOOLEAN
    /\ pc \in Busy \cup {"idle"}
    /\ format \in Formats
    /\ since \in JobStates
    /\ lost \in BOOLEAN
    /\ artifacts \in Artifacts
    /\ resultCache \subseteq Formats
    /\ outcome \in Outcomes
    /\ calls \in 0 .. MaxCalls

-----------------------------------------------------------------------------
(***************************************************************************)
(* result() answers truly: there is a result only if the job has finished; *)
(* unless HEAppE was lost during the call, a failure is reported only of a *)
(* job that failed, and a cancellation only of one that was cancelled or   *)
(* that failed after the user asked to cancel it.                          *)
(***************************************************************************)
OutcomeIsTrue ==
    /\ outcome = "result" \/ resultCache # {} => jobState[Mine] = "FINISHED"
    /\ outcome = "failed" => lost \/ jobState[Mine] = "FAILED"
    /\ outcome = "canceled" =>
          \/ jobState[Mine] = "CANCELED"
          \/ cancelRequested /\ (lost \/ jobState[Mine] = "FAILED")

(***************************************************************************)
(* When the handle says that its job has ended, it has, and in that state: *)
(* no event of another job and no passing state is taken for the end.      *)
(***************************************************************************)
KnownOutcomeIsTrue ==
    Ended(lastKnown) => jobState[Mine] = lastKnown

(***************************************************************************)
(* await_for_job_terminal_state cannot miss the end of a job that was live *)
(* when its WebSocket was connected: the event is still to be read.        *)
(***************************************************************************)
EndIsNotMissed ==
    (pc = "listen" /\ ~Ended(since) /\ Ended(jobState[Mine])) =>
        \E i \in 1 .. Len(inFlight) :
            inFlight[i].job = Mine /\ Ended(inFlight[i].state)

(***************************************************************************)
(* _get_artifacts may replace what was downloaded, but a result with       *)
(* per-shot measurements is only ever made from measurements, and they are *)
(* kept for the other formats.                                             *)
(***************************************************************************)
MeasurementsAreKept ==
    (\E f \in resultCache : f.measurements) => artifacts = "measured"

(***************************************************************************)
(* However result() is left, the WebSocket it opened is closed (aclosing). *)
(***************************************************************************)
SocketIsClosed == connected <=> pc = "listen"

(***************************************************************************)
(* A call of result() that listens to a live job returns.                  *)
(***************************************************************************)
ListenerReturns ==
    (pc = "listen" /\ ~Ended(since)) ~> (pc # "listen")

(***************************************************************************)
(* The handle keeps JobPromise, with lost as it is.                        *)
(***************************************************************************)
Report ==
    IF outcome \in {"result", "failed", "canceled"} THEN outcome ELSE "none"

Promise == INSTANCE JobPromise WITH state <- jobState[Mine],
                                    asked <- cancelRequested,
                                    report <- Report

KeepsPromise == Promise!Spec

-----------------------------------------------------------------------------
(* What the documentation and the tests say and the code does not do.      *)

(***************************************************************************)
(* "job.result() waits until the job finishes": a call comes to an end.    *)
(***************************************************************************)
ResultReturns == (pc # "idle") ~> (pc = "idle")
===============================================================================
