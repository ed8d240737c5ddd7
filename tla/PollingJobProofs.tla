--------------------------- MODULE PollingJobProofs ---------------------------
(***************************************************************************)
(* The polling client keeps the same promise as the event-driven one, for  *)
(* any number of calls and with everything that can fail failing.  A       *)
(* status that was polled may be out of date, but one that ends the job    *)
(* never is.                                                               *)
(***************************************************************************)
EXTENDS PollingJob, TLAPS

(***************************************************************************)
(* The strengthening: what was polled, what is being fetched and what was  *)
(* answered agree with the state the job ended in.                         *)
(***************************************************************************)
PolledIsTrue == Ended(polled) => jobState[Mine] = polled

ResultsOfFinished ==
    (hasResult \/ pc = "fetch") => jobState[Mine] = "FINISHED"

AnswerIsTrue ==
    /\ pc # "idle" => outcome = "none"
    /\ outcome = "result" => jobState[Mine] = "FINISHED"
    /\ outcome = "failed" => jobState[Mine] = "FAILED"
    /\ outcome = "canceled" => jobState[Mine] = "CANCELED"

CancelsAreAccepted ==
    /\ cancelRequested => Mine \in cancelAsked
    /\ jobState[Mine] = "CANCELED" => Mine \in cancelAsked

JobInv ==
    /\ PollingTypeOK
    /\ ~connected
    /\ PolledIsTrue
    /\ ResultsOfFinished
    /\ AnswerIsTrue
    /\ CancelsAreAccepted

(***************************************************************************)
(* What holds of the job whoever moves it.                                 *)
(***************************************************************************)
JobParts ==
    /\ HEAppETypeOK
    /\ ~connected
    /\ cancelRequested \in BOOLEAN
    /\ CancelsAreAccepted

(***************************************************************************)
(* What holds of the waiting call, given the state of the job.             *)
(***************************************************************************)
CallParts ==
    /\ pc \in Busy \cup {"idle"} /\ call \in Calls
    /\ polled \in Statuses /\ taskIds \in BOOLEAN
    /\ expired \in BOOLEAN
    /\ hasResult \in BOOLEAN /\ outcome \in Outcomes
    /\ calls \in 0 .. MaxCalls
    /\ PolledIsTrue /\ ResultsOfFinished /\ AnswerIsTrue

LEMMA JobInvIsParts == JobInv <=> JobParts /\ CallParts
  BY DEF JobInv, PollingTypeOK, JobParts, CallParts

LEMMA JobInvIsPartsNext == JobInv' <=> JobParts' /\ CallParts'
  BY DEF JobInv, PollingTypeOK, JobParts, CallParts

-----------------------------------------------------------------------------
LEMMA PollingInit == Init => JobInv
<1> SUFFICES ASSUME Init PROVE JobInv
  OBVIOUS
<1>1. Mine \in Jobs /\ MaxCalls \in Nat
  BY PollingAssumption
<1>2. <<>> \in Seq(Event)
  OBVIOUS
<1>3. HEAppETypeOK
  <2>1. jobState \in [Jobs -> JobStates] /\ connected \in BOOLEAN
    BY DEF Init, HEAppEInit
  <2>2. cancelAsked \in SUBSET Jobs
    BY DEF Init, HEAppEInit
  <2> QED
    BY <1>2, <2>1, <2>2 DEF HEAppETypeOK, Init, HEAppEInit
<1>4. JobParts
  BY <1>1, <1>3 DEF Init, HEAppEInit, JobParts, CancelsAreAccepted
<1>5. CallParts
  <2>1. /\ pc = "idle" /\ polled = "WAITING" /\ outcome = "none"
        /\ hasResult = FALSE /\ call \in Calls /\ calls = 0
    BY DEF Init
  <2>2. taskIds \in BOOLEAN /\ expired \in BOOLEAN
    BY DEF Init
  <2>3. "WAITING" \in Statuses /\ "none" \in Outcomes /\ 0 \in 0 .. MaxCalls
    BY <1>1 DEF Statuses, Outcomes
  <2>4. ~Ended("WAITING")
    BY DEF Ended, TerminalStates
  <2>5. PolledIsTrue
    BY <2>1, <2>4 DEF PolledIsTrue
  <2>6. ResultsOfFinished /\ AnswerIsTrue
    BY <2>1 DEF ResultsOfFinished, AnswerIsTrue
  <2> QED
    BY <2>1, <2>2, <2>3, <2>5, <2>6 DEF CallParts
<1> QED
  BY <1>4, <1>5, JobInvIsParts

-----------------------------------------------------------------------------
(* The job.                                                                *)

(***************************************************************************)
(* HEAppE moves a job on, or accepts a cancellation: no job leaves its     *)
(* end, and none is cancelled that was not asked to.                       *)
(***************************************************************************)
LEMMA HEAppEKeepsEnds ==
    ASSUME JobParts, HEAppE
    PROVE  /\ JobParts'
           /\ Ended(jobState[Mine]) => jobState'[Mine] = jobState[Mine]
<1>1. PICK j \in Jobs : Advance(j) \/ End(j) \/ AcceptCancel(j)
  BY DEF HEAppE
<1>2. cancelRequested' = cancelRequested
  BY DEF HEAppE
<1>3. /\ Mine \in Jobs /\ jobState \in [Jobs -> JobStates]
      /\ cancelAsked \in SUBSET Jobs /\ inFlight \in Seq(Event)
      /\ connected = FALSE
  BY PollingAssumption DEF JobParts, HEAppETypeOK
<1>4. CASE AcceptCancel(j)
  <2>1. /\ jobState' = jobState /\ connected' = connected
        /\ inFlight' = inFlight /\ cancelAsked' = cancelAsked \cup {j}
    BY <1>4 DEF AcceptCancel
  <2> QED
    BY <2>1, <1>2, <1>3 DEF JobParts, HEAppETypeOK, CancelsAreAccepted
<1>5. CASE Advance(j) \/ End(j)
  <2>1. PICK s \in JobStates :
            /\ MoveTo(j, s) /\ ~Ended(jobState[j])
            /\ s = "CANCELED" => j \in cancelAsked
    <3>1. CASE Advance(j)
      <4>1. PICK s \in NextLive(jobState[j]) : MoveTo(j, s)
        BY <3>1 DEF Advance
      <4> QED
        BY <4>1, <1>3 DEF NextLive, JobStates, LiveStates, TerminalStates,
           Ended
    <3>2. CASE End(j)
      BY <3>2 DEF End, JobStates
    <3> QED
      BY <1>5, <3>1, <3>2
  <2>2. /\ jobState' = [jobState EXCEPT ![j] = s]
        /\ connected' = connected /\ inFlight' = inFlight
        /\ cancelAsked' = cancelAsked
    BY <2>1, <1>3 DEF MoveTo
  <2>3. HEAppETypeOK'
    BY <2>1, <2>2, <1>3 DEF HEAppETypeOK
  <2>4. Ended(jobState[Mine]) => jobState'[Mine] = jobState[Mine]
    BY <2>1, <2>2, <1>3
  <2>5. CancelsAreAccepted'
    BY <2>1, <2>2, <1>2, <1>3 DEF JobParts, CancelsAreAccepted
  <2> QED
    BY <2>2, <2>3, <2>4, <2>5, <1>2 DEF JobParts
<1> QED
  BY <1>1, <1>4, <1>5

LEMMA AcceptedIsNoted ==
    ASSUME JobParts, Accepted
    PROVE  JobParts' /\ jobState' = jobState
  BY PollingAssumption DEF JobParts, Accepted, HEAppETypeOK,
     CancelsAreAccepted

LEMMA QuietJob ==
    ASSUME JobParts, UNCHANGED <<heappeVars, cancelRequested>>
    PROVE  JobParts' /\ jobState' = jobState
  BY DEF JobParts, heappeVars, HEAppETypeOK, CancelsAreAccepted

-----------------------------------------------------------------------------
(* The waiting call.                                                       *)

(***************************************************************************)
(* What a poll may answer: a status that ends the job is its state.        *)
(***************************************************************************)
LEMMA AnswersAreTrue ==
    ASSUME JobParts, NEW s \in Answers
    PROVE  s \in Statuses /\ (Ended(s) => jobState[Mine] = s)
<1>1. jobState[Mine] \in JobStates
  BY PollingAssumption DEF JobParts, HEAppETypeOK
<1>2. CASE s = StatusOf(jobState[Mine])
  BY <1>1, <1>2 DEF StatusOf, Ended, TerminalStates, Statuses, JobStates,
     LiveStates
<1>3. CASE s = "UNKNOWN"
  BY <1>3 DEF Statuses, Ended, TerminalStates
<1> QED
  BY <1>2, <1>3 DEF Answers

(***************************************************************************)
(* A job that was seen to end is answered for by its state.                *)
(***************************************************************************)
LEMMA FinishIsTrue ==
    ASSUME CallParts, pc # "idle", NEW s, NEW known \in BOOLEAN,
           Ended(s), jobState[Mine] = s, jobState' = jobState,
           hasResult' = hasResult, Finish(s, known)
    PROVE  /\ pc' \in Busy \cup {"idle"} /\ outcome' \in Outcomes
           /\ ResultsOfFinished' /\ AnswerIsTrue'
<1>1. /\ outcome = "none" /\ outcome \in Outcomes
      /\ hasResult => s = "FINISHED"
      /\ s \in TerminalStates /\ call.name \in {"result", "wait_for_final_state"}
  BY DEF CallParts, AnswerIsTrue, ResultsOfFinished, Ended, Calls
<1>2. CASE call.name = "wait_for_final_state"
  <2>1. Return("final")
    BY <1>2 DEF Finish
  <2> QED
    BY <2>1, <1>1, <1>2 DEF Return, Busy, Outcomes, ResultsOfFinished,
       AnswerIsTrue
<1>3. CASE call.name = "result" /\ ~known
  <2>1. Return("indexError")
    BY <1>3 DEF Finish
  <2> QED
    BY <2>1, <1>1, <1>3 DEF Return, Busy, Outcomes, ResultsOfFinished,
       AnswerIsTrue
<1>4. CASE call.name = "result" /\ known /\ s = "CANCELED"
  <2>1. Return("canceled")
    BY <1>4 DEF Finish
  <2> QED
    BY <2>1, <1>1, <1>4 DEF Return, Busy, Outcomes, ResultsOfFinished,
       AnswerIsTrue
<1>5. CASE call.name = "result" /\ known /\ s = "FAILED"
  <2>1. Return("failed")
    BY <1>5 DEF Finish
  <2> QED
    BY <2>1, <1>1, <1>5 DEF Return, Busy, Outcomes, ResultsOfFinished,
       AnswerIsTrue
<1>6. CASE call.name = "result" /\ known /\ s = "FINISHED"
  BY <1>1, <1>6 DEF Finish, Busy, Outcomes, ResultsOfFinished, AnswerIsTrue
<1> QED
  BY <1>1, <1>2, <1>3, <1>4, <1>5, <1>6 DEF TerminalStates

LEMMA CallKeeps ==
    ASSUME JobInv, NEW c \in Calls, Call(c)
    PROVE  JobInv'
<1>1. JobParts /\ CallParts
  BY JobInvIsParts
<1>2. JobParts' /\ jobState' = jobState
  BY <1>1, QuietJob DEF Call
<1>3. /\ calls' = calls + 1 /\ calls < MaxCalls /\ call' = c /\ pc = "idle"
      /\ expired' = FALSE
      /\ polled' = polled /\ taskIds' = taskIds /\ hasResult' = hasResult
  BY DEF Call
<1>4. calls' \in 0 .. MaxCalls
  BY <1>1, <1>3, PollingAssumption DEF CallParts
<1>5. pc' \in {"idle", "first"} /\ outcome' \in {"none", "result"}
  BY DEF Call, Return
<1>6. outcome' = "result" => hasResult
  <2>1. CASE c.name = "result" /\ hasResult
    BY <2>1
  <2>2. CASE ~(c.name = "result" /\ hasResult)
    BY <2>2 DEF Call
  <2> QED
    BY <2>1, <2>2
<1>7. pc' # "idle" => outcome' = "none"
  BY DEF Call, Return
<1>8. PolledIsTrue' /\ ResultsOfFinished' /\ AnswerIsTrue'
  BY <1>1, <1>2, <1>3, <1>5, <1>6, <1>7 DEF CallParts, PolledIsTrue,
     ResultsOfFinished, AnswerIsTrue
<1>9. CallParts'
  BY <1>1, <1>3, <1>4, <1>5, <1>8 DEF CallParts, Busy, Outcomes
<1> QED
  BY <1>2, <1>9, JobInvIsPartsNext

LEMMA FirstPollKeeps ==
    ASSUME JobInv, FirstPoll
    PROVE  JobInv'
<1>1. JobParts /\ CallParts
  BY JobInvIsParts
<1>2. JobParts' /\ jobState' = jobState
  BY <1>1, QuietJob DEF FirstPoll
<1>3. /\ call' = call /\ expired' = expired
      /\ calls' = calls /\ hasResult' = hasResult /\ pc = "first"
  BY DEF FirstPoll
<1>4. PICK s \in Answers :
          /\ polled' = s /\ taskIds' = (s # "UNKNOWN")
          /\ IF Ended(s) THEN Finish(s, s # "UNKNOWN")
                         ELSE pc' = "poll" /\ UNCHANGED outcome
  BY DEF FirstPoll
<1>5. s \in Statuses /\ (Ended(s) => jobState[Mine] = s)
  BY <1>1, AnswersAreTrue
<1>6. PolledIsTrue'
  BY <1>2, <1>4, <1>5 DEF PolledIsTrue
<1>7. /\ pc' \in Busy \cup {"idle"} /\ outcome' \in Outcomes
      /\ ResultsOfFinished' /\ AnswerIsTrue'
  <2>1. CASE Ended(s)
    <3> DEFINE known == s # "UNKNOWN"
    <3>1. known \in BOOLEAN /\ Finish(s, known) /\ pc # "idle"
      BY <1>3, <1>4, <2>1
    <3> HIDE DEF known
    <3> QED
      BY <3>1, <2>1, <1>1, <1>2, <1>3, <1>5, FinishIsTrue
  <2>2. CASE ~Ended(s)
    <3>1. pc' = "poll" /\ outcome' = outcome
      BY <1>4, <2>2
    <3> QED
      BY <3>1, <1>1, <1>2, <1>3 DEF CallParts, Busy, ResultsOfFinished,
         AnswerIsTrue
  <2> QED
    BY <2>1, <2>2
<1>8. CallParts'
  BY <1>1, <1>3, <1>4, <1>5, <1>6, <1>7 DEF CallParts
<1> QED
  BY <1>2, <1>8, JobInvIsPartsNext

LEMMA PollKeeps ==
    ASSUME JobInv, Poll
    PROVE  JobInv'
<1>1. JobParts /\ CallParts
  BY JobInvIsParts
<1>2. JobParts' /\ jobState' = jobState
  BY <1>1, QuietJob DEF Poll
<1>3. /\ call' = call /\ taskIds' = taskIds /\ expired' = expired
      /\ calls' = calls
      /\ hasResult' = hasResult /\ outcome' = outcome
      /\ pc = "poll" /\ pc' = "check"
  BY DEF Poll, answerVars
<1>4. PICK s \in Answers : polled' = s
  BY DEF Poll
<1>5. polled' \in Statuses /\ PolledIsTrue'
  BY <1>1, <1>2, <1>4, AnswersAreTrue DEF PolledIsTrue
<1>6. CallParts'
  BY <1>1, <1>2, <1>3, <1>5 DEF CallParts, Busy, ResultsOfFinished,
     AnswerIsTrue
<1> QED
  BY <1>2, <1>6, JobInvIsPartsNext

LEMMA CheckKeeps ==
    ASSUME JobInv, Check
    PROVE  JobInv'
<1>1. JobParts /\ CallParts
  BY JobInvIsParts
<1>2. JobParts' /\ jobState' = jobState
  BY <1>1, QuietJob DEF Check
<1>3. /\ call' = call /\ polled' = polled /\ taskIds' = taskIds
      /\ expired' = expired
      /\ calls' = calls /\ hasResult' = hasResult /\ pc = "check"
  BY DEF Check
<1>4. PolledIsTrue'
  BY <1>1, <1>2, <1>3 DEF CallParts, PolledIsTrue
<1>5. outcome = "none" /\ taskIds \in BOOLEAN
  BY <1>1, <1>3 DEF CallParts, AnswerIsTrue
<1>6. /\ pc' \in Busy \cup {"idle"} /\ outcome' \in Outcomes
      /\ ResultsOfFinished' /\ AnswerIsTrue'
  <2>1. CASE pc' \in {"cancel", "poll"} /\ outcome' = outcome
    BY <2>1, <1>1, <1>2, <1>3, <1>5 DEF CallParts, Busy, ResultsOfFinished,
       AnswerIsTrue
  <2>2. CASE Return("timeout") \/ Return("timeoutCanceled")
    BY <2>2, <1>1, <1>2, <1>3 DEF CallParts, Return, Busy, Outcomes,
       ResultsOfFinished, AnswerIsTrue
  <2>3. CASE Ended(polled) /\ Finish(polled, taskIds)
    <3>1. jobState[Mine] = polled /\ pc # "idle"
      BY <2>3, <1>1, <1>3 DEF CallParts, PolledIsTrue
    <3> QED
      BY <3>1, <2>3, <1>1, <1>2, <1>3, <1>5, FinishIsTrue
  <2>4. CASE expired
    BY <2>1, <2>2, <2>4 DEF Check
  <2>5. CASE ~expired
    BY <2>1, <2>3, <2>5 DEF Check
  <2> QED
    BY <2>4, <2>5
<1>7. CallParts'
  BY <1>1, <1>3, <1>4, <1>6 DEF CallParts
<1> QED
  BY <1>2, <1>7, JobInvIsPartsNext

(***************************************************************************)
(* A call that ends without an answer.                                     *)
(***************************************************************************)
LEMMA GiveUpKeeps ==
    ASSUME JobInv, FailToPoll \/ FailToFetchFiles \/ CancelAfterTimeout
    PROVE  JobInv' /\ pc # "idle"
<1>1. JobParts /\ CallParts
  BY JobInvIsParts
<1>2. JobParts' /\ jobState' = jobState
  <2>1. CASE FailToPoll
    BY <2>1, <1>1, QuietJob DEF FailToPoll
  <2>2. CASE FailToFetchFiles
    BY <2>2, <1>1, QuietJob DEF FailToFetchFiles
  <2>3. CASE CancelAfterTimeout
    <3>1. CASE Accepted
      BY <3>1, <1>1, AcceptedIsNoted
    <3>2. CASE Rejected
      BY <3>2, <1>1, QuietJob DEF Rejected
    <3> QED
      BY <2>3, <3>1, <3>2 DEF CancelAfterTimeout
  <2> QED
    BY <2>1, <2>2, <2>3
<1>3. /\ call' = call /\ polled' = polled /\ taskIds' = taskIds
      /\ expired' = expired
      /\ calls' = calls /\ hasResult' = hasResult /\ pc # "idle"
  BY DEF FailToPoll, FailToFetchFiles, CancelAfterTimeout
<1>4. /\ pc' = "idle"
      /\ outcome' \in {"noStatus", "noFiles", "timeoutCanceled",
                       "cannotCancel"}
  BY DEF FailToPoll, FailToFetchFiles, CancelAfterTimeout, Return
<1>5. CallParts'
  BY <1>1, <1>2, <1>3, <1>4 DEF CallParts, Busy, Outcomes, PolledIsTrue,
     ResultsOfFinished, AnswerIsTrue
<1> QED
  BY <1>2, <1>3, <1>5, JobInvIsPartsNext

LEMMA FetchFilesKeeps ==
    ASSUME JobInv, FetchFiles
    PROVE  JobInv'
<1>1. JobParts /\ CallParts
  BY JobInvIsParts
<1>2. JobParts' /\ jobState' = jobState
  BY <1>1, QuietJob DEF FetchFiles
<1>3. /\ call' = call /\ polled' = polled /\ taskIds' = taskIds
      /\ expired' = expired
      /\ calls' = calls /\ hasResult' = TRUE /\ pc = "fetch"
      /\ pc' = "idle" /\ outcome' = "result"
  BY DEF FetchFiles, Return
<1>4. CallParts'
  BY <1>1, <1>2, <1>3 DEF CallParts, Busy, Outcomes, PolledIsTrue,
     ResultsOfFinished, AnswerIsTrue
<1> QED
  BY <1>2, <1>4, JobInvIsPartsNext

LEMMA DeadlineKeeps ==
    ASSUME JobInv, DeadlinePasses
    PROVE  JobInv'
<1>1. JobParts /\ CallParts
  BY JobInvIsParts
<1>2. JobParts' /\ jobState' = jobState
  BY <1>1, QuietJob DEF DeadlinePasses
<1>3. /\ call' = call /\ polled' = polled /\ taskIds' = taskIds
      /\ calls' = calls /\ hasResult' = hasResult /\ outcome' = outcome
      /\ pc' = pc
  BY DEF DeadlinePasses, answerVars
<1>4. expired' \in BOOLEAN
  BY DEF DeadlinePasses, Ended
<1>5. CallParts'
  BY <1>1, <1>2, <1>3, <1>4 DEF CallParts, PolledIsTrue, ResultsOfFinished,
     AnswerIsTrue
<1> QED
  BY <1>2, <1>5, JobInvIsPartsNext

(***************************************************************************)
(* The job is moved or cancelled while the call waits, or nothing happens. *)
(***************************************************************************)
LEMMA ElsewhereKeeps ==
    ASSUME JobInv, HEAppE \/ Cancel \/ UNCHANGED vars
    PROVE  JobInv'
<1>1. JobParts /\ CallParts
  BY JobInvIsParts
<1>2. /\ JobParts'
      /\ Ended(jobState[Mine]) => jobState'[Mine] = jobState[Mine]
  <2>1. CASE HEAppE
    BY <2>1, <1>1, HEAppEKeepsEnds
  <2>2. CASE Cancel
    BY <2>2, <1>1, AcceptedIsNoted DEF Cancel
  <2>3. CASE UNCHANGED vars
    BY <2>3, <1>1, QuietJob DEF vars
  <2> QED
    BY <2>1, <2>2, <2>3
<1>3. /\ pc' = pc /\ call' = call /\ polled' = polled
      /\ taskIds' = taskIds /\ expired' = expired
      /\ calls' = calls
      /\ hasResult' = hasResult /\ outcome' = outcome
  BY DEF HEAppE, Cancel, vars, waitVars, answerVars
<1>4. Ended("FINISHED") /\ Ended("FAILED") /\ Ended("CANCELED")
  BY DEF Ended, TerminalStates
<1>5. PolledIsTrue' /\ ResultsOfFinished' /\ AnswerIsTrue'
  BY <1>1, <1>2, <1>3, <1>4 DEF CallParts, PolledIsTrue, ResultsOfFinished,
     AnswerIsTrue
<1>6. CallParts'
  BY <1>1, <1>3, <1>5 DEF CallParts
<1> QED
  BY <1>2, <1>6, JobInvIsPartsNext

-----------------------------------------------------------------------------
(***************************************************************************)
(* The types and the strengthening hold of every state the polling handle  *)
(* reaches.                                                                *)
(***************************************************************************)
THEOREM PollingSafe == Spec => []JobInv
<1>1. JobInv /\ [Next]_vars => JobInv'
  <2> SUFFICES ASSUME JobInv, [Next]_vars PROVE JobInv'
    OBVIOUS
  <2>1. CASE \E c \in Calls : Call(c)
    BY <2>1, CallKeeps
  <2>2. CASE Wait
    BY <2>2, FirstPollKeeps, PollKeeps, CheckKeeps, GiveUpKeeps,
       FetchFilesKeeps DEF Wait
  <2>3. CASE DeadlinePasses
    BY <2>3, DeadlineKeeps
  <2>4. CASE HEAppE \/ Cancel \/ UNCHANGED vars
    BY <2>4, ElsewhereKeeps
  <2> QED
    BY <2>1, <2>2, <2>3, <2>4 DEF Next
<1> QED
  BY <1>1, PollingInit, PTL DEF Spec

(***************************************************************************)
(* A polling handle and its job keep their types (QJob in backend.py).     *)
(***************************************************************************)
THEOREM PollingIsTyped == Spec => []PollingTypeOK
<1>1. JobInv => PollingTypeOK
  BY DEF JobInv
<1> QED
  BY <1>1, PollingSafe, PTL

(***************************************************************************)
(* A job that status() shows as cancelled is one HEAppE was asked to       *)
(* cancel: a failure is taken for a cancellation only after one was        *)
(* accepted.                                                               *)
(***************************************************************************)
THEOREM CancelledWasAlwaysAsked == Spec => []CancelledWasAsked
<1>1. JobInv => CancelledWasAsked
  <2> SUFFICES ASSUME JobInv PROVE CancelledWasAsked
    OBVIOUS
  <2>1. CancelsAreAccepted
    BY DEF JobInv
  <2>2. StatusOf(jobState[Mine]) = "CANCELED" => jobState[Mine] = "CANCELED"
    BY DEF StatusOf
  <2> QED
    BY <2>1, <2>2 DEF CancelledWasAsked, Status, CancelsAreAccepted
<1> QED
  BY <1>1, PollingSafe, PTL

(***************************************************************************)
(* The polling handle keeps JobPromise: HEAppE moves the state, a          *)
(* cancellation that is accepted asks, and the call reports.               *)
(***************************************************************************)
THEOREM PollingKeepsPromise == Spec => KeepsPromise
<1>1. Init => Promise!Init
  <2> SUFFICES ASSUME Init PROVE Promise!Init
    OBVIOUS
  <2>1. jobState[Mine] \in Promise!JobStates
    BY PollingAssumption DEF Init, HEAppEInit, JobStates, LiveStates,
       TerminalStates, Promise!JobStates, Promise!LiveStates,
       Promise!TerminalStates
  <2> QED
    BY <2>1 DEF Init, Promise!Init, Report
<1>2. JobInv /\ JobInv' /\ [Next]_vars => [Promise!Next]_(Promise!vars)
  <2> SUFFICES ASSUME JobInv, JobInv', [Next]_vars
               PROVE  Promise!Next \/ UNCHANGED Promise!vars
    OBVIOUS
  <2>1. CASE jobState' = jobState /\ cancelRequested' = cancelRequested
    <3>1. Report' \in Promise!Reports
      BY DEF Report, Promise!Reports
    <3>2. AnswerIsTrue'
      BY DEF JobInv
    <3>3. Promise!MayReport(Report', FALSE)
      BY <2>1, <3>2 DEF AnswerIsTrue, Report, Promise!MayReport
    <3> QED
      BY <2>1, <3>1, <3>3 DEF Promise!Tell, Promise!Next
  <2>2. CASE Accepted /\ Report' = Report
    BY <2>2 DEF Accepted, Promise!AskToCancel, Promise!Next
  <2>3. CASE HEAppE
    <3>1. cancelRequested' = cancelRequested /\ Report' = Report
      BY <2>3 DEF HEAppE, answerVars, Report
    <3>2. /\ jobState'[Mine] \in JobStates
          /\ Ended(jobState[Mine]) => jobState'[Mine] = jobState[Mine]
      BY <2>3, HEAppEKeepsEnds, JobInvIsParts, PollingAssumption
         DEF JobParts, HEAppETypeOK
    <3>3. jobState'[Mine] \in Promise!JobStates
      BY <3>2 DEF JobStates, LiveStates, TerminalStates, Promise!JobStates,
         Promise!LiveStates, Promise!TerminalStates
    <3>4. CASE Ended(jobState[Mine])
      BY <3>1, <3>2, <3>4 DEF Promise!vars
    <3>5. CASE ~Ended(jobState[Mine])
      BY <3>1, <3>3, <3>5 DEF Promise!Next, Promise!Move, Ended,
         TerminalStates, Promise!Ended, Promise!TerminalStates
    <3> QED
      BY <3>4, <3>5
  <2>4. CASE CancelAfterTimeout
    <3>1. outcome = "none"
      BY <2>4 DEF JobInv, AnswerIsTrue, CancelAfterTimeout
    <3>2. Report' = Report
      BY <2>4, <3>1 DEF CancelAfterTimeout, Return, Report
    <3>3. CASE Rejected
      BY <3>3, <2>1 DEF Rejected, heappeVars
    <3> QED
      BY <2>2, <2>4, <3>2, <3>3 DEF CancelAfterTimeout
  <2>5. CASE Cancel
    BY <2>2, <2>5 DEF Cancel, answerVars, Report
  <2>6. CASE \E c \in Calls : Call(c)
    BY <2>1, <2>6 DEF Call, heappeVars
  <2>7. CASE FirstPoll \/ Poll \/ FailToPoll \/ Check \/ FetchFiles
                \/ FailToFetchFiles \/ DeadlinePasses \/ UNCHANGED vars
    BY <2>1, <2>7 DEF FirstPoll, Poll, FailToPoll, Check, FetchFiles,
       FailToFetchFiles, DeadlinePasses, vars, heappeVars
  <2> QED
    BY <2>3, <2>4, <2>5, <2>6, <2>7 DEF Next, Wait
<1> QED
  BY <1>1, <1>2, PollingSafe, PTL DEF Spec, KeepsPromise, Promise!Spec
===============================================================================
