------------------------------ MODULE QJobProofs ------------------------------
(***************************************************************************)
(* QJob answers truly, for any number of jobs, of calls and of events in   *)
(* flight.  What is reported is true because events are: the state in an   *)
(* event was the job's state when it was sent, and one that ends a job is  *)
(* never left.                                                             *)
(***************************************************************************)
EXTENDS QJob, TLAPS

(***************************************************************************)
(* The strengthening.  A state that ends the job, wherever it is noted, is *)
(* the one the job is in.                                                  *)
(***************************************************************************)
EventsAreTrue ==
    \A i \in 1 .. Len(inFlight) :
        Ended(inFlight[i].state) =>
            jobState[inFlight[i].job] = inFlight[i].state

SubmittedIsTrue == Ended(submittedState) => jobState[Mine] = submittedState

(***************************************************************************)
(* Artifacts are downloaded of finished jobs only, and only when they are  *)
(* not there: the download of one format never replaces a better one.      *)
(***************************************************************************)
ArtifactsOfFinished ==
    /\ (artifacts # "none" \/ pc = "artifacts") => jobState[Mine] = "FINISHED"
    /\ pc = "artifacts" => ~HaveArtifacts(format)

JobInv ==
    /\ QJobTypeOK
    /\ SocketIsClosed
    /\ EventsAreTrue
    /\ SubmittedIsTrue
    /\ KnownOutcomeIsTrue
    /\ ArtifactsOfFinished
    /\ OutcomeIsTrue
    /\ MeasurementsAreKept
    /\ EndIsNotMissed

-----------------------------------------------------------------------------
(***************************************************************************)
(* No events are in flight on a connection that was just made or closed.   *)
(***************************************************************************)
LEMMA NoEvents == <<>> \in Seq(Event) /\ Len(<<>>) = 0
OBVIOUS

(***************************************************************************)
(* What HEAppE does while nothing is called: it accepts a cancellation, or *)
(* one live job moves on, and the connected client is told.                *)
(***************************************************************************)
LEMMA HEAppEMoves ==
    ASSUME HEAppETypeOK, NEW j \in Jobs,
           Advance(j) \/ End(j) \/ AcceptCancel(j)
    PROVE  \/ AcceptCancel(j)
           \/ \E s \in JobStates : ~Ended(jobState[j]) /\ MoveTo(j, s)
<1>1. CASE Advance(j)
  <2>1. PICK s \in NextLive(jobState[j]) : MoveTo(j, s)
    BY <1>1 DEF Advance
  <2>2. jobState[j] \in JobStates
    BY DEF HEAppETypeOK
  <2>3. s \in JobStates /\ ~Ended(jobState[j])
    BY <2>1, <2>2 DEF NextLive, JobStates, LiveStates, TerminalStates, Ended
  <2> QED
    BY <2>1, <2>3
<1>2. CASE End(j)
  BY <1>2 DEF End, JobStates
<1> QED
  BY <1>1, <1>2

(***************************************************************************)
(* A job that moves leaves every state that ends a job as it is, and what  *)
(* the client has been told stays true.                                    *)
(***************************************************************************)
LEMMA MoveIsTold ==
    ASSUME HEAppETypeOK, EventsAreTrue, Mine \in Jobs,
           NEW j \in Jobs, NEW s \in JobStates,
           ~Ended(jobState[j]), MoveTo(j, s)
    PROVE  /\ HEAppETypeOK'
           /\ EventsAreTrue'
           /\ Ended(jobState[Mine]) => jobState'[Mine] = jobState[Mine]
<1> DEFINE e == [job |-> j, state |-> s]
<1>1. e \in Event /\ e.job = j /\ e.state = s
  BY DEF Event
<1> HIDE DEF e
<1>2. /\ jobState' = [jobState EXCEPT ![j] = s]
      /\ inFlight' = IF connected THEN Append(inFlight, e) ELSE inFlight
      /\ cancelAsked' = cancelAsked /\ connected' = connected
  BY DEF MoveTo, e
<1>3. HEAppETypeOK'
  BY <1>1, <1>2 DEF HEAppETypeOK
<1>4. \A k \in Jobs : Ended(jobState[k]) => jobState'[k] = jobState[k]
  BY <1>2 DEF HEAppETypeOK
<1>5. EventsAreTrue'
  <2> SUFFICES ASSUME NEW i \in 1 .. Len(inFlight'), Ended(inFlight'[i].state)
               PROVE  jobState'[inFlight'[i].job] = inFlight'[i].state
    BY DEF EventsAreTrue
  <2>1. CASE i \in 1 .. Len(inFlight) /\ inFlight'[i] = inFlight[i]
    <3>1. inFlight[i] \in Event
      BY <2>1 DEF HEAppETypeOK
    <3>2. inFlight[i].job \in Jobs
      BY <3>1 DEF Event
    <3> QED
      BY <2>1, <3>2, <1>4 DEF EventsAreTrue
  <2>2. CASE inFlight'[i] = e
    BY <2>2, <1>1, <1>2 DEF HEAppETypeOK
  <2>3. inFlight \in Seq(Event)
    BY DEF HEAppETypeOK
  <2> QED
    BY <2>1, <2>2, <2>3, <1>1, <1>2
<1> QED
  BY <1>3, <1>4, <1>5

-----------------------------------------------------------------------------
(***************************************************************************)
(* The initial states: nothing is known and nothing was promised.          *)
(***************************************************************************)
LEMMA JobInit == Init => JobInv
<1> SUFFICES ASSUME Init PROVE JobInv
  OBVIOUS
<1>1. Mine \in Jobs /\ MaxCalls \in Nat
  BY QJobAssumption
<1>2. jobState[Mine] \in JobStates /\ inFlight = <<>> /\ Len(inFlight) = 0
  BY <1>1 DEF Init, HEAppEInit
<1>3. QJobTypeOK
  <2>1. HEAppETypeOK
    <3>1. jobState \in [Jobs -> JobStates] /\ connected \in BOOLEAN
      BY DEF Init, HEAppEInit
    <3>2. cancelAsked \in SUBSET Jobs
      BY DEF Init, HEAppEInit
    <3> QED
      BY <1>2, <3>1, <3>2, NoEvents DEF HEAppETypeOK
  <2>2. lastKnown \in JobStates
    BY DEF Init, JobStates, LiveStates, HEAppEInit
  <2>3. submittedState \in JobStates \cup {NotFetched}
    BY <1>2 DEF Init
  <2>4. /\ pc = "idle" /\ format \in Formats /\ since = jobState[Mine]
        /\ artifacts = "none" /\ resultCache = {} /\ outcome = "none"
        /\ calls = 0 /\ cancelRequested = FALSE /\ lost = FALSE
    BY DEF Init
  <2>5. /\ artifacts \in Artifacts /\ outcome \in Outcomes
        /\ calls \in 0 .. MaxCalls
    BY <2>4, <1>1 DEF Artifacts, Outcomes
  <2> QED
    BY <2>1, <2>2, <2>3, <2>4, <2>5, <1>2 DEF QJobTypeOK
<1>4. SubmittedIsTrue /\ KnownOutcomeIsTrue
  BY <1>2, QJobAssumption DEF Init, SubmittedIsTrue, KnownOutcomeIsTrue,
     Ended, TerminalStates, JobStates
<1> QED
  BY <1>2, <1>3, <1>4 DEF Init, HEAppEInit, JobInv, SocketIsClosed,
     EventsAreTrue, ArtifactsOfFinished, OutcomeIsTrue, MeasurementsAreKept,
     EndIsNotMissed

-----------------------------------------------------------------------------
(***************************************************************************)
(* The ways a step of result() can go.  Each is a lemma: what the outcome, *)
(* the artifacts and the cache are afterwards is as true as before.        *)
(***************************************************************************)
ResultParts ==
    /\ pc \in Busy \cup {"idle"}
    /\ artifacts \in Artifacts
    /\ resultCache \subseteq Formats
    /\ outcome \in Outcomes
    /\ lost \in BOOLEAN
    /\ artifacts # "none" => jobState[Mine] = "FINISHED"
    /\ OutcomeIsTrue
    /\ MeasurementsAreKept

LEMMA ConvertIsTrue ==
    ASSUME ResultParts, jobState[Mine] = "FINISHED",
           jobState'[Mine] = jobState[Mine],
           cancelRequested' = cancelRequested, lost' \in BOOLEAN,
           NEW f \in Formats, NEW a \in Artifacts \ {"none"},
           f.measurements => a # "counts",
           artifacts \in {"none", "counts"} \/ a = artifacts,
           Convert(f, a)
    PROVE  ResultParts' /\ pc' = "idle"
  BY DEF ResultParts, Convert, OutcomeIsTrue, MeasurementsAreKept, Artifacts,
     Outcomes, Formats

LEMMA RaiseIsTrue ==
    ASSUME ResultParts, jobState'[Mine] = jobState[Mine],
           cancelRequested' = cancelRequested, lost' \in BOOLEAN,
           NEW o \in Outcomes \ {"result"}, Raise(o),
           o = "failed" => lost' \/ jobState[Mine] = "FAILED",
           o = "canceled" =>
             \/ jobState[Mine] = "CANCELED"
             \/ cancelRequested /\ (lost' \/ jobState[Mine] = "FAILED")
    PROVE  ResultParts' /\ pc' = "idle"
  BY DEF ResultParts, Raise, resultVars, OutcomeIsTrue, MeasurementsAreKept

LEMMA RaiseWaitingIsTrue ==
    ASSUME ResultParts, jobState'[Mine] = jobState[Mine],
           cancelRequested' = cancelRequested, RaiseWaiting, lost' = TRUE
    PROVE  ResultParts' /\ pc' = "idle"
<1>1. CASE cancelRequested
  BY <1>1, RaiseIsTrue DEF RaiseWaiting, Outcomes
<1>2. CASE ~cancelRequested
  BY <1>2, RaiseIsTrue DEF RaiseWaiting, Outcomes
<1> QED
  BY <1>1, <1>2

LEMMA ConcludeIsTrue ==
    ASSUME ResultParts, jobState'[Mine] = jobState[Mine],
           cancelRequested' = cancelRequested, lost' \in BOOLEAN,
           NEW f \in Formats,
           NEW s \in TerminalStates, jobState[Mine] = s, Conclude(f, s)
    PROVE  /\ ResultParts'
           /\ \/ pc' = "idle"
              \/ /\ pc' = "artifacts" /\ jobState[Mine] = "FINISHED"
                 /\ ~HaveArtifacts(f) /\ artifacts' = artifacts
<1>1. CASE s # "FINISHED"
  <2> DEFINE o == IF cancelRequested \/ s = "CANCELED" THEN "canceled"
                                                       ELSE "failed"
  <2>1. Raise(o)
    BY <1>1 DEF Conclude
  <2>2. /\ o \in Outcomes \ {"result"}
        /\ o = "failed" => jobState[Mine] = "FAILED"
        /\ o = "canceled" =>
             \/ jobState[Mine] = "CANCELED"
             \/ cancelRequested /\ (lost' \/ jobState[Mine] = "FAILED")
    BY <1>1 DEF Outcomes, TerminalStates
  <2> HIDE DEF o
  <2> QED
    BY <2>1, <2>2, RaiseIsTrue
<1>2. CASE s = "FINISHED" /\ HaveArtifacts(f)
  <2>1. Convert(f, artifacts)
    BY <1>2 DEF Conclude
  <2>2. /\ artifacts \in Artifacts \ {"none"}
        /\ f.measurements => artifacts # "counts"
    BY <1>2 DEF HaveArtifacts, ResultParts
  <2> QED
    BY <2>1, <2>2, <1>2, ConvertIsTrue
<1>3. CASE s = "FINISHED" /\ ~HaveArtifacts(f)
  <2>1. /\ pc' = "artifacts" /\ outcome' = "none"
        /\ artifacts' = artifacts /\ resultCache' = resultCache
    BY <1>3 DEF Conclude, resultVars
  <2> QED
    BY <2>1, <1>3 DEF ResultParts, OutcomeIsTrue, MeasurementsAreKept, Busy,
       Outcomes
<1> QED
  BY <1>1, <1>2, <1>3

(***************************************************************************)
(* What every step but those of HEAppE leaves alone: the job and the       *)
(* events, which are read, dropped or kept.                                *)
(***************************************************************************)
Quiet ==
    /\ jobState' = jobState /\ cancelAsked' = cancelAsked
    /\ connected' = connected /\ inFlight' = inFlight

Closing ==
    /\ jobState' = jobState /\ cancelAsked' = cancelAsked
    /\ connected' = FALSE /\ inFlight' = <<>>

LEMMA QuietKeeps ==
    ASSUME HEAppETypeOK, EventsAreTrue, Quiet \/ Closing
    PROVE  HEAppETypeOK' /\ EventsAreTrue'
<1>1. CASE Quiet
  BY <1>1 DEF Quiet, HEAppETypeOK, EventsAreTrue
<1>2. CASE Closing
  <2>1. HEAppETypeOK'
    BY <1>2, NoEvents DEF Closing, HEAppETypeOK
  <2>2. Len(inFlight') = 0
    BY <1>2, NoEvents DEF Closing
  <2> QED
    BY <2>1, <2>2 DEF EventsAreTrue
<1> QED
  BY <1>1, <1>2

(***************************************************************************)
(* The invariant, put together from what a step of result() shows.         *)
(***************************************************************************)
LEMMA Assemble ==
    ASSUME HEAppETypeOK', EventsAreTrue', ResultParts',
           submittedState' \in JobStates \cup {NotFetched},
           lastKnown' \in JobStates, cancelRequested' \in BOOLEAN,
           format' \in Formats, since' \in JobStates,
           calls' \in 0 .. MaxCalls,
           SubmittedIsTrue', KnownOutcomeIsTrue', SocketIsClosed',
           pc' = "artifacts" => (jobState'[Mine] = "FINISHED"
                                   /\ ~HaveArtifacts(format)'),
           EndIsNotMissed'
    PROVE  JobInv'
  BY DEF JobInv, QJobTypeOK, ResultParts, ArtifactsOfFinished

(***************************************************************************)
(* JobInv in the form the steps use.                                       *)
(***************************************************************************)
LEMMA JobInvGives ==
    ASSUME JobInv
    PROVE  /\ ResultParts /\ HEAppETypeOK /\ EventsAreTrue
           /\ Mine \in Jobs /\ MaxCalls \in Nat
           /\ jobState[Mine] \in JobStates
           /\ submittedState \in JobStates \cup {NotFetched}
           /\ lastKnown \in JobStates /\ cancelRequested \in BOOLEAN
           /\ lost \in BOOLEAN
           /\ format \in Formats /\ since \in JobStates
           /\ calls \in 0 .. MaxCalls
  BY QJobAssumption DEF JobInv, QJobTypeOK, HEAppETypeOK, ResultParts,
     ArtifactsOfFinished

(***************************************************************************)
(* result() decides on the state s that it noted or fetched.               *)
(***************************************************************************)
LEMMA DecideIsTrue ==
    ASSUME ResultParts, jobState'[Mine] = jobState[Mine],
           cancelRequested' = cancelRequested, lost' \in BOOLEAN,
           NEW f \in Formats,
           NEW s \in JobStates, Ended(s) => jobState[Mine] = s, Decide(f, s)
    PROVE  /\ ResultParts' /\ lastKnown' = s /\ KnownOutcomeIsTrue'
           /\ pc' # "listen"
           /\ pc' = "artifacts" => /\ jobState[Mine] = "FINISHED"
                                   /\ ~HaveArtifacts(f)
                                   /\ artifacts' = artifacts
<1>1. lastKnown' = s /\ KnownOutcomeIsTrue'
  BY DEF Decide, KnownOutcomeIsTrue
<1>2. CASE Ended(s)
  <2>1. s \in TerminalStates /\ Conclude(f, s)
    BY <1>2 DEF Ended, Decide
  <2> QED
    BY <2>1, <1>1, <1>2, ConcludeIsTrue
<1>3. CASE ~Ended(s)
  <2>1. /\ pc' = "subscribe" /\ outcome' = "none"
        /\ artifacts' = artifacts /\ resultCache' = resultCache
    BY <1>3 DEF Decide, resultVars
  <2> QED
    BY <2>1, <1>1 DEF ResultParts, OutcomeIsTrue, MeasurementsAreKept, Busy,
       Outcomes
<1> QED
  BY <1>2, <1>3

-----------------------------------------------------------------------------
(* One lemma per action of the client.                                     *)

LEMMA CallStep ==
    ASSUME JobInv, NEW f \in Formats, CallResult(f)
    PROVE  JobInv'
<1>1. /\ ResultParts /\ HEAppETypeOK /\ EventsAreTrue
      /\ jobState[Mine] \in JobStates
      /\ submittedState \in JobStates \cup {NotFetched}
      /\ lastKnown \in JobStates /\ cancelRequested \in BOOLEAN
      /\ lost \in BOOLEAN
      /\ since \in JobStates /\ calls \in 0 .. MaxCalls /\ MaxCalls \in Nat
  BY JobInvGives
<1>2. /\ Quiet /\ cancelRequested' = cancelRequested /\ since' = since
      /\ lost' = FALSE
      /\ submittedState' = submittedState /\ format' = f
      /\ pc = "idle" /\ calls' = calls + 1 /\ calls < MaxCalls
  BY DEF CallResult, Quiet, heappeVars
<1>3. HEAppETypeOK' /\ EventsAreTrue' /\ jobState'[Mine] = jobState[Mine]
  BY <1>1, <1>2, QuietKeeps DEF Quiet
<1>4. SubmittedIsTrue' /\ calls' \in 0 .. MaxCalls /\ ~connected'
  BY <1>1, <1>2 DEF JobInv, SubmittedIsTrue, Quiet, SocketIsClosed
<1>5. CASE f \in resultCache
  <2>1. /\ pc' = pc /\ outcome' = "result" /\ lastKnown' = lastKnown
        /\ artifacts' = artifacts /\ resultCache' = resultCache
    BY <1>5 DEF CallResult, resultVars
  <2>2. ResultParts' /\ KnownOutcomeIsTrue' /\ SocketIsClosed'
    BY <2>1, <1>1, <1>2, <1>4, <1>5 DEF ResultParts, OutcomeIsTrue, Quiet,
       JobInv, MeasurementsAreKept, Outcomes, KnownOutcomeIsTrue,
       SocketIsClosed
  <2> QED
    BY <2>1, <2>2, <1>1, <1>2, <1>3, <1>4, Assemble DEF EndIsNotMissed
<1>6. CASE f \notin resultCache /\ submittedState = NotFetched
  <2>1. /\ pc' = "info" /\ outcome' = "none" /\ lastKnown' = lastKnown
        /\ artifacts' = artifacts /\ resultCache' = resultCache
    BY <1>6 DEF CallResult, resultVars
  <2>2. ResultParts' /\ KnownOutcomeIsTrue' /\ SocketIsClosed'
    BY <2>1, <1>1, <1>2, <1>4 DEF ResultParts, OutcomeIsTrue, Quiet, JobInv,
       MeasurementsAreKept, Outcomes, Busy, KnownOutcomeIsTrue, SocketIsClosed
  <2> QED
    BY <2>1, <2>2, <1>1, <1>2, <1>3, <1>4, Assemble DEF EndIsNotMissed
<1>7. CASE f \notin resultCache /\ submittedState # NotFetched
  <2>1. Decide(f, submittedState) /\ submittedState \in JobStates
    BY <1>1, <1>7 DEF CallResult
  <2>2. Ended(submittedState) => jobState[Mine] = submittedState
    BY DEF JobInv, SubmittedIsTrue
  <2>3. /\ ResultParts' /\ lastKnown' = submittedState /\ KnownOutcomeIsTrue'
        /\ pc' # "listen"
        /\ pc' = "artifacts" => /\ jobState[Mine] = "FINISHED"
                                /\ ~HaveArtifacts(f)
                                /\ artifacts' = artifacts
    BY <2>1, <2>2, <1>1, <1>2, <1>3, DecideIsTrue
  <2>4. SocketIsClosed' /\ EndIsNotMissed'
    BY <2>3, <1>4 DEF SocketIsClosed, EndIsNotMissed
  <2>5. pc' = "artifacts" => jobState'[Mine] = "FINISHED"
                               /\ ~HaveArtifacts(format)'
    BY <2>3, <1>2, <1>3 DEF HaveArtifacts
  <2> QED
    BY <2>1, <2>3, <2>4, <2>5, <1>1, <1>2, <1>3, <1>4, Assemble
<1> QED
  BY <1>5, <1>6, <1>7

LEMMA FetchInfoStep ==
    ASSUME JobInv, FetchInfo
    PROVE  JobInv'
<1>1. /\ ResultParts /\ HEAppETypeOK /\ EventsAreTrue
      /\ jobState[Mine] \in JobStates
      /\ submittedState \in JobStates \cup {NotFetched}
      /\ lastKnown \in JobStates /\ cancelRequested \in BOOLEAN
      /\ lost \in BOOLEAN
      /\ format \in Formats /\ since \in JobStates /\ calls \in 0 .. MaxCalls
  BY JobInvGives
<1>2. /\ Quiet /\ cancelRequested' = cancelRequested /\ since' = since
      /\ lost' = lost
      /\ submittedState' = jobState[Mine] /\ format' = format
      /\ pc = "info" /\ calls' = calls /\ Decide(format, jobState[Mine])
  BY DEF FetchInfo, Quiet, heappeVars, history
<1>3. HEAppETypeOK' /\ EventsAreTrue' /\ jobState'[Mine] = jobState[Mine]
  BY <1>1, <1>2, QuietKeeps DEF Quiet
<1>4. SubmittedIsTrue' /\ ~connected'
  BY <1>2, <1>3 DEF JobInv, SubmittedIsTrue, Quiet, SocketIsClosed
<1>5. /\ ResultParts' /\ lastKnown' = jobState[Mine] /\ KnownOutcomeIsTrue'
      /\ pc' # "listen"
      /\ pc' = "artifacts" => /\ jobState[Mine] = "FINISHED"
                              /\ ~HaveArtifacts(format)
                              /\ artifacts' = artifacts
  BY <1>1, <1>2, <1>3, DecideIsTrue
<1>6. SocketIsClosed' /\ EndIsNotMissed'
  BY <1>4, <1>5 DEF SocketIsClosed, EndIsNotMissed
<1>7. pc' = "artifacts" => jobState'[Mine] = "FINISHED"
                             /\ ~HaveArtifacts(format)'
  BY <1>2, <1>3, <1>5 DEF HaveArtifacts
<1> QED
  BY <1>1, <1>2, <1>3, <1>4, <1>5, <1>6, <1>7, Assemble

(***************************************************************************)
(* The steps that end a call with an exception.                            *)
(***************************************************************************)
LEMMA RaiseStep ==
    ASSUME JobInv, ResultParts', pc' = "idle",
           (Quiet /\ ~connected) \/ Closing,
           submittedState' = submittedState, lastKnown' = lastKnown,
           cancelRequested' = cancelRequested, format' = format,
           calls' = calls, since' = since
    PROVE  JobInv'
<1>1. /\ ResultParts /\ HEAppETypeOK /\ EventsAreTrue
      /\ jobState[Mine] \in JobStates
      /\ submittedState \in JobStates \cup {NotFetched}
      /\ lastKnown \in JobStates /\ cancelRequested \in BOOLEAN
      /\ lost \in BOOLEAN
      /\ format \in Formats /\ since \in JobStates /\ calls \in 0 .. MaxCalls
  BY JobInvGives
<1>2. HEAppETypeOK' /\ EventsAreTrue' /\ jobState' = jobState /\ ~connected'
  <2>1. HEAppETypeOK' /\ EventsAreTrue'
    BY <1>1, QuietKeeps
  <2> QED
    BY <2>1, <1>1 DEF Quiet, Closing, HEAppETypeOK
<1>3. SubmittedIsTrue' /\ KnownOutcomeIsTrue'
  BY <1>2 DEF JobInv, SubmittedIsTrue, KnownOutcomeIsTrue
<1>4. SocketIsClosed' /\ EndIsNotMissed'
  BY <1>2 DEF SocketIsClosed, EndIsNotMissed
<1> QED
  BY <1>1, <1>2, <1>3, <1>4, Assemble

LEMMA FailStep ==
    ASSUME JobInv,
           \/ FailToFetchInfo \/ FailToSubscribe \/ LoseSocket
           \/ FailToFetchArtifacts \/ Interrupt
    PROVE  JobInv'
<1>1. ResultParts /\ lost \in BOOLEAN
  BY JobInvGives
<1>2. CASE FailToFetchInfo \/ FailToSubscribe
  <2>1. /\ Quiet /\ pc # "listen" /\ RaiseWaiting /\ lost' = TRUE
        /\ submittedState' = submittedState /\ lastKnown' = lastKnown
        /\ cancelRequested' = cancelRequested /\ format' = format
        /\ calls' = calls /\ since' = since
    BY <1>2 DEF FailToFetchInfo, FailToSubscribe, Quiet, heappeVars, handleVars
  <2>2. ResultParts' /\ pc' = "idle"
    BY <1>1, <2>1, RaiseWaitingIsTrue DEF Quiet
  <2>3. ~connected
    BY <2>1 DEF JobInv, SocketIsClosed
  <2> QED
    BY <2>1, <2>2, <2>3, RaiseStep
<1>3. CASE LoseSocket
  <2>1. /\ Closing /\ RaiseWaiting /\ lost' = TRUE
        /\ submittedState' = submittedState /\ lastKnown' = lastKnown
        /\ cancelRequested' = cancelRequested /\ format' = format
        /\ calls' = calls /\ since' = since
    BY <1>3 DEF LoseSocket, Closing, Disconnect, handleVars
  <2>2. ResultParts' /\ pc' = "idle"
    BY <1>1, <2>1, RaiseWaitingIsTrue DEF Closing
  <2> QED
    BY <2>1, <2>2, RaiseStep
<1>4. CASE FailToFetchArtifacts
  <2>1. /\ Quiet /\ pc # "listen" /\ Raise("noArtifacts")
        /\ submittedState' = submittedState /\ lastKnown' = lastKnown
        /\ cancelRequested' = cancelRequested /\ format' = format
        /\ calls' = calls /\ since' = since /\ lost' = lost
    BY <1>4 DEF FailToFetchArtifacts, Quiet, heappeVars, handleVars, history
  <2>2. ResultParts' /\ pc' = "idle"
    BY <1>1, <2>1, RaiseIsTrue DEF Quiet, Outcomes
  <2>3. ~connected
    BY <2>1 DEF JobInv, SocketIsClosed
  <2> QED
    BY <2>1, <2>2, <2>3, RaiseStep
<1>5. CASE Interrupt
  <2>1. /\ Closing /\ Raise("interrupted")
        /\ submittedState' = submittedState /\ lastKnown' = lastKnown
        /\ cancelRequested' = cancelRequested /\ format' = format
        /\ calls' = calls /\ since' = since /\ lost' = lost
    BY <1>5 DEF Interrupt, Closing, Disconnect, handleVars, history
  <2>2. ResultParts' /\ pc' = "idle"
    BY <1>1, <2>1, RaiseIsTrue DEF Closing, Outcomes
  <2> QED
    BY <2>1, <2>2, RaiseStep
<1> QED
  BY <1>2, <1>3, <1>4, <1>5

LEMMA SubscribeStep ==
    ASSUME JobInv, Subscribe
    PROVE  JobInv'
<1>1. /\ ResultParts /\ HEAppETypeOK /\ EventsAreTrue
      /\ jobState[Mine] \in JobStates
      /\ submittedState \in JobStates \cup {NotFetched}
      /\ lastKnown \in JobStates /\ cancelRequested \in BOOLEAN
      /\ lost \in BOOLEAN
      /\ format \in Formats /\ since \in JobStates /\ calls \in 0 .. MaxCalls
  BY JobInvGives
<1>2. /\ jobState' = jobState /\ cancelAsked' = cancelAsked
      /\ connected' = TRUE /\ inFlight' = <<>>
      /\ pc = "subscribe" /\ pc' = "listen"
      /\ since' = jobState[Mine] /\ lost' = lost
      /\ submittedState' = submittedState /\ lastKnown' = lastKnown
      /\ cancelRequested' = cancelRequested /\ format' = format
      /\ outcome' = outcome /\ calls' = calls
      /\ artifacts' = artifacts /\ resultCache' = resultCache
  BY DEF Subscribe, Open, handleVars, resultVars
<1>3. HEAppETypeOK'
  BY <1>1, <1>2, NoEvents DEF HEAppETypeOK
<1>4. EventsAreTrue'
  <2>1. Len(inFlight') = 0
    BY <1>2, NoEvents
  <2> QED
    BY <2>1 DEF EventsAreTrue
<1>5. ResultParts'
  BY <1>1, <1>2 DEF ResultParts, OutcomeIsTrue, MeasurementsAreKept, Busy
<1>6. SubmittedIsTrue' /\ KnownOutcomeIsTrue'
  BY <1>2 DEF JobInv, SubmittedIsTrue, KnownOutcomeIsTrue
<1>7. SocketIsClosed' /\ EndIsNotMissed'
  BY <1>2 DEF SocketIsClosed, EndIsNotMissed
<1> QED
  BY <1>1, <1>2, <1>3, <1>4, <1>5, <1>6, <1>7, Assemble

(***************************************************************************)
(* An event that does not end the job is not the one the call waits for.   *)
(***************************************************************************)
LEMMA SkipStep ==
    ASSUME JobInv, SkipEvent
    PROVE  JobInv'
<1>1. /\ ResultParts /\ HEAppETypeOK /\ EventsAreTrue
      /\ Mine \in Jobs /\ jobState[Mine] \in JobStates
      /\ submittedState \in JobStates \cup {NotFetched}
      /\ lastKnown \in JobStates /\ cancelRequested \in BOOLEAN
      /\ lost \in BOOLEAN
      /\ format \in Formats /\ since \in JobStates /\ calls \in 0 .. MaxCalls
  BY JobInvGives
<1>2. /\ jobState' = jobState /\ cancelAsked' = cancelAsked
      /\ connected' = connected /\ inFlight' = Tail(inFlight)
      /\ inFlight # <<>> /\ ~EndsMine(Head(inFlight))
      /\ pc = "listen" /\ pc' = pc /\ since' = since /\ lost' = lost
      /\ submittedState' = submittedState /\ lastKnown' = lastKnown
      /\ cancelRequested' = cancelRequested /\ format' = format
      /\ outcome' = outcome /\ calls' = calls
      /\ artifacts' = artifacts /\ resultCache' = resultCache
  BY DEF SkipEvent, handleVars, callVars, resultVars, history
<1>3. /\ inFlight \in Seq(Event) /\ inFlight' \in Seq(Event)
      /\ Head(inFlight) = inFlight[1]
      /\ Len(inFlight) \in Nat /\ Len(inFlight) > 0
      /\ Len(inFlight') = Len(inFlight) - 1
      /\ \A i \in 1 .. Len(inFlight') : inFlight'[i] = inFlight[i + 1]
  BY <1>1, <1>2 DEF HEAppETypeOK
<1>4. HEAppETypeOK'
  BY <1>1, <1>2, <1>3 DEF HEAppETypeOK
<1>5. EventsAreTrue'
  BY <1>1, <1>2, <1>3 DEF EventsAreTrue
<1>6. ResultParts'
  BY <1>1, <1>2 DEF ResultParts, OutcomeIsTrue, MeasurementsAreKept
<1>7. SubmittedIsTrue' /\ KnownOutcomeIsTrue' /\ SocketIsClosed'
  BY <1>2 DEF JobInv, SubmittedIsTrue, KnownOutcomeIsTrue, SocketIsClosed
<1>8. EndIsNotMissed'
  <2> SUFFICES ASSUME ~Ended(since), Ended(jobState[Mine])
               PROVE  \E i \in 1 .. Len(inFlight') :
                          /\ inFlight'[i].job = Mine
                          /\ Ended(inFlight'[i].state)
    BY <1>2 DEF EndIsNotMissed
  <2>1. PICK i \in 1 .. Len(inFlight) :
            inFlight[i].job = Mine /\ Ended(inFlight[i].state)
    BY <1>2 DEF JobInv, EndIsNotMissed
  <2>2. i # 1
    BY <2>1, <1>2, <1>3 DEF EndsMine
  <2>3. i - 1 \in 1 .. Len(inFlight') /\ inFlight'[i - 1] = inFlight[i]
    BY <2>2, <1>3
  <2> QED
    BY <2>1, <2>3
<1> QED
  BY <1>1, <1>2, <1>4, <1>5, <1>6, <1>7, <1>8, Assemble

LEMMA ReceiveStep ==
    ASSUME JobInv, ReceiveEnd
    PROVE  JobInv'
<1>1. /\ ResultParts /\ HEAppETypeOK /\ EventsAreTrue
      /\ Mine \in Jobs /\ jobState[Mine] \in JobStates
      /\ submittedState \in JobStates \cup {NotFetched}
      /\ lastKnown \in JobStates /\ cancelRequested \in BOOLEAN
      /\ lost \in BOOLEAN
      /\ format \in Formats /\ since \in JobStates /\ calls \in 0 .. MaxCalls
  BY JobInvGives
<1> DEFINE s == Head(inFlight).state
<1>2. /\ Closing /\ inFlight # <<>> /\ EndsMine(Head(inFlight))
      /\ lastKnown' = s /\ Conclude(format, s)
      /\ pc = "listen" /\ since' = since /\ lost' = lost
      /\ submittedState' = submittedState /\ format' = format
      /\ cancelRequested' = cancelRequested /\ calls' = calls
  BY DEF ReceiveEnd, Closing, Disconnect, history
<1>3. s \in TerminalStates /\ jobState[Mine] = s
  <2>1. Head(inFlight) = inFlight[1] /\ 1 \in 1 .. Len(inFlight)
    BY <1>1, <1>2 DEF HEAppETypeOK
  <2> QED
    BY <2>1, <1>1, <1>2 DEF EventsAreTrue, EndsMine, Ended
<1> HIDE DEF s
<1>4. /\ HEAppETypeOK' /\ EventsAreTrue' /\ jobState' = jobState
      /\ ~connected'
  <2>1. HEAppETypeOK' /\ EventsAreTrue'
    BY <1>1, <1>2, QuietKeeps
  <2> QED
    BY <2>1, <1>2 DEF Closing
<1>5. /\ ResultParts'
      /\ \/ pc' = "idle"
         \/ /\ pc' = "artifacts" /\ jobState[Mine] = "FINISHED"
            /\ ~HaveArtifacts(format) /\ artifacts' = artifacts
  BY <1>1, <1>2, <1>3, <1>4, ConcludeIsTrue
<1>6. SubmittedIsTrue' /\ KnownOutcomeIsTrue'
  BY <1>2, <1>3, <1>4 DEF JobInv, SubmittedIsTrue, KnownOutcomeIsTrue
<1>7. SocketIsClosed' /\ EndIsNotMissed' /\ lastKnown' \in JobStates
  BY <1>2, <1>3, <1>4, <1>5 DEF SocketIsClosed, EndIsNotMissed, JobStates
<1>8. pc' = "artifacts" => jobState'[Mine] = "FINISHED"
                             /\ ~HaveArtifacts(format)'
  BY <1>2, <1>4, <1>5 DEF HaveArtifacts
<1> QED
  BY <1>1, <1>2, <1>4, <1>5, <1>6, <1>7, <1>8, Assemble

LEMMA ArtifactsStep ==
    ASSUME JobInv, FetchArtifacts
    PROVE  JobInv'
<1>1. /\ ResultParts /\ HEAppETypeOK /\ EventsAreTrue
      /\ Mine \in Jobs /\ jobState[Mine] \in JobStates
      /\ submittedState \in JobStates \cup {NotFetched}
      /\ lastKnown \in JobStates /\ cancelRequested \in BOOLEAN
      /\ lost \in BOOLEAN
      /\ format \in Formats /\ since \in JobStates /\ calls \in 0 .. MaxCalls
  BY JobInvGives
<1>2. /\ Quiet /\ pc = "artifacts" /\ since' = since /\ lost' = lost
      /\ submittedState' = submittedState /\ lastKnown' = lastKnown
      /\ cancelRequested' = cancelRequested /\ format' = format
      /\ calls' = calls
  BY DEF FetchArtifacts, Quiet, heappeVars, handleVars, history
<1>3. /\ jobState[Mine] = "FINISHED" /\ ~HaveArtifacts(format) /\ ~connected
      /\ jobState'[Mine] = jobState[Mine]
  BY <1>2 DEF JobInv, ArtifactsOfFinished, SocketIsClosed, Quiet
<1>4. CASE Mine \in TaskIds
  <2>1. PICK a \in {"counts", "measured", "null"} :
            Convert(format, a) /\ (format.measurements => a # "counts")
    BY <1>4 DEF FetchArtifacts
  <2>2. a \in Artifacts \ {"none"} /\ artifacts \in {"none", "counts"}
    BY <1>1, <1>3 DEF Artifacts, HaveArtifacts, ResultParts
  <2>3. ResultParts' /\ pc' = "idle"
    BY <2>1, <2>2, <1>1, <1>2, <1>3, ConvertIsTrue
  <2> QED
    BY <2>3, <1>2, <1>3, RaiseStep
<1>5. CASE Mine \notin TaskIds
  <2>1. Raise("keyError")
    BY <1>5 DEF FetchArtifacts
  <2>2. ResultParts' /\ pc' = "idle"
    BY <2>1, <1>1, <1>2, <1>3, RaiseIsTrue DEF Outcomes
  <2> QED
    BY <2>2, <1>2, <1>3, RaiseStep
<1> QED
  BY <1>4, <1>5

LEMMA CancelStep ==
    ASSUME JobInv, Cancel
    PROVE  JobInv'
<1>1. /\ ResultParts /\ HEAppETypeOK /\ EventsAreTrue
      /\ Mine \in Jobs /\ jobState[Mine] \in JobStates
      /\ submittedState \in JobStates \cup {NotFetched}
      /\ lastKnown \in JobStates /\ cancelRequested \in BOOLEAN
      /\ lost \in BOOLEAN
      /\ format \in Formats /\ since \in JobStates /\ calls \in 0 .. MaxCalls
  BY JobInvGives
<1>2. /\ Quiet /\ cancelRequested' = TRUE
      /\ submittedState' = submittedState /\ lastKnown' = lastKnown
      /\ pc' = pc /\ format' = format /\ outcome' = outcome
      /\ calls' = calls /\ since' = since /\ lost' = lost
      /\ artifacts' = artifacts /\ resultCache' = resultCache
  BY DEF Cancel, Quiet, heappeVars, callVars, resultVars, history
<1>3. HEAppETypeOK' /\ EventsAreTrue'
  BY <1>1, <1>2, QuietKeeps
<1>4. ResultParts'
  BY <1>1, <1>2 DEF ResultParts, OutcomeIsTrue, MeasurementsAreKept, Quiet
<1>5. SubmittedIsTrue' /\ KnownOutcomeIsTrue' /\ SocketIsClosed'
  BY <1>2 DEF JobInv, SubmittedIsTrue, KnownOutcomeIsTrue, SocketIsClosed,
     Quiet
<1>6. EndIsNotMissed'
  BY <1>2 DEF JobInv, EndIsNotMissed, Quiet
<1>7. pc' = "artifacts" => jobState'[Mine] = "FINISHED"
                             /\ ~HaveArtifacts(format)'
  BY <1>2 DEF JobInv, ArtifactsOfFinished, HaveArtifacts, Quiet
<1> QED
  BY <1>1, <1>2, <1>3, <1>4, <1>5, <1>6, <1>7, Assemble

-----------------------------------------------------------------------------
(***************************************************************************)
(* HEAppE moves a job: an end that is noted stays true because no job      *)
(* leaves it, and an end that is new is in flight to the one who waits.    *)
(***************************************************************************)
LEMMA HEAppEStep ==
    ASSUME JobInv, HEAppE
    PROVE  JobInv'
<1>1. /\ ResultParts /\ HEAppETypeOK /\ EventsAreTrue
      /\ Mine \in Jobs /\ jobState[Mine] \in JobStates
      /\ submittedState \in JobStates \cup {NotFetched}
      /\ lastKnown \in JobStates /\ cancelRequested \in BOOLEAN
      /\ lost \in BOOLEAN
      /\ format \in Formats /\ since \in JobStates /\ calls \in 0 .. MaxCalls
  BY JobInvGives
<1>2. /\ since' = since /\ lost' = lost /\ pc' = pc /\ format' = format
      /\ submittedState' = submittedState /\ lastKnown' = lastKnown
      /\ cancelRequested' = cancelRequested
      /\ outcome' = outcome /\ calls' = calls
      /\ artifacts' = artifacts /\ resultCache' = resultCache
  BY DEF HEAppE, handleVars, callVars, resultVars, history
<1>3. PICK j \in Jobs : Advance(j) \/ End(j) \/ AcceptCancel(j)
  BY DEF HEAppE
<1>4. /\ HEAppETypeOK' /\ EventsAreTrue' /\ connected' = connected
      /\ Ended(jobState[Mine]) => jobState'[Mine] = jobState[Mine]
      /\ EndIsNotMissed'
  <2>1. CASE AcceptCancel(j)
    <3>1. /\ jobState' = jobState /\ connected' = connected
          /\ inFlight' = inFlight /\ cancelAsked' = cancelAsked \cup {j}
      BY <2>1 DEF AcceptCancel
    <3> QED
      BY <3>1, <1>1, <1>2 DEF HEAppETypeOK, EventsAreTrue, JobInv,
         EndIsNotMissed
  <2>2. CASE \E s \in JobStates : ~Ended(jobState[j]) /\ MoveTo(j, s)
    <3>1. PICK s \in JobStates : ~Ended(jobState[j]) /\ MoveTo(j, s)
      BY <2>2
    <3>2. /\ HEAppETypeOK' /\ EventsAreTrue'
          /\ Ended(jobState[Mine]) => jobState'[Mine] = jobState[Mine]
      BY <3>1, <1>1, MoveIsTold
    <3>3. connected' = connected
      BY <3>1 DEF MoveTo
    <3>4. EndIsNotMissed'
      <4> SUFFICES ASSUME pc = "listen", ~Ended(since), Ended(jobState'[Mine])
                   PROVE  \E i \in 1 .. Len(inFlight') :
                              /\ inFlight'[i].job = Mine
                              /\ Ended(inFlight'[i].state)
        BY <1>2 DEF EndIsNotMissed
      <4> DEFINE e == [job |-> j, state |-> s]
      <4>1. e \in Event /\ e.job = j /\ e.state = s
        BY DEF Event
      <4> HIDE DEF e
      <4>2. inFlight' = Append(inFlight, e)
        BY <3>1 DEF MoveTo, e, JobInv, SocketIsClosed
      <4>3. /\ inFlight \in Seq(Event) /\ Len(inFlight) \in Nat
            /\ Len(inFlight') = Len(inFlight) + 1
            /\ inFlight'[Len(inFlight) + 1] = e
            /\ \A i \in 1 .. Len(inFlight) : inFlight'[i] = inFlight[i]
        BY <4>1, <4>2, <1>1 DEF HEAppETypeOK
      <4>4. CASE Ended(jobState[Mine])
        <5>1. PICK i \in 1 .. Len(inFlight) :
                  inFlight[i].job = Mine /\ Ended(inFlight[i].state)
          BY <4>4 DEF JobInv, EndIsNotMissed
        <5> QED
          BY <5>1, <4>3
      <4>5. CASE ~Ended(jobState[Mine])
        <5>1. j = Mine /\ s = jobState'[Mine]
          BY <4>5, <3>1, <1>1 DEF MoveTo, HEAppETypeOK
        <5> QED
          BY <5>1, <4>1, <4>3
      <4> QED
        BY <4>4, <4>5
    <3> QED
      BY <3>2, <3>3, <3>4
  <2> QED
    BY <1>1, <1>3, <2>1, <2>2, HEAppEMoves
<1>5. Ended(jobState[Mine]) => jobState'[Mine] = jobState[Mine]
  BY <1>4
<1>6. ResultParts'
  <2>1. \A s \in TerminalStates : jobState[Mine] = s => jobState'[Mine] = s
    BY <1>5 DEF Ended
  <2> QED
    BY <2>1, <1>1, <1>2 DEF ResultParts, OutcomeIsTrue, MeasurementsAreKept,
       TerminalStates
<1>7. SubmittedIsTrue' /\ KnownOutcomeIsTrue' /\ SocketIsClosed'
  BY <1>2, <1>4, <1>5 DEF JobInv, SubmittedIsTrue, KnownOutcomeIsTrue,
     SocketIsClosed, Ended
<1>8. pc' = "artifacts" => jobState'[Mine] = "FINISHED"
                             /\ ~HaveArtifacts(format)'
  BY <1>2, <1>5 DEF JobInv, ArtifactsOfFinished, HaveArtifacts, Ended,
     TerminalStates
<1> QED
  BY <1>1, <1>2, <1>4, <1>6, <1>7, <1>8, Assemble

LEMMA StutterStep ==
    ASSUME JobInv, UNCHANGED vars
    PROVE  JobInv'
<1>1. /\ ResultParts /\ HEAppETypeOK /\ EventsAreTrue
      /\ Mine \in Jobs /\ jobState[Mine] \in JobStates
      /\ submittedState \in JobStates \cup {NotFetched}
      /\ lastKnown \in JobStates /\ cancelRequested \in BOOLEAN
      /\ lost \in BOOLEAN
      /\ format \in Formats /\ since \in JobStates /\ calls \in 0 .. MaxCalls
  BY JobInvGives
<1>2. /\ Quiet /\ since' = since /\ lost' = lost
      /\ pc' = pc /\ format' = format
      /\ submittedState' = submittedState /\ lastKnown' = lastKnown
      /\ cancelRequested' = cancelRequested
      /\ outcome' = outcome /\ calls' = calls
      /\ artifacts' = artifacts /\ resultCache' = resultCache
  BY DEF vars, heappeVars, handleVars, callVars, resultVars, history, Quiet
<1>3. HEAppETypeOK' /\ EventsAreTrue'
  BY <1>1, <1>2, QuietKeeps
<1>4. ResultParts' /\ EndIsNotMissed'
  BY <1>1, <1>2 DEF ResultParts, OutcomeIsTrue, MeasurementsAreKept, Quiet,
     JobInv, EndIsNotMissed
<1>5. SubmittedIsTrue' /\ KnownOutcomeIsTrue' /\ SocketIsClosed'
  BY <1>2 DEF JobInv, SubmittedIsTrue, KnownOutcomeIsTrue, SocketIsClosed,
     Quiet
<1>6. pc' = "artifacts" => jobState'[Mine] = "FINISHED"
                             /\ ~HaveArtifacts(format)'
  BY <1>2 DEF JobInv, ArtifactsOfFinished, HaveArtifacts, Quiet
<1> QED
  BY <1>1, <1>2, <1>3, <1>4, <1>5, <1>6, Assemble

(***************************************************************************)
(* JobInv holds whatever the user, the client and HEAppE do.               *)
(***************************************************************************)
THEOREM JobSafe == Spec => []JobInv
<1>1. Init => JobInv
  BY JobInit
<1>2. JobInv /\ [Next]_vars => JobInv'
  <2> SUFFICES ASSUME JobInv, [Next]_vars PROVE JobInv'
    OBVIOUS
  <2>1. CASE Handle
    BY <2>1, FetchInfoStep, FailStep, SubscribeStep, SkipStep, ReceiveStep,
       ArtifactsStep DEF Handle
  <2>2. CASE User
    BY <2>2, CallStep, FailStep, CancelStep DEF User
  <2>3. CASE HEAppE
    BY <2>3, HEAppEStep
  <2>4. CASE UNCHANGED vars
    BY <2>4, StutterStep
  <2> QED
    BY <2>1, <2>2, <2>3, <2>4 DEF Next
<1> QED
  BY <1>1, <1>2, PTL DEF Spec

-----------------------------------------------------------------------------
(***************************************************************************)
(* A handle, its socket and its job keep their types, whatever the calls,  *)
(* the events and the mishaps (QJob in qbackend.py).                       *)
(***************************************************************************)
THEOREM QJobIsTyped == Spec => []QJobTypeOK
<1>1. JobInv => QJobTypeOK
  BY DEF JobInv
<1> QED
  BY <1>1, JobSafe, PTL

(***************************************************************************)
(* What result() reports of a job is so, a call that lost HEAppE apart:    *)
(* QJob.result in qbackend.py.                                             *)
(***************************************************************************)
THEOREM OutcomeIsAlwaysTrue == Spec => []OutcomeIsTrue
<1>1. JobInv => OutcomeIsTrue
  BY DEF JobInv
<1> QED
  BY <1>1, JobSafe, PTL

(***************************************************************************)
(* When the handle says that its job has ended, it has, in that state:     *)
(* _last_known_state of QJob in qbackend.py.                               *)
(***************************************************************************)
THEOREM KnownOutcomeIsAlwaysTrue == Spec => []KnownOutcomeIsTrue
<1>1. JobInv => KnownOutcomeIsTrue
  BY DEF JobInv
<1> QED
  BY <1>1, JobSafe, PTL

(***************************************************************************)
(* await_for_job_terminal_state misses no end of a job it found live.      *)
(***************************************************************************)
THEOREM NoEndIsMissed == Spec => []EndIsNotMissed
<1>1. JobInv => EndIsNotMissed
  BY DEF JobInv
<1> QED
  BY <1>1, JobSafe, PTL

(***************************************************************************)
(* No result with measurements is made without them, whatever is loaded    *)
(* and cached on the way (QJob.result).                                    *)
(***************************************************************************)
THEOREM MeasurementsAreAlwaysKept == Spec => []MeasurementsAreKept
<1>1. JobInv => MeasurementsAreKept
  BY DEF JobInv
<1> QED
  BY <1>1, JobSafe, PTL

(***************************************************************************)
(* No way out of result() leaves its WebSocket open                        *)
(* (await_for_job_terminal_state).                                         *)
(***************************************************************************)
THEOREM SocketIsAlwaysClosed == Spec => []SocketIsClosed
<1>1. JobInv => SocketIsClosed
  BY DEF JobInv
<1> QED
  BY <1>1, JobSafe, PTL

-----------------------------------------------------------------------------
(***************************************************************************)
(* A step of the client changes what is reported, or nothing the promise   *)
(* speaks of.                                                              *)
(***************************************************************************)
LEMMA ClientStep ==
    ASSUME Handle \/ (\E f \in Formats : CallResult(f)) \/ Interrupt
    PROVE  jobState' = jobState /\ cancelRequested' = cancelRequested
<1>1. CASE FetchInfo \/ FailToFetchInfo \/ FailToSubscribe
  BY <1>1 DEF FetchInfo, FailToFetchInfo, FailToSubscribe, heappeVars,
     handleVars
<1>2. CASE Subscribe \/ LoseSocket \/ Interrupt
  BY <1>2 DEF Subscribe, Open, LoseSocket, Interrupt, Disconnect, handleVars
<1>3. CASE SkipEvent \/ ReceiveEnd
  BY <1>3 DEF SkipEvent, ReceiveEnd, Disconnect, handleVars
<1>4. CASE FetchArtifacts \/ FailToFetchArtifacts
  BY <1>4 DEF FetchArtifacts, FailToFetchArtifacts, heappeVars, handleVars
<1>5. CASE \E f \in Formats : CallResult(f)
  BY <1>5 DEF CallResult, heappeVars
<1> QED
  BY <1>1, <1>2, <1>3, <1>4, <1>5 DEF Handle

(***************************************************************************)
(* QJob keeps JobPromise.  HEAppE's steps move the state, cancel() asks,   *)
(* and every other step reports: that it reports truly, or was excused by  *)
(* the loss of HEAppE, is OutcomeIsTrue.                                   *)
(***************************************************************************)
THEOREM QJobKeepsPromise == Spec => KeepsPromise
<1>1. Init => Promise!Init
  <2> SUFFICES ASSUME Init PROVE Promise!Init
    OBVIOUS
  <2>1. jobState[Mine] \in Promise!JobStates
    BY QJobAssumption DEF Init, HEAppEInit, JobStates, LiveStates,
       TerminalStates, Promise!JobStates, Promise!LiveStates,
       Promise!TerminalStates
  <2> QED
    BY <2>1 DEF Init, Promise!Init, Report
<1>2. JobInv /\ JobInv' /\ [Next]_vars => [Promise!Next]_(Promise!vars)
  <2> SUFFICES ASSUME JobInv, JobInv', [Next]_vars
               PROVE  Promise!Next \/ UNCHANGED Promise!vars
    OBVIOUS
  <2>1. CASE Handle \/ (\E f \in Formats : CallResult(f)) \/ Interrupt
    <3>1. jobState' = jobState /\ cancelRequested' = cancelRequested
      BY <2>1, ClientStep
    <3>2. Report' \in Promise!Reports
      BY DEF Report, Promise!Reports
    <3>3. OutcomeIsTrue'
      BY DEF JobInv
    <3>4. Promise!MayReport(Report', lost') /\ lost' \in BOOLEAN
      BY <3>1, <3>3 DEF OutcomeIsTrue, Report, Promise!MayReport, JobInv,
         QJobTypeOK
    <3>5. Promise!Tell(Report', lost')
      BY <3>1, <3>4 DEF Promise!Tell
    <3> QED
      BY <3>2, <3>4, <3>5 DEF Promise!Next
  <2>2. CASE Cancel
    BY <2>2 DEF Cancel, heappeVars, callVars, history, Report,
       Promise!Next, Promise!AskToCancel
  <2>3. CASE HEAppE
    <3>1. /\ cancelRequested' = cancelRequested /\ Report' = Report
          /\ lost' = lost
      BY <2>3 DEF HEAppE, handleVars, callVars, history, Report
    <3>2. PICK j \in Jobs : Advance(j) \/ End(j) \/ AcceptCancel(j)
      BY <2>3 DEF HEAppE
    <3>3. HEAppETypeOK /\ HEAppETypeOK' /\ Mine \in Jobs
      BY QJobAssumption DEF JobInv, QJobTypeOK
    <3>4. CASE AcceptCancel(j)
      BY <3>1, <3>4 DEF AcceptCancel, Promise!vars
    <3>5. CASE \E s \in JobStates : ~Ended(jobState[j]) /\ MoveTo(j, s)
      <4>1. PICK s \in JobStates : ~Ended(jobState[j]) /\ MoveTo(j, s)
        BY <3>5
      <4>2. CASE j = Mine
        <5>1. /\ jobState'[Mine] \in Promise!JobStates
              /\ ~Promise!Ended(jobState[Mine])
          BY <4>1, <4>2, <3>3 DEF HEAppETypeOK, JobStates, LiveStates,
             TerminalStates, Ended, Promise!JobStates, Promise!LiveStates,
             Promise!TerminalStates, Promise!Ended
        <5> QED
          BY <5>1, <3>1 DEF Promise!Next, Promise!Move
      <4>3. CASE j # Mine
        <5>1. jobState'[Mine] = jobState[Mine]
          BY <4>1, <4>3, <3>3 DEF MoveTo, HEAppETypeOK
        <5> QED
          BY <5>1, <3>1 DEF Promise!vars
      <4> QED
        BY <4>2, <4>3
    <3> QED
      BY <3>2, <3>3, <3>4, <3>5, HEAppEMoves
  <2>4. CASE UNCHANGED vars
    BY <2>4 DEF vars, heappeVars, handleVars, callVars, history,
       Promise!vars, Report
  <2> QED
    BY <2>1, <2>2, <2>3, <2>4 DEF Next, User
<1> QED
  BY <1>1, <1>2, JobSafe, PTL DEF Spec, KeepsPromise, Promise!Spec
===============================================================================
