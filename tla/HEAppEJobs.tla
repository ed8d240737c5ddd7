------------------------------ MODULE HEAppEJobs ------------------------------
(***************************************************************************)
(* HEAppE as the clients see it: jobs that move towards a state they never *)
(* leave, a request that cancels one, and a WebSocket that reports every   *)
(* change of every visible job to whoever is connected when it happens.    *)
(* HEAppE is not part of the repository: this is what the clients rely on. *)
(***************************************************************************)
EXTENDS HEAppEStates, Naturals, Sequences

CONSTANT Jobs

(***************************************************************************)
(* Where a job may go next: a step ahead, or to any end.                   *)
(***************************************************************************)
NextLive(s) ==
    CASE s = "CONFIGURING"              -> {"SUBMITTED"}
      [] s = "SUBMITTED"                -> {"WAITINGFORSERVICEACCOUNT",
                                            "QUEUED"}
      [] s = "WAITINGFORSERVICEACCOUNT" -> {"QUEUED"}
      [] s = "QUEUED"                   -> {"RUNNING"}
      [] OTHER                          -> {}

VARIABLES
    jobState,         \* the state HEAppE keeps of each job
    cancelAsked,      \* jobs that PUT CancelJob was received for
    connected,        \* the client's event WebSocket is open
    inFlight          \* events sent to it and not read yet

heappeVars == <<jobState, cancelAsked, connected, inFlight>>

Event == [job : Jobs, state : JobStates]

HEAppETypeOK ==
    /\ jobState \in [Jobs -> JobStates]
    /\ cancelAsked \in SUBSET Jobs
    /\ connected \in BOOLEAN
    /\ inFlight \in Seq(Event)

HEAppEInit ==
    /\ jobState \in [Jobs -> JobStates]
    /\ cancelAsked = {j \in Jobs : jobState[j] = "CANCELED"}
    /\ connected = FALSE
    /\ inFlight = <<>>

-----------------------------------------------------------------------------
(***************************************************************************)
(* A job changes its state.  Only a client that is connected at that time  *)
(* is told.                                                                *)
(***************************************************************************)
MoveTo(j, s) ==
    /\ jobState' = [jobState EXCEPT ![j] = s]
    /\ inFlight' = IF connected
                   THEN Append(inFlight, [job |-> j, state |-> s])
                   ELSE inFlight
    /\ UNCHANGED <<cancelAsked, connected>>

Advance(j) == \E s \in NextLive(jobState[j]) : MoveTo(j, s)

End(j) ==
    /\ ~Ended(jobState[j])
    /\ \E s \in TerminalStates :
         /\ s = "FINISHED" => jobState[j] = "RUNNING"
         /\ s = "CANCELED" => j \in cancelAsked
         /\ MoveTo(j, s)

(***************************************************************************)
(* PUT CancelJob arrives, of this client or of another.                    *)
(***************************************************************************)
AcceptCancel(j) ==
    /\ j \notin cancelAsked
    /\ ~Ended(jobState[j])
    /\ cancelAsked' = cancelAsked \cup {j}
    /\ UNCHANGED <<jobState, connected, inFlight>>

Open ==
    /\ connected' = TRUE
    /\ inFlight' = <<>>
    /\ UNCHANGED <<jobState, cancelAsked>>

Disconnect ==
    /\ connected' = FALSE
    /\ inFlight' = <<>>
    /\ UNCHANGED <<jobState, cancelAsked>>
==============================================================================
