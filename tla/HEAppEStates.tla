----------------------------- MODULE HEAppEStates -----------------------------
(***************************************************************************)
(* The states of a HEAppE job, by the names HEAppEJobState.readable gives  *)
(* them, and the ones a job never leaves.                                  *)
(***************************************************************************)

LiveStates == {"CONFIGURING", "SUBMITTED", "WAITINGFORSERVICEACCOUNT",
               "QUEUED", "RUNNING"}

TerminalStates == {"FINISHED", "FAILED", "CANCELED"}

JobStates == LiveStates \cup TerminalStates

Ended(s) == s \in TerminalStates
===============================================================================
