------------------------------ MODULE JobPromise ------------------------------
(***************************************************************************)
(* What the handle of a job promises its user, whichever way the client    *)
(* learns of the job.  A result is handed out only of a job that finished. *)
(* A failure is reported only of one that failed, and a cancellation only  *)
(* of one that was cancelled or that failed after the user called          *)
(* cancel(): HEAppE may settle a cancelled job as FAILED.  The one excuse  *)
(* is a call that lost HEAppE while it waited: it may report a failure, or *)
(* to who called cancel() a cancellation, of any job.                      *)
(***************************************************************************)
EXTENDS HEAppEStates

VARIABLES
    state,     \* the state HEAppE keeps of the job
    asked,     \* the user has called cancel()
    report,    \* what the last call of result() told the user
    lost       \* HEAppE was lost during that call

vars == <<state, asked, report, lost>>

Reports == {"none", "result", "failed", "canceled"}

Init ==
    /\ state \in JobStates
    /\ asked = FALSE
    /\ report = "none"
    /\ lost = FALSE

Move ==
    /\ ~Ended(state)
    /\ state' \in JobStates
    /\ UNCHANGED <<asked, report, lost>>

AskToCancel ==
    /\ asked' = TRUE
    /\ UNCHANGED <<state, report, lost>>

MayReport(r, l) ==
    /\ r = "result"   => state = "FINISHED"
    /\ r = "failed"   => l \/ state = "FAILED"
    /\ r = "canceled" => \/ state = "CANCELED"
                         \/ asked /\ (l \/ state = "FAILED")

(***************************************************************************)
(* A call ends, or begins and nothing is reported yet ("none", also for a  *)
(* call that ends with an exception that says nothing of how the job did). *)
(***************************************************************************)
Tell(r, l) ==
    /\ MayReport(r, l)
    /\ report' = r
    /\ lost' = l
    /\ UNCHANGED <<state, asked>>

Next ==
    \/ Move
    \/ AskToCancel
    \/ \E r \in Reports, l \in BOOLEAN : Tell(r, l)

Spec == Init /\ [][Next]_vars
===============================================================================
