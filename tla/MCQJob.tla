-------------------------------- MODULE MCQJob --------------------------------
(***************************************************************************)
(* The handle of one job in the event-driven client, for TLC.  HEAppE      *)
(* reports on another job on the same WebSocket; that one starts running,  *)
(* so that its one event can come before, between and after ours.          *)
(***************************************************************************)
EXTENDS QJob

CONSTANTS mine, other

MCInit == Init /\ \A j \in Jobs \ {Mine} : jobState[j] = "RUNNING"

MCSpec == MCInit /\ [][Next]_vars

MCFairSpec == MCSpec /\ Fairness
===============================================================================
