----------------------------- MODULE MCPollingJob -----------------------------
(***************************************************************************)
(* The handle of one job in the polling client, for TLC.  Polling sees no  *)
(* other job, so there is only one.                                        *)
(***************************************************************************)
EXTENDS PollingJob

CONSTANT mine
===============================================================================
