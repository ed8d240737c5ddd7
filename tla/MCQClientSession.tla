-------------------------- MODULE MCQClientSession --------------------------
(***************************************************************************)
(* A QClient with a notebook cell, another thread and one view.            *)
(***************************************************************************)
EXTENDS QClientSession, TLC

CONSTANTS cell, thread, client, view

=============================================================================
