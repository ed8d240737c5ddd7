---------------------------- MODULE RunningTotal ----------------------------
(***************************************************************************)
(* The sum of an array of integers, as the running total that a reader of  *)
(* the accounting table would keep: start at zero, add every entry in      *)
(* turn.  It is written as a recursive function, not with a RECURSIVE      *)
(* operator, so that the modules that use it can be proved about.          *)
(***************************************************************************)
EXTENDS Integers

(***************************************************************************)
(* RunningTotals(c, n)[i] is c[1] + ... + c[i], for i in 0..n.             *)
(***************************************************************************)
RunningTotals(c, n) ==
    LET total[i \in 0..n] == IF i = 0 THEN 0 ELSE total[i - 1] + c[i]
    IN  total

(***************************************************************************)
(* SumTo(c, n) is c[1] + ... + c[n].                                       *)
(***************************************************************************)
SumTo(c, n) == RunningTotals(c, n)[n]
=============================================================================
