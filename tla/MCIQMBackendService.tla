------------------------ MODULE MCIQMBackendService ------------------------
(***************************************************************************)
(* Instances of the backend service for TLC: two allocations of different  *)
(* size, so that one resource is exhausted while the other is not.         *)
(***************************************************************************)
EXTENDS IQMBackendService, TLC

CONSTANTS r1, r2

MCAllocation == [r \in Resources |-> IF r = r1 THEN 1 ELSE 3]

Symmetry == Permutations(Requests)
=============================================================================
