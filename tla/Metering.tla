------------------------------ MODULE Metering ------------------------------
(***************************************************************************)
(* What the backend service promises to the owner of an allocation: it     *)
(* lets one job at a time onto the machine, only while what has been       *)
(* billed to its resource is within the allocation, and bills at most what *)
(* one job can use before it decides about the next.                       *)
(***************************************************************************)
EXTENDS Integers

CONSTANTS
    Resources,   \* what allocations are given for
    Allocation,  \* QPU seconds allocated to each resource
    MaxUsage,    \* QPU seconds the longest job can use
    NoGrant      \* no job is on the machine

VARIABLES
    billed,  \* QPU seconds billed to each resource
    grant    \* the resource whose job is on the machine

meteringVars == <<billed, grant>>

MeteringInit ==
    /\ billed = [r \in Resources |-> 0]
    /\ grant = NoGrant

Grant(r) ==
    /\ grant = NoGrant
    /\ billed[r] <= Allocation[r]
    /\ grant' = r
    /\ UNCHANGED billed

(***************************************************************************)
(* A job that ran leaves the machine and is billed, once.                  *)
(***************************************************************************)
Bill(r, usage) ==
    /\ grant = r
    /\ billed' = [billed EXCEPT ![r] = @ + usage]
    /\ grant' = NoGrant

(***************************************************************************)
(* A job leaves the machine without being billed.                          *)
(***************************************************************************)
Release ==
    /\ grant # NoGrant
    /\ grant' = NoGrant
    /\ UNCHANGED billed

MeteringNext ==
    \/ \E r \in Resources : Grant(r)
    \/ \E r \in Resources, usage \in 0..MaxUsage : Bill(r, usage)
    \/ Release

MeteringSpec == MeteringInit /\ [][MeteringNext]_meteringVars
=============================================================================
