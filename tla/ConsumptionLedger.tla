-------------------------- MODULE ConsumptionLedger --------------------------
(***************************************************************************)
(* The internal accounting database: the table ConsumptionEntities with    *)
(* one row per charge, the table Tasks with one row per IQM job, and the   *)
(* table ResourceConsumptionSummaries, which no statement of the service   *)
(* ever writes: a row trigger keeps it in step with ConsumptionEntities.   *)
(*                                                                         *)
(* The backend service reads the summary to decide whether a job may run   *)
(* and writes a charge when one has run.  The row-level statements the     *)
(* trigger is declared for but the service does not issue (a correction of *)
(* a row, its deletion) are those of an administrator with psql.           *)
(*                                                                         *)
(* A resource is a pair (LexisLocationName, LexisResourceName).  Each      *)
(* statement runs in a transaction of its own, so a step is a commit.      *)
(***************************************************************************)
EXTENDS Integers, RunningTotal

CONSTANTS
    Resources,  \* (location name, resource name) pairs
    HeappeIds,  \* HEAppE job ids
    IQMJobIds,  \* job ids the IQM server gives out
    MaxRows,    \* bound: ConsumptionEntities that exist at a time
    Amounts,    \* values of the column Consumption, in QPU seconds
    Factors     \* values of the column ConsumptionFactor

ASSUME LedgerAssumption ==
    /\ MaxRows \in Nat
    /\ Amounts \subseteq Nat
    /\ Factors \subseteq Nat /\ 1 \in Factors

VARIABLES
    entities,   \* ConsumptionEntities, by ConsumptionId
    tasks,      \* Tasks
    summaries   \* ResourceConsumptionSummaries, by its primary key

ledgerVars == <<entities, tasks, summaries>>

ConsumptionIds == 1..MaxRows

ConsumptionEntity == [resource : Resources, consumption : Nat, factor : Nat]

Task == [consumptionId : ConsumptionIds, heappeId : HeappeIds,
         iqmJobId : IQMJobIds]

(***************************************************************************)
(* What one row contributes to the summary of its resource.                *)
(***************************************************************************)
Charge(row) == row.consumption * row.factor

-----------------------------------------------------------------------------
(***************************************************************************)
(* The two halves of maintain_resource_consumption_summary: subtract what  *)
(* OLD contributed (an UPDATE that matches no summary row does nothing),   *)
(* then add what NEW contributes (inserting the summary row on first use). *)
(***************************************************************************)
SubtractOld(sums, old) ==
    [r \in DOMAIN sums |->
        IF r = old.resource THEN sums[r] - Charge(old) ELSE sums[r]]

SummaryIn(sums, r) == IF r \in DOMAIN sums THEN sums[r] ELSE 0

AddNew(sums, new) ==
    [r \in DOMAIN sums \cup {new.resource} |->
        IF r = new.resource THEN SummaryIn(sums, r) + Charge(new) ELSE sums[r]]

(***************************************************************************)
(* The statements on ConsumptionEntities, each with the trigger it fires.  *)
(***************************************************************************)
InsertEntity(id, new) ==
    /\ id \in ConsumptionIds \ DOMAIN entities
    /\ entities' = [i \in DOMAIN entities \cup {id} |->
                        IF i = id THEN new ELSE entities[i]]
    /\ summaries' = AddNew(summaries, new)

UpdateEntityKeepingOld(id, new) ==  \* mutant: OLD is not subtracted
    /\ id \in DOMAIN entities
    /\ entities' = [entities EXCEPT ![id] = new]
    /\ summaries' = AddNew(summaries, new)

UpdateEntity(id, new) ==
    /\ id \in DOMAIN entities
    /\ entities' = [entities EXCEPT ![id] = new]
    /\ summaries' = AddNew(SubtractOld(summaries, entities[id]), new)

DeleteEntityKeepingTask(id) ==  \* mutant: no ON DELETE CASCADE
    /\ id \in DOMAIN entities
    /\ entities' = [i \in DOMAIN entities \ {id} |-> entities[i]]
    /\ summaries' = SubtractOld(summaries, entities[id])
    /\ UNCHANGED tasks

DeleteEntity(id) ==
    /\ id \in DOMAIN entities
    /\ entities' = [i \in DOMAIN entities \ {id} |-> entities[i]]
    /\ summaries' = SubtractOld(summaries, entities[id])
    /\ tasks' = {t \in tasks : t.consumptionId # id}  \* ON DELETE CASCADE

-----------------------------------------------------------------------------
(***************************************************************************)
(* fetch_current_consumption_internal: no summary row reads as zero.       *)
(***************************************************************************)
CurrentConsumption(r) == SummaryIn(summaries, r)

TasksOf(heappeId, iqmJobId) ==
    {t \in tasks : t.heappeId = heappeId /\ t.iqmJobId = iqmJobId}

(***************************************************************************)
(* record_consumption_to_internal_db.  A job already in Tasks has its      *)
(* charge replaced; a job seen for the first time gets a charge and a task *)
(* in one transaction, with the default factor.                            *)
(***************************************************************************)
UpdateExistingTask(heappeId, iqmJobId, amount) ==
    /\ \E t \in TasksOf(heappeId, iqmJobId) :
           UpdateEntity(t.consumptionId,
               [entities[t.consumptionId] EXCEPT !.consumption = amount])
    /\ UNCHANGED tasks

InsertNewTask(heappeId, iqmJobId, resource, amount) ==
    /\ TasksOf(heappeId, iqmJobId) = {}
    /\ \E id \in ConsumptionIds :
           /\ InsertEntity(id, [resource |-> resource, consumption |-> amount,
                                factor |-> 1])
           /\ tasks' = tasks \cup {[consumptionId |-> id, heappeId |-> heappeId,
                                    iqmJobId |-> iqmJobId]}

RecordConsumption(heappeId, iqmJobId, resource, amount) ==
    \/ UpdateExistingTask(heappeId, iqmJobId, amount)
    \/ InsertNewTask(heappeId, iqmJobId, resource, amount)

(***************************************************************************)
(* An administrator corrects a row: any of the columns the trigger is      *)
(* declared for.                                                           *)
(***************************************************************************)
CorrectEntity(id, resource, amount, factor) ==
    /\ UpdateEntity(id, [resource |-> resource, consumption |-> amount,
                         factor |-> factor])
    /\ UNCHANGED tasks

-----------------------------------------------------------------------------
LedgerInit ==
    /\ entities = [i \in {} |-> 0]
    /\ tasks = {}
    /\ summaries = [r \in {} |-> 0]

LedgerNext ==
    \/ \E h \in HeappeIds, j \in IQMJobIds, r \in Resources, a \in Amounts :
           RecordConsumption(h, j, r, a)
    \/ \E id \in ConsumptionIds, r \in Resources, a \in Amounts, f \in Factors :
           CorrectEntity(id, r, a, f)
    \/ \E id \in ConsumptionIds : DeleteEntity(id)

LedgerSpec == LedgerInit /\ [][LedgerNext]_ledgerVars

-----------------------------------------------------------------------------
(***************************************************************************)
(* The tables hold values of their column types.                           *)
(***************************************************************************)
IsEntityTable(table) ==
    /\ DOMAIN table \subseteq ConsumptionIds
    /\ table \in [DOMAIN table -> ConsumptionEntity]

LedgerTypeOK ==
    /\ IsEntityTable(entities)
    /\ tasks \subseteq Task
    /\ DOMAIN summaries \subseteq Resources
    /\ summaries \in [DOMAIN summaries -> Int]

(***************************************************************************)
(* What the rows of a table contribute to resource r, row by row, and what *)
(* the rows of ConsumptionEntities say r has consumed.                     *)
(***************************************************************************)
ChargesTo(r, table) ==
    [id \in ConsumptionIds |->
        IF id \in DOMAIN table /\ table[id].resource = r
        THEN Charge(table[id]) ELSE 0]

BilledTotal(r) == SumTo(ChargesTo(r, entities), MaxRows)

(***************************************************************************)
(* The summary the service checks against the allocation is the sum of the *)
(* charges in the table, whatever inserts, re-recordings, corrections,     *)
(* moves of a row between resources and deletions led here.                *)
(***************************************************************************)
SummaryIsSum == \A r \in Resources : CurrentConsumption(r) = BilledTotal(r)

(***************************************************************************)
(* Tasks and charges are one to one, as the table diagram draws them: a    *)
(* task's charge exists, no two tasks share one, and a job has one task    *)
(* however often it is recorded, so no job is billed twice.                *)
(***************************************************************************)
TasksAndChargesOneToOne ==
    /\ \A t \in tasks : t.consumptionId \in DOMAIN entities
    /\ \A id \in DOMAIN entities : \E t \in tasks : t.consumptionId = id
    /\ \A t, u \in tasks : t.consumptionId = u.consumptionId => t = u
    /\ \A t \in tasks : TasksOf(t.heappeId, t.iqmJobId) = {t}
=============================================================================
