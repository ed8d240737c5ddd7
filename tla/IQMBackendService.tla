-------------------------- MODULE IQMBackendService --------------------------
(***************************************************************************)
(* The backend service beside the quantum computer and the scripts that    *)
(* call it.  HEAppE starts run.sh in a task's directory; run.sh sends one  *)
(* line over a Unix socket and waits with "nc -w 60".  The service accepts *)
(* one connection at a time: it looks up whose allocation the job is for,  *)
(* compares what has been billed with the allocation, runs the job on the  *)
(* IQM server, answers DONE, and then bills the QPU seconds the job used   *)
(* in the internal accounting database.                                    *)
(*                                                                         *)
(* Requests are HEAppE tasks, each with a directory (full_id) of its own   *)
(* and sent once: run.sh deletes the user token it needs to be sent again. *)
(* HEAppE jobs have one task and one IQM job, so one identifier stands for *)
(* the task, its HEAppE job and its IQM job.                               *)
(*                                                                         *)
(* The service has no timeouts of its own except on job.result; a stage of *)
(* handle_connection that calls out of the process is a step.              *)
(***************************************************************************)
EXTENDS ConsumptionLedger, Sequences

CONSTANTS
    Requests,        \* HEAppE tasks that call the service
    Commands,        \* the commands they may carry
    Allocation,      \* AllocationAmount of each resource, in QPU seconds
    MaxUsage,        \* bound: QPU seconds the longest job uses
    AllowedClients,  \* QAAS_ALLOWED_CLIENT_COUNT, the backlog of listen()
    MaxCrashes,      \* bound: crashes of the service
    Mishaps,         \* what may go wrong, a subset of AllMishaps
    NoRequest        \* no connection is being handled

AllMishaps == {"hangup", "crash", "database", "timeout", "failed", "timeline",
               "disk"}

AccountedCommands == {"backend_run", "pulla_submit_playlist"}

UnaccountedCommands == {"backend_init", "pulla_init", "get_calibration_set",
                        "get_dynamic_quantum_architecture"}

ASSUME ServiceAssumption ==
    /\ Requests \subseteq HeappeIds /\ Requests \subseteq IQMJobIds
    /\ Commands \subseteq AccountedCommands \cup UnaccountedCommands
    /\ Allocation \in [Resources -> Nat]
    /\ MaxUsage \in Nat
    /\ AllowedClients \in Nat /\ MaxCrashes \in Nat
    /\ Mishaps \subseteq AllMishaps
    /\ NoRequest \notin Requests /\ NoRequest \notin Resources

VARIABLES
    command,         \* the command of each request (Q_COMMAND)
    resource,        \* the LEXIS resource it is for
    client,          \* run.sh: not started, in nc, killed or timed out, ended
    reply,           \* the line nc has received
    backlog,         \* connections the kernel holds for accept()
    active,          \* the connection handle_connection is working on
    stage,           \* where in handle_connection it is
    seen,            \* accounting_info.current_consumption of each request
    newConsumption,  \* _new_consumption_cache; an absent entry reads as 0.0
    job,             \* the IQM job of each request
    usage,           \* QPU seconds between execution_started and _ended
    saved,           \* requests whose results.pkl and job.pkl are written
    reported,        \* job.consumpted_resources in job.pkl
    crashes

clientVars  == <<command, resource, client>>
handlerVars == <<seen, newConsumption, saved, reported>>
jobVars     == <<job, usage>>
vars == <<command, resource, client, reply, backlog, active, stage, seen,
          newConsumption, job, usage, saved, reported, crashes, ledgerVars>>

Accounted(q) == command[q] \in AccountedCommands

(***************************************************************************)
(* The stages of handle_connection at which a job holds its allocation:    *)
(* it was let through the consumption check and is not billed yet.         *)
(***************************************************************************)
GrantedStages == {"load", "wait", "answer", "record"}

Stages == {"down", "idle", "receive", "check", "close"} \cup GrantedStages

Init ==
    /\ command \in [Requests -> Commands]
    /\ resource \in [Requests -> Resources]
    /\ client = [q \in Requests |-> "new"]
    /\ reply = [q \in Requests |-> "none"]
    /\ backlog = <<>>
    /\ active = NoRequest
    /\ stage = "idle"
    /\ seen = [q \in Requests |-> 0]
    /\ newConsumption = [q \in Requests |-> 0]
    /\ job = [q \in Requests |-> "none"]
    /\ usage = [q \in Requests |-> 0]
    /\ saved = {}
    /\ reported = [q \in Requests |-> 0]
    /\ crashes = 0
    /\ LedgerInit

-----------------------------------------------------------------------------
(***************************************************************************)
(* run.sh connects; without a listening service it ends with exit code 1.  *)
(***************************************************************************)
Connect(q) ==
    /\ client[q] = "new"
    /\ stage # "down"
    /\ Len(backlog) < AllowedClients
    /\ client' = [client EXCEPT ![q] = "waiting"]
    /\ backlog' = Append(backlog, q)
    /\ UNCHANGED <<command, resource, reply, active, stage, crashes,
                   handlerVars, jobVars, ledgerVars>>

FindNoSocket(q) ==
    /\ client[q] = "new"
    /\ stage = "down"
    /\ client' = [client EXCEPT ![q] = "ended"]
    /\ UNCHANGED <<command, resource, reply, backlog, active, stage, crashes,
                   handlerVars, jobVars, ledgerVars>>

(***************************************************************************)
(* nc gives up after 60 seconds of silence, or the HEAppE job is cancelled *)
(* or reaches its walltime.  The service learns of it when it next sends.  *)
(***************************************************************************)
HangUp(q) ==
    /\ "hangup" \in Mishaps
    /\ client[q] = "waiting"
    /\ reply[q] = "none"
    /\ client' = [client EXCEPT ![q] = "gone"]
    /\ UNCHANGED <<command, resource, reply, backlog, active, stage, crashes,
                   handlerVars, jobVars, ledgerVars>>

-----------------------------------------------------------------------------
(***************************************************************************)
(* start: accept, handle, close; one connection after the other.           *)
(***************************************************************************)
Accept ==
    /\ stage = "idle"
    /\ backlog # <<>>
    /\ active' = Head(backlog)
    /\ backlog' = Tail(backlog)
    /\ stage' = "receive"
    /\ UNCHANGED <<clientVars, reply, crashes, handlerVars, jobVars, ledgerVars>>

(***************************************************************************)
(* conn.sendall: what is sent to a client that has hung up is lost.        *)
(***************************************************************************)
Send(q, text) ==
    reply' = [reply EXCEPT ![q] = IF client[q] = "waiting" THEN text ELSE @]

(***************************************************************************)
(* Every early return and every exception handler: say ERROR, then close.  *)
(***************************************************************************)
Fail(q) ==
    /\ Send(q, "ERROR")
    /\ stage' = "close"
    /\ UNCHANGED <<clientVars, backlog, active, crashes>>

(***************************************************************************)
(* A line that does not parse, a token that has expired, a resource whose  *)
(* assignment cannot be fetched, or a command's own failure.               *)
(***************************************************************************)
Refuse(q) ==
    /\ active = q /\ stage = "receive"
    /\ Fail(q)
    /\ UNCHANGED <<handlerVars, jobVars, ledgerVars>>

ServeUnaccounted(q) ==
    /\ active = q /\ stage = "receive"
    /\ ~ Accounted(q)
    /\ Send(q, "DONE")
    /\ stage' = "close"
    /\ UNCHANGED <<clientVars, backlog, active, crashes, handlerVars, jobVars,
                   ledgerVars>>

GetAccountingInfo(q) ==
    /\ active = q /\ stage = "receive"
    /\ Accounted(q)
    /\ stage' = "check"
    /\ UNCHANGED <<clientVars, reply, backlog, active, crashes, handlerVars,
                   jobVars, ledgerVars>>

(***************************************************************************)
(* The consumption check.  A failed query reads as -1.0, which the setter  *)
(* of current_consumption rejects; billing exactly the allocation is still *)
(* within it.                                                              *)
(***************************************************************************)
WithinAllocation(r) == CurrentConsumption(r) <= Allocation[r]

PassCheckUnlimited(q) ==  \* mutant: over the limit, the job is allowed too
    /\ active = q /\ stage = "check"
    /\ seen' = [seen EXCEPT ![q] = CurrentConsumption(resource[q])]
    /\ stage' = "load"
    /\ UNCHANGED <<clientVars, reply, backlog, active, crashes, newConsumption,
                   saved, reported, jobVars, ledgerVars>>

PassCheck(q) ==
    /\ active = q /\ stage = "check"
    /\ WithinAllocation(resource[q])
    /\ seen' = [seen EXCEPT ![q] = CurrentConsumption(resource[q])]
    /\ stage' = "load"
    /\ UNCHANGED <<clientVars, reply, backlog, active, crashes, newConsumption,
                   saved, reported, jobVars, ledgerVars>>

FailCheck(q) ==
    /\ active = q /\ stage = "check"
    /\ "database" \in Mishaps \/ ~ WithinAllocation(resource[q])
    /\ Fail(q)
    /\ UNCHANGED <<handlerVars, jobVars, ledgerVars>>

-----------------------------------------------------------------------------
(***************************************************************************)
(* backend_run and pulla_submit_playlist up to the submission: run_kwargs, *)
(* the backend or Pulla object and the circuits come from the task's       *)
(* directory, then the IQM server gets the job.                            *)
(***************************************************************************)
SubmitJob(q) ==
    /\ active = q /\ stage = "load"
    /\ job' = [job EXCEPT ![q] = "submitted"]
    /\ stage' = "wait"
    /\ UNCHANGED <<clientVars, reply, backlog, active, crashes, usage,
                   handlerVars, ledgerVars>>

FailToSubmit(q) ==
    /\ active = q /\ stage = "load"
    /\ Fail(q)
    /\ UNCHANGED <<handlerVars, jobVars, ledgerVars>>

(***************************************************************************)
(* The IQM server executes a submitted job, whether or not the service is  *)
(* still waiting for it.  A job that fails may have used the machine.      *)
(***************************************************************************)
ExecuteJob(q) ==
    /\ job[q] = "submitted"
    /\ \E outcome \in {"done"} \cup ({"failed"} \cap Mishaps) :
           job' = [job EXCEPT ![q] = outcome]
    /\ \E u \in 0..MaxUsage : usage' = [usage EXCEPT ![q] = u]
    /\ UNCHANGED <<clientVars, reply, backlog, active, stage, crashes,
                   handlerVars, ledgerVars>>

(***************************************************************************)
(* job.result(timeout=1740) expires; a Pulla job is waited for without a   *)
(* limit (wait_for_completion(timeout_secs=0.0)).                          *)
(***************************************************************************)
GiveUpWaiting(q) ==
    /\ active = q /\ stage = "wait"
    /\ "timeout" \in Mishaps
    /\ command[q] = "backend_run"
    /\ job[q] = "submitted"
    /\ Fail(q)
    /\ UNCHANGED <<handlerVars, jobVars, ledgerVars>>

(***************************************************************************)
(* The result is there.  The hardware runtime is put in the cache when the *)
(* timeline has both of its ends, and only then is the status looked at.   *)
(* backend_run also notes in the job what its owner has consumed so far.   *)
(***************************************************************************)
CacheUsageAlone(q) ==  \* mutant: the job is told its own usage, not the total
    /\ newConsumption' = [newConsumption EXCEPT ![q] = usage[q]]
    /\ reported' = [reported EXCEPT ![q] = usage[q]]

CacheUsage(q) ==
    \/ /\ newConsumption' = [newConsumption EXCEPT ![q] = usage[q]]
       /\ reported' = IF command[q] = "backend_run"
                      THEN [reported EXCEPT ![q] = usage[q] + seen[q]]
                      ELSE reported
    \/ /\ "timeline" \in Mishaps
       /\ UNCHANGED <<newConsumption, reported>>

CollectResult(q) ==
    /\ active = q /\ stage = "wait"
    /\ job[q] = "done"
    /\ CacheUsage(q)
    /\ saved' = saved \cup {q}
    /\ stage' = "answer"
    /\ UNCHANGED <<clientVars, reply, backlog, active, crashes, seen, jobVars,
                   ledgerVars>>

FailAfterRun(q) ==
    /\ active = q /\ stage = "wait"
    /\ job[q] = "failed" \/ (job[q] = "done" /\ "disk" \in Mishaps)
    /\ CacheUsage(q)
    /\ Fail(q)
    /\ UNCHANGED <<seen, saved, jobVars, ledgerVars>>

(***************************************************************************)
(* conn.sendall(b"DONE\n") comes before the billing: when the client has   *)
(* hung up it raises, and the handler goes straight to its end.            *)
(***************************************************************************)
AnswerDoneIgnored(q) ==  \* mutant: an error of sendall is caught on the spot
    /\ active = q /\ stage = "answer"
    /\ Send(q, "DONE")
    /\ stage' = "record"
    /\ UNCHANGED <<clientVars, backlog, active, crashes, handlerVars, jobVars,
                   ledgerVars>>

AnswerDoneUnlessFree(q) ==  \* mutant: a job that used nothing is not recorded
    /\ active = q /\ stage = "answer"
    /\ Send(q, "DONE")
    /\ stage' = IF client[q] = "waiting" /\ newConsumption[q] > 0
                THEN "record" ELSE "close"
    /\ UNCHANGED <<clientVars, backlog, active, crashes, handlerVars, jobVars,
                   ledgerVars>>

AnswerDone(q) ==
    /\ active = q /\ stage = "answer"
    /\ Send(q, "DONE")
    /\ stage' = IF client[q] = "waiting" THEN "record" ELSE "close"
    /\ UNCHANGED <<clientVars, backlog, active, crashes, handlerVars, jobVars,
                   ledgerVars>>

BillTotal(q) ==  \* mutant: what the owner has consumed so far is billed again
    /\ active = q /\ stage = "record"
    /\ RecordConsumption(q, q, resource[q], seen[q] + newConsumption[q])
    /\ stage' = "close"
    /\ UNCHANGED <<clientVars, reply, backlog, active, crashes, handlerVars,
                   jobVars>>

Bill(q) ==
    /\ active = q /\ stage = "record"
    /\ RecordConsumption(q, q, resource[q], newConsumption[q])
    /\ stage' = "close"
    /\ UNCHANGED <<clientVars, reply, backlog, active, crashes, handlerVars,
                   jobVars>>

(***************************************************************************)
(* The transaction fails: it is rolled back and the error only printed.    *)
(***************************************************************************)
FailToBill(q) ==
    /\ active = q /\ stage = "record"
    /\ "database" \in Mishaps
    /\ stage' = "close"
    /\ UNCHANGED <<clientVars, reply, backlog, active, crashes, handlerVars,
                   jobVars, ledgerVars>>

(***************************************************************************)
(* conn.close(): nc reads the end of the stream, run.sh looks at RESPONSE. *)
(***************************************************************************)
EndOfStream(cs) ==
    [q \in Requests |-> IF q \in cs /\ client[q] = "waiting"
                        THEN "ended" ELSE client[q]]

CloseLater(q) ==  \* mutant: the connection is left to the garbage collector
    /\ active = q /\ stage = "close"
    /\ active' = NoRequest
    /\ stage' = "idle"
    /\ UNCHANGED <<clientVars, reply, backlog, crashes, handlerVars, jobVars,
                   ledgerVars>>

Close(q) ==
    /\ active = q /\ stage = "close"
    /\ active' = NoRequest
    /\ stage' = "idle"
    /\ client' = EndOfStream({q})
    /\ UNCHANGED <<command, resource, reply, backlog, crashes, handlerVars,
                   jobVars, ledgerVars>>

-----------------------------------------------------------------------------
(***************************************************************************)
(* The process dies anywhere: its caches and all its connections are gone, *)
(* the IQM server's jobs are not.  systemd starts it again.                *)
(***************************************************************************)
Crash ==
    /\ "crash" \in Mishaps /\ crashes < MaxCrashes
    /\ stage # "down"
    /\ crashes' = crashes + 1
    /\ client' = EndOfStream(Requests)
    /\ backlog' = <<>>
    /\ active' = NoRequest
    /\ stage' = "down"
    /\ seen' = [q \in Requests |-> 0]
    /\ newConsumption' = [q \in Requests |-> 0]
    /\ UNCHANGED <<command, resource, reply, saved, reported, jobVars,
                   ledgerVars>>

Restart ==
    /\ stage = "down"
    /\ stage' = "idle"
    /\ UNCHANGED <<clientVars, reply, backlog, active, crashes, handlerVars,
                   jobVars, ledgerVars>>

-----------------------------------------------------------------------------
(***************************************************************************)
(* The next step of handle_connection for the connection it works on.      *)
(***************************************************************************)
Handle(q) ==
    \/ Refuse(q) \/ ServeUnaccounted(q) \/ GetAccountingInfo(q)
    \/ PassCheck(q) \/ FailCheck(q)
    \/ SubmitJob(q) \/ FailToSubmit(q)
    \/ GiveUpWaiting(q) \/ CollectResult(q) \/ FailAfterRun(q)
    \/ AnswerDone(q) \/ Bill(q) \/ FailToBill(q)
    \/ Close(q)

Next ==
    \/ \E q \in Requests :
           Connect(q) \/ FindNoSocket(q) \/ HangUp(q) \/ ExecuteJob(q) \/ Handle(q)
    \/ Accept \/ Crash \/ Restart

Spec == Init /\ [][Next]_vars

(***************************************************************************)
(* A process that is up keeps running, systemd restarts one that is down,  *)
(* and the IQM server gets to every job it has accepted.  Nothing makes a  *)
(* client connect or hang up.                                              *)
(***************************************************************************)
Fairness ==
    /\ WF_vars(Accept) /\ WF_vars(Restart)
    /\ \A q \in Requests : WF_vars(Handle(q)) /\ WF_vars(ExecuteJob(q))

FairSpec == Spec /\ Fairness

-----------------------------------------------------------------------------
ServiceTypeOK ==
    /\ LedgerTypeOK
    /\ command \in [Requests -> Commands]
    /\ resource \in [Requests -> Resources]
    /\ client \in [Requests -> {"new", "waiting", "gone", "ended"}]
    /\ reply \in [Requests -> {"none", "DONE", "ERROR"}]
    /\ backlog \in Seq(Requests)
    /\ active \in Requests \cup {NoRequest}
    /\ stage \in Stages
    /\ active = NoRequest <=> stage \in {"down", "idle"}
    /\ seen \in [Requests -> Nat]
    /\ newConsumption \in [Requests -> 0..MaxUsage]
    /\ job \in [Requests -> {"none", "submitted", "done", "failed"}]
    /\ usage \in [Requests -> 0..MaxUsage]
    /\ saved \subseteq Requests
    /\ reported \in [Requests -> Nat]
    /\ crashes \in Nat

(***************************************************************************)
(* The charge of request q, if it was billed.                              *)
(***************************************************************************)
Billed(q) == TasksOf(q, q) # {}

ChargesOf(q) == {entities[t.consumptionId].consumption : t \in TasksOf(q, q)}

(***************************************************************************)
(* Jobs are let through one at a time and each is compared with what all   *)
(* the jobs before it were billed, so a resource is never billed for more  *)
(* than its allocation and one job (handle_connection, consumption check). *)
(***************************************************************************)
OverdraftBounded ==
    \A r \in Resources : CurrentConsumption(r) <= Allocation[r] + MaxUsage

(***************************************************************************)
(* From the consumption check until the job is billed nothing moves the    *)
(* summary the check was made on: the decision to run the job, and the     *)
(* total noted in the job for its owner, are not stale when they are used. *)
(***************************************************************************)
CheckIsCurrent ==
    stage \in GrantedStages =>
        /\ CurrentConsumption(resource[active]) = seen[active]
        /\ WithinAllocation(resource[active])

(***************************************************************************)
(* Nobody is billed for a job that was not delivered: who is billed has    *)
(* had DONE, finds the results in the task's directory, and pays no more   *)
(* than the machine time of that job, whatever fails on the way.           *)
(***************************************************************************)
BilledIsDelivered ==
    \A q \in Requests : Billed(q) =>
        /\ reply[q] = "DONE" /\ q \in saved
        /\ \A charge \in ChargesOf(q) : charge <= usage[q]

(***************************************************************************)
(* While the service and its database stay up, a job whose client has read *)
(* DONE is billed by the time its connection is closed.                    *)
(***************************************************************************)
DoneIsBilled ==
    crashes = 0 /\ "database" \notin Mishaps =>
        \A q \in Requests :
            reply[q] = "DONE" /\ Accounted(q) /\ active # q => Billed(q)

(***************************************************************************)
(* The total noted in a job for its owner (consumpted_resources) is the    *)
(* total of the accounting database at the moment the job is billed.       *)
(***************************************************************************)
ReportedIsBilledTotal ==
    [][\A q \in Requests :
           Bill(q) /\ command[q] = "backend_run" /\ newConsumption[q] > 0
               => CurrentConsumption(resource[q])' = reported[q]]_vars

(***************************************************************************)
(* The commands are marked as accounted: whenever the service is idle, the *)
(* machine time of every job it ran has been billed.                       *)
(***************************************************************************)
EveryRunIsBilled ==
    stage = "idle" =>
        \A q \in Requests :
            job[q] \in {"done", "failed"} => ChargesOf(q) = {usage[q]}

(***************************************************************************)
(* A connected run.sh is answered, or at least told that the connection is *)
(* gone, though the service takes one connection at a time, waits for the  *)
(* machine while it handles it, and may crash.                             *)
(***************************************************************************)
EveryClientIsReleased ==
    \A q \in Requests : client[q] = "waiting" ~> client[q] \in {"ended", "gone"}

(***************************************************************************)
(* The service keeps the promise of Metering.                              *)
(***************************************************************************)
GrantHolder == IF stage \in GrantedStages THEN resource[active] ELSE NoRequest

Promise == INSTANCE Metering WITH
    billed  <- [r \in Resources |-> CurrentConsumption(r)],
    grant   <- GrantHolder,
    NoGrant <- NoRequest

ImplementsMetering == Promise!MeteringSpec
=============================================================================
