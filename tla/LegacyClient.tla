---------------------------- MODULE LegacyClient ----------------------------
(***************************************************************************)
(* Clients of src/qaas/client/client.py at work, up to the answer: each    *)
(* logs in, then calls one operation after another, and every operation    *)
(* is a HEAppE job that is created, given its files, submitted and waited  *)
(* for.  The uploads of one submission run in a thread pool.               *)
(*                                                                         *)
(* On the other side the IQM backend service of                            *)
(* src/qaas/iqm_backend/backend_service.py answers one job at a time, from *)
(* caches whose entries expire, while the computer is recalibrated: its    *)
(* accounting is IQMBackendService's.  A calibration set is the number of  *)
(* sets before it, and so are the architecture and the backend made of it. *)
(***************************************************************************)
EXTENDS LegacyLogin, FiniteSets

CONSTANTS
    Callers,       \* programs, each with a client of its own
    Files,         \* what a run needs besides the token
    Workers,       \* threads of the pool, 10 in the code
    TTL,           \* ticks an entry of the service's caches lives
    Worlds,        \* what LEXIS and HEAppE answer, and what is called
    MaxTime, MaxSets, MaxJobs, MaxFaults

Ops == {"run", "init", "pulla", "set", "arch"}

ASSUME LegacyAssumption ==
    /\ None \notin Files \cup Nat
    /\ Workers \in Nat \ {0} /\ TTL \in Nat \ {0}
    /\ MaxTime \in Nat /\ MaxSets \in Nat \ {0}
    /\ MaxJobs \in Nat /\ MaxFaults \in Nat
    /\ \A i \in DOMAIN Worlds :
        /\ AnswerOK(Worlds[i].answer)
        /\ Worlds[i].ops \subseteq Ops
        /\ Worlds[i].jobs \in 0..MaxJobs /\ Worlds[i].ticks \in 0..MaxTime
        /\ Worlds[i].faults \in 0..MaxFaults
        /\ Worlds[i].callers \subseteq Callers
        /\ Worlds[i].sets \in 1..MaxSets /\ Worlds[i].closes \in BOOLEAN

Jobs == 1..MaxJobs
Sets == 1..MaxSets
Caches == {"set", "arch"}

VARIABLES
    world,
    login,         \* of each client, how its constructor ended
    open,          \* clients that are authenticated
    call,          \* what each program is doing
    learnt,        \* the client's architectures, by the id asked for
    jobs,          \* HEAppE's jobs, and the directory of each
    serving,       \* the job the service is at
    store,         \* the service's caches
    now,           \* ticks
    history,       \* the default set when each tick began
    current,       \* the default set
    faults

World == Worlds[world]

clients == <<login, open, call, learnt>>
service == <<serving, store>>
outside == <<now, history, current>>
vars == <<world, login, open, call, learnt, jobs, serving, store, now, history,
          current, faults>>

-----------------------------------------------------------------------------
NoJob == [state |-> "none", op |-> "none", arg |-> None, token |-> FALSE,
          up |-> [f \in Files |-> "none"], answer |-> 0]

\* `job' is 0 until HEAppE has answered; `tick' and `default' are those of
\* the time the call began.
Idle == [op |-> "none", arg |-> None, step |-> "idle", job |-> 0,
         tick |-> 0, default |-> 0]

Resting == [job |-> 0, step |-> "idle", value |-> 0]

\* Only a run has files, and only a run is not waited for: the backend asks
\* for its job later.
Needed(op) == IF op = "run" THEN Files ELSE {}

Created == {j \in Jobs : jobs[j].state # "none"}

Job(c) == jobs[call[c].job]

At(c, step) == call' = [call EXCEPT ![c].step = step]

Return(c) == call' = [call EXCEPT ![c] = Idle]

Fault == faults < World.faults /\ faults' = faults + 1

-----------------------------------------------------------------------------
(* The client. *)

\* Any request of the constructor may fail, which refuses the user as well.
Login(c) ==
    /\ c \in World.callers
    /\ login[c] = "none"
    /\ \/ /\ login' = [login EXCEPT ![c] = Outcome(World.answer)]
          /\ UNCHANGED faults
       \/ /\ Fault
          /\ login' = [login EXCEPT ![c] = "refused"]
    /\ open' = IF login'[c] = "ready" THEN open \cup {c} ELSE open
    /\ UNCHANGED <<world, call, learnt, jobs, service, outside>>

Close(c) ==
    /\ World.closes
    /\ c \in open /\ call[c] = Idle
    /\ open' = open \ {c}
    /\ UNCHANGED <<world, login, call, learnt, jobs, service, outside, faults>>

\* Every operation is a job, submitted in the same way.
Begin(c, op, arg) ==
    /\ c \in open /\ call[c] = Idle
    /\ op \in World.ops
    /\ Cardinality(Created) < World.jobs
    /\ call' = [call EXCEPT ![c] = [op |-> op, arg |-> arg, job |-> 0,
                                    step |-> "create", tick |-> now,
                                    default |-> current]]
    /\ UNCHANGED <<world, login, open, learnt, jobs, service, outside, faults>>

\* `QBackend.run' with circuits and options, `_get_backend_from_heappe'.
RunCircuits(c) == Begin(c, "run", None)
InitBackend(c) == Begin(c, "init", None)
GetPulla(c) == Begin(c, "pulla", None)

\* A set that is asked for by name exists by then.
GetCalibrationSet(c, id) ==
    /\ id # None => id <= current
    /\ Begin(c, "set", id)

\* An architecture that the client has learnt is returned at once, even by a
\* client that was closed: that needs no call.
GetDynamicArchitecture(c, id) ==
    /\ id # None => id <= current
    /\ id \notin DOMAIN learnt[c]
    /\ Begin(c, "arch", id)

\* The job exists; its number may get lost on the way back.
CreateJob(c) ==
    /\ call[c].step = "create"
    /\ Cardinality(Created) < MaxJobs
    /\ LET j == Cardinality(Created) + 1
       IN  /\ jobs' = [jobs EXCEPT ![j] = [NoJob EXCEPT
                  !.state = "CONFIGURING", !.op = call[c].op,
                  !.arg = call[c].arg]]
           /\ \/ /\ call' = [call EXCEPT ![c].step = "token", ![c].job = j]
                 /\ UNCHANGED faults
              \/ Fault /\ Return(c)
    /\ UNCHANGED <<world, login, open, learnt, service, outside>>

\* The bound on jobs is reached, or HEAppE refuses.
FailToCreate(c) ==
    /\ call[c].step = "create"
    /\ IF Cardinality(Created) < MaxJobs THEN Fault ELSE UNCHANGED faults
    /\ Return(c)
    /\ UNCHANGED <<world, login, open, learnt, jobs, service, outside>>

\* With the token in place, all uploads are handed to the pool.
UploadToken(c) ==
    /\ call[c].step = "token"
    /\ jobs' = [jobs EXCEPT ![call[c].job].token = TRUE,
                            ![call[c].job].up = [f \in Files |->
                                IF f \in Needed(call[c].op)
                                THEN "queued" ELSE "none"]]
    /\ At(c, "upload")
    /\ UNCHANGED <<world, login, open, learnt, service, outside, faults>>

FailToUploadToken(c) ==
    /\ call[c].step = "token"
    /\ Fault
    /\ Return(c)
    /\ UNCHANGED <<world, login, open, learnt, jobs, service, outside>>

In(c, stage) == {f \in Files : Job(c).up[f] = stage}

Uploading(c) == call[c].step \in {"upload", "abort"}

Mark(j, f, stage) == jobs' = [jobs EXCEPT ![j].up[f] = stage]

\* A thread of the pool takes the next upload.
StartUpload(c, f) ==
    /\ Uploading(c)
    /\ f \in In(c, "queued")
    /\ Cardinality(In(c, "sending")) < Workers
    /\ Mark(call[c].job, f, "sending")
    /\ UNCHANGED <<world, clients, service, outside, faults>>

\* It is not said whose: an upload could outlive its call.
EndUpload(j, f) ==
    /\ jobs[j].up[f] = "sending"
    /\ \/ Mark(j, f, "sent") /\ UNCHANGED faults
       \/ Mark(j, f, "failed") /\ Fault
    /\ UNCHANGED <<world, clients, service, outside>>

\* mutant: wait() returns with the first upload that is done.
GatherFirst(c) ==
    /\ call[c].step = "upload"
    /\ In(c, "failed") = {}
    /\ In(c, "sent") # {} \/ Needed(call[c].op) = {}
    /\ At(c, "submit")
    /\ UNCHANGED <<world, login, open, learnt, jobs, service, outside, faults>>

\* wait(FIRST_EXCEPTION) returns and nothing has failed.
Gather(c) ==
    /\ call[c].step = "upload"
    /\ In(c, "sent") = Needed(call[c].op)
    /\ At(c, "submit")
    /\ UNCHANGED <<world, login, open, learnt, jobs, service, outside, faults>>

\* It returns with a failure: what no thread has begun is cancelled.
Cancel(c) ==
    /\ call[c].step = "upload"
    /\ In(c, "failed") # {}
    /\ jobs' = [jobs EXCEPT ![call[c].job].up =
           [f \in Files |-> IF f \in In(c, "queued")
                            THEN "cancelled" ELSE @[f]]]
    /\ At(c, "abort")
    /\ UNCHANGED <<world, login, open, learnt, service, outside, faults>>

\* mutant: the pool is left without waiting for its threads.
RaiseAtOnce(c) ==
    /\ call[c].step = "abort"
    /\ Return(c)
    /\ UNCHANGED <<world, login, open, learnt, jobs, service, outside, faults>>

\* The end of the `with' block joins the threads, then the failure is raised.
Raise(c) ==
    /\ call[c].step = "abort"
    /\ In(c, "sending") = {}
    /\ Return(c)
    /\ UNCHANGED <<world, login, open, learnt, jobs, service, outside, faults>>

SubmitJob(c) ==
    /\ call[c].step = "submit"
    /\ jobs' = [jobs EXCEPT ![call[c].job].state = "QUEUED"]
    /\ \/ /\ UNCHANGED faults
          /\ IF call[c].op = "run" THEN Return(c) ELSE At(c, "wait")
       \/ Fault /\ Return(c)
    /\ UNCHANGED <<world, login, open, learnt, service, outside>>

\* HEAppE refuses the submission, a poll fails, or a file of the answer.
FailRequest(c) ==
    /\ call[c].step \in {"submit", "wait"}
    /\ Fault
    /\ Return(c)
    /\ UNCHANGED <<world, login, open, learnt, jobs, service, outside>>

\* An architecture is cached under the id it says it has.
Learn(c, answer) ==
    learnt' = [learnt EXCEPT ![c] =
        [s \in DOMAIN @ \cup {answer} |-> IF s = answer THEN answer
                                                         ELSE @[s]]]

\* A poll sees the end of the job, and the files of its answer are loaded.
Answer(c) ==
    /\ call[c].step = "wait"
    /\ Job(c).state = "FINISHED"
    /\ IF call[c].op = "arch" THEN Learn(c, Job(c).answer)
                              ELSE UNCHANGED learnt
    /\ Return(c)
    /\ UNCHANGED <<world, login, open, jobs, service, outside, faults>>

ResultsFailed(c) ==
    /\ call[c].step = "wait"
    /\ Job(c).state = "FAILED"
    /\ Return(c)
    /\ UNCHANGED <<world, login, open, learnt, jobs, service, outside, faults>>

-----------------------------------------------------------------------------
(* HEAppE and the service. *)

StartJob(j) ==
    /\ jobs[j].state = "QUEUED"
    /\ jobs' = [jobs EXCEPT ![j].state = "RUNNING"]
    /\ UNCHANGED <<world, clients, service, outside, faults>>

\* Out of walltime, or cancelled; the service is not told.
Kill(j) ==
    /\ jobs[j].state \in {"QUEUED", "RUNNING"}
    /\ Fault
    /\ jobs' = [jobs EXCEPT ![j].state = "FAILED"]
    /\ UNCHANGED <<world, clients, service, outside>>

\* The service accepts the connection that a job made when it started.
TakeJob(j) ==
    /\ serving = Resting
    /\ jobs[j].state = "RUNNING"
    /\ serving' = [job |-> j, step |-> "lookup", value |-> 0]
    /\ UNCHANGED <<world, clients, jobs, store, outside, faults>>

Served == jobs[serving.job]

\* Entries are kept under "default", 0 here, or the id of the set.
KeyOf(arg) == IF arg = None THEN 0 ELSE arg

Live(cache, key) ==
    key \in DOMAIN store[cache] /\ now < store[cache][key].until

\* mutant: the calibration sets are looked up as the architectures are.
LookUpKeyAlways(op, arg) == KeyOf(arg)

\* The calibration sets are looked up under the argument itself, and no entry
\* has the key None.
LookUpKey(op, arg) == IF op = "set" THEN arg ELSE KeyOf(arg)

LookUp ==
    /\ serving.step = "lookup"
    /\ LET hit == /\ Served.op \in Caches
                  /\ Live(Served.op, LookUpKey(Served.op, Served.arg))
       IN  serving' = [serving EXCEPT !.step = IF hit THEN "save"
                                                      ELSE "fetch"]
    /\ UNCHANGED <<world, clients, jobs, store, outside, faults>>

StoreKey(arg) == KeyOf(arg)

\* `pulla_init' asks the IQM server for the default set, the rest may name
\* one.
DefaultSet == current

Fetched ==
    CASE Served.op = "run"   -> 0
      [] Served.arg # None   -> Served.arg
      [] OTHER               -> DefaultSet

\* mutant: an entry that was not fetched is kept until it is asked for.
KeepAlive(key) == [set |-> Fetched, until |-> MaxTime + 1]

Entry(key) == [set |-> Fetched, until |-> now + TTL]

\* The IQM server answers; sets and architectures go through the cache.
Fetch ==
    /\ serving.step = "fetch"
    /\ Served.op = "run" => /\ Served.token
                            /\ \A f \in Files : Served.up[f] = "sent"
    /\ serving' = [serving EXCEPT !.step = "save", !.value = Fetched]
    /\ IF Served.op \in Caches
       THEN LET key == StoreKey(Served.arg)
            IN  store' = [store EXCEPT ![Served.op] =
                    [k \in DOMAIN @ \cup {key} |->
                        IF k = key THEN Entry(key) ELSE @[k]]]
       ELSE UNCHANGED store
    /\ UNCHANGED <<world, clients, jobs, outside, faults>>

\* mutant: the job is not told that its command has ended.
ConcludeSilently(state, answer) ==
    /\ jobs' = jobs
    /\ serving' = Resting

\* The connection ends; a job that was killed meanwhile stays dead.
Conclude(state, answer) ==
    /\ jobs' = [jobs EXCEPT ![serving.job] =
           IF Served.state = "RUNNING"
           THEN [@ EXCEPT !.state = state, !.answer = answer] ELSE @]
    /\ serving' = Resting

\* The IQM server fails, or the files of a run are not there.
FailToFetch ==
    /\ serving.step = "fetch"
    /\ IF /\ Served.op = "run"
          /\ ~Served.token \/ \E f \in Files : Served.up[f] # "sent"
       THEN UNCHANGED faults ELSE Fault
    /\ Conclude("FAILED", 0)
    /\ UNCHANGED <<world, clients, store, outside>>

\* What is saved is read from the cache once more: KeyError if it expired.
Save ==
    /\ serving.step = "save"
    /\ IF Served.op \notin Caches
       THEN Conclude("FINISHED", serving.value)
       ELSE IF Live(Served.op, StoreKey(Served.arg))
       THEN Conclude("FINISHED", store[Served.op][StoreKey(Served.arg)].set)
       ELSE Conclude("FAILED", 0)
    /\ UNCHANGED <<world, clients, store, outside, faults>>

Recalibrate ==
    /\ current < World.sets
    /\ current' = current + 1
    /\ UNCHANGED <<world, clients, jobs, service, now, history, faults>>

\* Entries that have expired are dropped.
Tick ==
    /\ now < World.ticks
    /\ now' = now + 1
    /\ history' = Append(history, current)
    /\ store' = [k \in Caches |-> [s \in {s \in DOMAIN store[k] :
                     store[k][s].until > now + 1} |-> store[k][s]]]
    /\ UNCHANGED <<world, clients, jobs, serving, current, faults>>

-----------------------------------------------------------------------------
Init ==
    /\ world \in DOMAIN Worlds
    /\ login = [c \in Callers |-> "none"]
    /\ open = {}
    /\ call = [c \in Callers |-> Idle]
    /\ learnt = [c \in Callers |-> <<>>]
    /\ jobs = [j \in Jobs |-> NoJob]
    /\ serving = Resting
    /\ store = [k \in Caches |-> <<>>]
    /\ now = 0 /\ history = <<1>> /\ current = 1
    /\ faults = 0

Step(c) ==
    \/ CreateJob(c) \/ FailToCreate(c)
    \/ UploadToken(c) \/ FailToUploadToken(c)
    \/ \E f \in Files : StartUpload(c, f)
    \/ Gather(c) \/ Cancel(c) \/ Raise(c)
    \/ SubmitJob(c) \/ FailRequest(c)
    \/ Answer(c) \/ ResultsFailed(c)

Start(c) ==
    \/ Login(c) \/ Close(c)
    \/ RunCircuits(c) \/ InitBackend(c) \/ GetPulla(c)
    \/ \E id \in Sets \cup {None} :
        GetCalibrationSet(c, id) \/ GetDynamicArchitecture(c, id)

Pool(j) == \E f \in Files : EndUpload(j, f)

HEAppE(j) == StartJob(j) \/ Kill(j)

Service ==
    \/ \E j \in Jobs : TakeJob(j)
    \/ LookUp \/ Fetch \/ FailToFetch \/ Save

Next ==
    \/ \E c \in Callers : Start(c) \/ Step(c)
    \/ \E j \in Jobs : Pool(j) \/ HEAppE(j)
    \/ Service
    \/ Recalibrate \/ Tick

Spec == Init /\ [][Next]_vars

\* Requests are answered or fail, HEAppE starts what is queued, and the
\* service goes on with what it is at and with what waits for it.
FairSpec ==
    /\ Spec
    /\ \A c \in Callers : WF_vars(Step(c))
    /\ \A j \in Jobs : WF_vars(Pool(j)) /\ WF_vars(StartJob(j))
    /\ WF_vars(Service)

-----------------------------------------------------------------------------
(* What has to hold. *)

JobOK == [state : {"none", "CONFIGURING", "QUEUED", "RUNNING", "FINISHED",
                   "FAILED"},
          op : Ops \cup {"none"}, arg : Sets \cup {None}, token : BOOLEAN,
          up : [Files -> {"none", "queued", "sending", "sent", "failed",
                          "cancelled"}],
          answer : Sets \cup {0}]

CallOK == [op : Ops \cup {"none"}, arg : Sets \cup {None},
           step : {"idle", "create", "token", "upload", "abort", "submit",
                   "wait"},
           job : Jobs \cup {0}, tick : 0..MaxTime, default : Sets \cup {0}]

LegacyTypeOK ==
    /\ world \in DOMAIN Worlds
    /\ login \in [Callers -> {"none", "ready", "refused", "crashed"}]
    /\ open \subseteq {c \in Callers : login[c] = "ready"}
    /\ call \in [Callers -> CallOK]
    /\ DOMAIN learnt = Callers /\ DOMAIN store = Caches
    /\ \A c \in Callers :
        /\ learnt[c] \in [DOMAIN learnt[c] -> Sets]
        /\ DOMAIN learnt[c] \subseteq Sets
    /\ \A k \in Caches :
        /\ store[k] \in [DOMAIN store[k] -> [set : Sets, until : Nat]]
        /\ DOMAIN store[k] \subseteq Sets \cup {0}
    /\ jobs \in [Jobs -> JobOK]
    /\ serving \in [job : Jobs \cup {0}, value : Sets \cup {0},
                    step : {"idle", "lookup", "fetch", "save"}]
    /\ now \in 0..MaxTime /\ current \in Sets /\ faults \in 0..MaxFaults
    /\ history \in Seq(Sets) /\ Len(history) = now + 1

\* A client that is ready was let in by a machine of its own version, uses a
\* resource of the project that has begun and is not over, the one asked for
\* or else a quantum one, and finds each of its two templates on one of its
\* two queues in the HEAppE project of that resource.
LoginIsSound ==
    \A c \in open :
        LET a == World.answer
            here == Site(a)
        IN  /\ Trusted(a.token) /\ a.member
            /\ \E r \in Range(a.resources) : \E s \in Range(r.assignments) :
                /\ <<r.name, s.location, s.url>> =
                       <<here.resource, here.location, here.url>>
                /\ r.window \notin {"undated", "early", "over"}
                /\ IF a.wanted = None
                   THEN r.quantum /\ r.kind \in Kinds
                   ELSE r.name = a.wanted /\ s.kind \in Kinds
                /\ SubSeq(a.machine[s.url].version, 1, 2) =
                       SubSeq(Version, 1, 2)
            /\ \A base \in Bases : \E scoped \in BOOLEAN :
                \E k \in Range(a.clusters[<<scoped, base>>]) :
                    /\ k.name = here.location
                    /\ \E n \in Range(k.nodes) : \E p \in Range(n.projects) :
                        /\ n.queue \in Queues
                        /\ p.accounting = here.resource
                        /\ <<scoped, base>> \in p.templates
                        /\ here.template[base] = <<n.queue, p.id>>

\* A job that HEAppE may start has its token and every file it needs, however
\* the uploads went and whichever of them failed.
QueuedIsComplete ==
    \A j \in Jobs :
        jobs[j].state \notin {"none", "CONFIGURING"} =>
            /\ jobs[j].token
            /\ \A f \in Needed(jobs[j].op) : jobs[j].up[f] = "sent"

\* When a call has returned or raised, no upload of its job is left behind in
\* the pool: nothing is written to the directory of a job afterwards.
UploadsEndWithTheirCall ==
    \A j \in Jobs :
        (\E f \in Files : jobs[j].up[f] \in {"queued", "sending"}) =>
            /\ jobs[j].state = "CONFIGURING"
            /\ \E c \in Callers : Uploading(c) /\ call[c].job = j

Waited(c, op) ==
    /\ call[c].op = op /\ call[c].arg = None
    /\ call[c].step = "wait"
    /\ Job(c).state = "FINISHED"

\* The default calibration set is at least as new as the call for it, and so
\* is the one that a new backend or Pulla is made of.
DefaultSetIsCurrent ==
    \A c \in Callers, op \in {"set", "init", "pulla"} :
        Waited(c, op) => Job(c).answer >= call[c].default

\* The architecture of the default set may be older than the call for it, but
\* not older than an entry of the service's cache may get.
ArchitectureAgeIsBounded ==
    \A c \in Callers :
        Waited(c, "arch") =>
            LET oldest == call[c].tick + 1 - TTL
            IN  Job(c).answer >=
                    (IF oldest < 0 THEN 1 ELSE history[oldest + 1])

\* Every call ends, whichever request fails and whatever the service does.
EveryCallEnds ==
    \A c \in Callers : call[c].op # "none" ~> call[c].op = "none"

=============================================================================
