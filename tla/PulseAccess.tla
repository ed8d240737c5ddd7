---------------------------- MODULE PulseAccess ----------------------------
(***************************************************************************)
(* Pulse-level access: a QProvider, shared by the threads of one program,  *)
(* with its cache of clients (src/qheappe_client/qprovider.py), and the    *)
(* HEAppEExecutor inside each QPulla it hands out, with its record of jobs *)
(* (src/qheappe_client/qpulla/heappe_iqm.py).                              *)
(*                                                                         *)
(* A thread blocks in each request while the others go on.  What a client  *)
(* does inside connect(), close() or a request is QClientSession's and     *)
(* Discovery's; here it is on a resource and it is up or not.              *)
(***************************************************************************)
EXTENDS Naturals, Sequences, FiniteSets

CONSTANTS
    Threads, Resources, None,
    Runs,          \* RunDefinition objects the program has built
    Circuits,      \* CircuitJobDefinition objects
    Worlds,        \* what the program does and what LEXIS grants
    MaxCalls, MaxJobs

Defs == Runs \cup Circuits
Asked == Resources \cup {None}
Jobs == 1..MaxJobs

ASSUME PulseAssumption ==
    /\ None \notin Resources \cup Defs /\ Runs \cap Circuits = {}
    /\ IsFiniteSet(Threads)
    /\ MaxCalls \in Nat /\ MaxJobs \in Nat
    /\ \A w \in DOMAIN Worlds :
        /\ Worlds[w].calls \in 0..MaxCalls /\ Worlds[w].jobs \in 0..MaxJobs
        /\ Worlds[w].pullas \in 0..MaxCalls /\ Worlds[w].closes \in Nat
        /\ Worlds[w].defs \subseteq Defs /\ Worlds[w].threads \subseteq Threads
        /\ Worlds[w].grants \in Seq(SUBSET Resources)
        /\ Worlds[w].grants # <<>>
        /\ Worlds[w].asked \subseteq Asked /\ Worlds[w].alone \subseteq BOOLEAN
        /\ Worlds[w].clears \in BOOLEAN /\ Worlds[w].shared \in BOOLEAN

VARIABLES
    world,
    granted,       \* the quantum resources of the project, as a position
    clients,       \* connected so far: resource, whether it is up
    cached,        \* QProvider._clients, 0 where there is no entry
    pullas,        \* handed out: what was asked for, the client, _jobs
    ids,           \* the run id inside each RunDefinition object
    stamps,        \* run ids drawn so far
    heappe,        \* jobs at HEAppE: the definition and the id in its payload
    call, calls    \* what each thread is at, calls begun

World == Worlds[world]

provider == <<clients, cached, pullas>>
payloads == <<ids, stamps>>
vars == <<world, granted, provider, payloads, heappe, call, calls>>

Job == DOMAIN heappe

\* HEAppE numbers tasks and jobs apart.
TaskOf(j) == MaxJobs + j

Kind(d) == IF d \in Circuits THEN "circuit" ELSE "run"

-----------------------------------------------------------------------------
(* Calls. *)

\* What `_jobs' says of a job that was not submitted here.
Foreign == [type |-> "run", task |-> 0, def |-> None]

NoCall == [pc |-> "idle", asked |-> None, alone |-> FALSE, client |-> 0,
           pulla |-> 0, def |-> None, id |-> 0, job |-> 0, had |-> Foreign,
           task |-> 0]

Begin(t, c) ==
    /\ t \in World.threads
    /\ call[t] = NoCall
    /\ calls < World.calls
    /\ calls' = calls + 1
    /\ call' = [call EXCEPT ![t] = c]

\* A call that never ends: nothing of it matters any more.
Lost == [NoCall EXCEPT !.pc = "lost"]

Go(t, pc) == call' = [call EXCEPT ![t].pc = pc]

Return(t) == call' = [call EXCEPT ![t] = NoCall]

Client(t) ==
    IF call[t].pulla = 0 THEN call[t].client ELSE pullas[call[t].pulla].client

Up(t) == clients[Client(t)].up

\* Where a call waits for a request on its client, and where for any.
OnClient == {"bind", "submit", "answer", "look", "fetch"}

Waiting == OnClient \cup {"connect"}

-----------------------------------------------------------------------------
(* QProvider. *)

\* Further arguments for the client keep it out of the cache.
GetPulla(t, asked, alone) ==
    /\ asked \in World.asked /\ alone \in World.alone
    /\ Len(pullas) < World.pullas
    /\ Begin(t, [NoCall EXCEPT !.pc = "choose", !.asked = asked,
                               !.alone = alone])
    /\ UNCHANGED <<world, granted, provider, payloads, heappe>>

\* mutant: a name without an entry falls back on the automatic choice.
FindOrFallBack(asked) ==
    IF cached[asked] # 0 THEN cached[asked] ELSE cached[None]

Find(asked) == cached[asked]

Usable(t) ==
    LET c == Find(call[t].asked)
    IN  ~call[t].alone /\ c # 0 /\ clients[c].up

Reuse(t) ==
    /\ call[t].pc = "choose"
    /\ Usable(t)
    /\ call' = [call EXCEPT ![t].pc = "bind", ![t].client = Find(call[t].asked)]
    /\ UNCHANGED <<world, granted, provider, payloads, heappe, calls>>

Open(t) ==
    /\ call[t].pc = "choose"
    /\ ~Usable(t)
    /\ Go(t, "connect")
    /\ UNCHANGED <<world, granted, provider, payloads, heappe, calls>>

\* LEXIS chooses only where there is one quantum resource.
Chosen(asked) ==
    LET all == World.grants[granted]
    IN  IF asked # None THEN all \cap {asked}
        ELSE {r \in all : all = {r}}

\* mutant: a client that was chosen automatically is cached under None only.
NamesAsked(t, r) == IF call[t].alone THEN {} ELSE {call[t].asked}

Names(t, r) == IF call[t].alone THEN {} ELSE {call[t].asked, r}

Connect(t) ==
    /\ call[t].pc = "connect"
    /\ \E r \in Chosen(call[t].asked) :
        clients' = Append(clients, [resource |-> r, up |-> TRUE])
    /\ call' = [call EXCEPT ![t].pc = "keep", ![t].client = Len(clients) + 1]
    /\ UNCHANGED <<world, granted, cached, pullas, payloads, heappe, calls>>

\* Meanwhile others may have looked, kept theirs or cleared the cache.
Keep(t) ==
    /\ call[t].pc = "keep"
    /\ LET c == call[t].client
           names == Names(t, clients[c].resource)
       IN  cached' = [n \in Asked |-> IF n \in names THEN c ELSE cached[n]]
    /\ Go(t, "bind")
    /\ UNCHANGED <<world, granted, clients, pullas, payloads, heappe, calls>>

\* The backend is looked at and a QPulla is made around a view of the client.
Bind(t) ==
    /\ call[t].pc = "bind"
    /\ Up(t)
    /\ pullas' = Append(pullas, [asked |-> call[t].asked,
                                 alone |-> call[t].alone,
                                 client |-> call[t].client, jobs |-> <<>>])
    /\ Return(t)
    /\ UNCHANGED <<world, granted, clients, cached, payloads, heappe, calls>>

ClearCache ==
    /\ World.clears
    /\ cached' = [n \in Asked |-> 0]
    /\ UNCHANGED <<world, granted, clients, pullas, payloads, heappe, call,
                   calls>>

\* The program got the client itself from get_client() and closes it.  All
\* views share its loop thread: a call that was handed to the loop as it
\* stops was accepted and is never answered; others raise.
Close(c) ==
    /\ Cardinality({d \in DOMAIN clients : ~clients[d].up}) < World.closes
    /\ clients[c].up
    /\ \A t \in Threads : call[t].pc = "keep" => call[t].client # c
    /\ clients' = [clients EXCEPT ![c].up = FALSE]
    /\ \E gone \in SUBSET {t \in Threads : call[t].pc \in OnClient
                                          /\ Client(t) = c} :
        call' = [t \in Threads |-> IF t \in gone THEN Lost ELSE call[t]]
    /\ UNCHANGED <<world, granted, cached, pullas, payloads, heappe, calls>>

\* The resources of the project change.
Regrant ==
    /\ granted < Len(World.grants)
    /\ granted' = granted + 1
    /\ UNCHANGED <<world, provider, payloads, heappe, call, calls>>

-----------------------------------------------------------------------------
(* HEAppEExecutor.submit_job. *)

\* mutant: a definition that has its ids keeps them.
StampOnce(d) ==
    IF d \in Runs /\ ids[d] = 0
    THEN stamps' = stamps + 1 /\ ids' = [ids EXCEPT ![d] = stamps + 1]
    ELSE UNCHANGED payloads

\* The object itself gets fresh ids.
Stamp(d) ==
    IF d \in Runs
    THEN stamps' = stamps + 1 /\ ids' = [ids EXCEPT ![d] = stamps + 1]
    ELSE UNCHANGED payloads

\* Unless the world shares them, no two threads submit one object at once.
SubmitJob(t, p, d) ==
    /\ d \in World.defs
    /\ Len(heappe) < World.jobs
    /\ ~World.shared => \A u \in Threads : call[u].def # d
    /\ Begin(t, [NoCall EXCEPT !.pc = "serialize", !.pulla = p, !.def = d])
    /\ Stamp(d)
    /\ UNCHANGED <<world, granted, provider, heappe>>

\* Another thread may have stamped the object since.
Serialize(t) ==
    /\ call[t].pc = "serialize"
    /\ call' = [call EXCEPT ![t].pc = "submit",
                    ![t].id = IF call[t].def \in Runs THEN ids[call[t].def]
                                                      ELSE 0]
    /\ UNCHANGED <<world, granted, provider, payloads, heappe, calls>>

\* CreateAndSubmitJob reaches HEAppE.
Accept(t) ==
    /\ call[t].pc = "submit"
    /\ Up(t) /\ Len(heappe) < World.jobs
    /\ heappe' = Append(heappe, [def |-> call[t].def, id |-> call[t].id])
    /\ call' = [call EXCEPT ![t].pc = "answer", ![t].job = Len(heappe) + 1]
    /\ UNCHANGED <<world, granted, provider, payloads, calls>>

\* It may never be answered, or without the number of the job: Fail.
Answer(t) ==
    /\ call[t].pc = "answer"
    /\ Up(t)
    /\ Go(t, "record")
    /\ UNCHANGED <<world, granted, provider, payloads, heappe, calls>>

Remember(p, j, record) ==
    pullas' = [pullas EXCEPT ![p].jobs =
        [i \in DOMAIN @ \cup {j} |-> IF i = j THEN record ELSE @[i]]]

\* The answer may have no tasks yet.
Record(t) ==
    /\ call[t].pc = "record"
    /\ \E task \in {0, TaskOf(call[t].job)} :
        Remember(call[t].pulla, call[t].job,
                 [type |-> Kind(call[t].def), task |-> task,
                  def |-> call[t].def])
    /\ Return(t)
    /\ UNCHANGED <<world, granted, clients, cached, payloads, heappe, calls>>

-----------------------------------------------------------------------------
(* The artifacts of a job: `_task_id', then GetTaskArtifact. *)

Known(p, j) ==
    IF j \in DOMAIN pullas[p].jobs THEN pullas[p].jobs[j] ELSE Foreign

GetArtifact(t, p, j) ==
    /\ LET had == Known(p, j)
       IN  Begin(t, [NoCall EXCEPT !.pulla = p, !.job = j, !.had = had,
                        !.task = had.task,
                        !.pc = IF had.task = 0 THEN "look" ELSE "fetch"])
    /\ UNCHANGED <<world, granted, provider, payloads, heappe>>

\* mutant: the record of a job that is looked up starts anew.
RecordAnew(t) == [Foreign EXCEPT !.task = TaskOf(call[t].job)]

\* mutant: a job that is looked up counts as a run.
RecordAsRun(t) ==
    [call[t].had EXCEPT !.type = "run", !.task = TaskOf(call[t].job)]

\* What was read before the request is stored after it.
RecordOf(t) == [call[t].had EXCEPT !.task = TaskOf(call[t].job)]

LookUp(t) ==
    /\ call[t].pc = "look"
    /\ Up(t)
    /\ Remember(call[t].pulla, call[t].job, RecordOf(t))
    /\ call' = [call EXCEPT ![t].pc = "fetch",
                            ![t].task = RecordOf(t).task]
    /\ UNCHANGED <<world, granted, clients, cached, payloads, heappe, calls>>

Fetch(t) ==
    /\ call[t].pc = "fetch"
    /\ Up(t)
    /\ Return(t)
    /\ UNCHANGED <<world, granted, provider, payloads, heappe, calls>>

\* mutant: a client that is down is waited for.
FailIfUp(t) ==
    /\ call[t].pc \in Waiting
    /\ call[t].pc # "connect" => Up(t)
    /\ Return(t)
    /\ UNCHANGED <<world, granted, provider, payloads, heappe, calls>>

\* A request that fails raises, and nothing is retried: the client is down,
\* HEAppE or LEXIS refuses, the backend is not of the IQM 36 stack, a job
\* that is looked up has no tasks.
Fail(t) ==
    /\ call[t].pc \in Waiting
    /\ Return(t)
    /\ UNCHANGED <<world, granted, provider, payloads, heappe, calls>>

-----------------------------------------------------------------------------
Init ==
    /\ world \in DOMAIN Worlds
    /\ granted = 1
    /\ clients = <<>> /\ pullas = <<>> /\ heappe = <<>>
    /\ cached = [n \in Asked |-> 0]
    /\ ids = [d \in Runs |-> 0] /\ stamps = 0
    /\ call = [t \in Threads |-> NoCall] /\ calls = 0

Start(t) ==
    \/ \E asked \in Asked, alone \in BOOLEAN : GetPulla(t, asked, alone)
    \/ \E p \in DOMAIN pullas :
        \/ \E d \in Defs : SubmitJob(t, p, d)
        \/ \E j \in Job : GetArtifact(t, p, j)

Step(t) ==
    \/ Reuse(t) \/ Open(t) \/ Connect(t) \/ Keep(t) \/ Bind(t)
    \/ Serialize(t) \/ Accept(t) \/ Answer(t) \/ Record(t)
    \/ LookUp(t) \/ Fetch(t)
    \/ Fail(t)

Next ==
    \/ \E t \in Threads : Start(t) \/ Step(t)
    \/ ClearCache \/ Regrant
    \/ \E c \in DOMAIN clients : Close(c)

Spec == Init /\ [][Next]_vars

\* Every request is answered or times out, or raises as its client is down,
\* unless it went to a loop that was being stopped: no step is left to a call
\* that is lost.
FairSpec == Spec /\ \A t \in Threads : WF_vars(Step(t))

-----------------------------------------------------------------------------
(* What has to hold. *)

Tasks == {0} \cup {TaskOf(j) : j \in Jobs}

RecordOK == [type : {"run", "circuit"}, task : Tasks, def : Defs \cup {None}]

ClientOK == [resource : Resources, up : BOOLEAN]

PullaOK == [asked : Asked, alone : BOOLEAN, client : Nat,
            jobs : UNION {[js -> RecordOK] : js \in SUBSET Jobs}]

CallOK == [pc : {"idle", "choose", "connect", "keep", "bind", "serialize",
                 "submit", "answer", "record", "look", "fetch", "lost"},
           asked : Asked, alone : BOOLEAN, client : Nat, pulla : Nat,
           def : Defs \cup {None}, id : Nat, job : Jobs \cup {0},
           had : RecordOK, task : Tasks]

PulseTypeOK ==
    /\ world \in DOMAIN Worlds
    /\ granted \in DOMAIN World.grants
    /\ clients \in Seq(ClientOK)
    /\ cached \in [Asked -> {0} \cup DOMAIN clients]
    /\ pullas \in Seq(PullaOK)
    /\ \A p \in DOMAIN pullas :
        /\ pullas[p].client \in DOMAIN clients
        /\ DOMAIN pullas[p].jobs \subseteq Job
    /\ ids \in [Runs -> Nat] /\ stamps \in Nat
    /\ heappe \in Seq([def : Defs, id : Nat]) /\ Len(heappe) <= MaxJobs
    /\ call \in [Threads -> CallOK]
    /\ calls \in 0..MaxCalls

\* A QPulla that was asked for by name runs its jobs on that resource, however
\* the cache was filled, emptied and refilled: by the automatic choice, by
\* other threads, before and after the resources of the project changed.
PullaIsOnItsResource ==
    \A p \in DOMAIN pullas :
        pullas[p].asked # None =>
            clients[pullas[p].client].resource = pullas[p].asked

\* A client made with arguments of its own serves the one it was made for:
\* "New clients with extra kwargs aren't cached for better isolation".
AloneIsIsolated ==
    \A p, q \in DOMAIN pullas :
        pullas[p].alone /\ pullas[q].client = pullas[p].client => p = q

\* "None (auto-selected) and explicit name share one client": as long as no
\* client was closed, the cache was not cleared and one thread asks, who asks
\* for a resource by its name gets the client that the automatic choice has
\* logged in before.  (The other way round there are two logins.)
NameSharesTheChosen ==
    /\ Cardinality(World.threads) = 1
    /\ ~World.clears
    /\ \A c \in DOMAIN clients : clients[c].up
    => \A p, q \in {p \in DOMAIN pullas : ~pullas[p].alone} :
        /\ p < q
        /\ pullas[p].asked = None
        /\ pullas[q].asked = clients[pullas[p].client].resource
        => pullas[q].client = pullas[p].client

\* What an executor remembers of a job is what HEAppE has: the task is the
\* job's own, and a definition that is kept is the one that was submitted,
\* under its own type, whoever else looks the job up and through whichever
\* QPulla.
RecordsAreTrue ==
    \A p \in DOMAIN pullas : \A j \in DOMAIN pullas[p].jobs :
        LET r == pullas[p].jobs[j]
        IN  /\ r.task \in {0, TaskOf(j)}
            /\ r.def # None => r.def = heappe[j].def /\ r.type = Kind(r.def)

\* The definition of a job that was submitted here stays known, unless the
\* job was being looked up from before its submission was recorded: that
\* look-up stores what it read at first.
PayloadIsKept ==
    [][\A p \in DOMAIN pullas : \A j \in DOMAIN pullas[p].jobs :
        LET was == pullas[p].jobs[j]
        IN  was.def # None =>
            \/ pullas'[p].jobs[j].def = was.def
            \/ \E t \in Threads :
                /\ call[t].pc = "look" /\ call[t].pulla = p
                /\ call[t].job = j /\ call[t].had = Foreign]_vars

\* Each submission of a run has ids no other job has, also when the program
\* submits one definition again, or again after an answer was lost; two
\* threads that submit the same object at once are the exception.
RunIdsAreFresh ==
    ~World.shared =>
        \A i, j \in Job :
            heappe[i].def \in Runs /\ heappe[j].id = heappe[i].id => i = j

\* Every call of the provider and of an executor returns or raises, whichever
\* request fails, and also if its client was closed before it got there;
\* unless it was waiting for a request when another thread closed the client.
EveryAccessEnds ==
    \A t \in Threads :
        call[t].pc # "idle" ~> call[t].pc \in {"idle", "lost"}
=============================================================================
