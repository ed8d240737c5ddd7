-------------------------- MODULE PulseAccessProofs --------------------------
(***************************************************************************)
(* What QProvider and HEAppEExecutor keep for any number of threads,       *)
(* resources, definitions and jobs.  The inductive invariant says what a   *)
(* call has in hand between two requests: the client it is about to bind,  *)
(* the job it is about to record, the record it has read.                  *)
(***************************************************************************)
EXTENDS PulseAccess, FiniteSetTheorems, TLAPS

LEMMA WorldType ==
    ASSUME PulseTypeOK
    PROVE  /\ World.calls \in 0..MaxCalls /\ World.jobs \in 0..MaxJobs
           /\ World.asked \subseteq Asked /\ World.alone \subseteq BOOLEAN
           /\ World.defs \subseteq Defs /\ World.threads \subseteq Threads
           /\ World.grants \in Seq(SUBSET Resources)
           /\ MaxCalls \in Nat /\ MaxJobs \in Nat
BY PulseAssumption DEF World, PulseTypeOK

LEMMA NoneIsApart == None \notin Resources /\ None \notin Defs
BY PulseAssumption

\* What `_authorize_lexis_resource' returns is a resource, and the one that
\* was asked for by name.
LEMMA ChosenIsAsked ==
    ASSUME PulseTypeOK, NEW asked \in Asked, NEW r \in Chosen(asked)
    PROVE  r \in Resources /\ (asked \in Resources => r = asked)
<1>1. World.grants[granted] \subseteq Resources
    BY WorldType DEF PulseTypeOK
<1> QED
    BY <1>1, NoneIsApart DEF Chosen, Asked

LEMMA ForeignType == Foreign \in RecordOK /\ Foreign.task = 0
BY DEF Foreign, RecordOK, Tasks

LEMMA NoCallType == NoCall \in CallOK /\ NoCall.pc = "idle" /\ NoCall.def = None
BY ForeignType DEF NoCall, CallOK, Asked, Tasks

LEMMA LostType == Lost \in CallOK /\ Lost.pc = "lost" /\ Lost.def = None
BY NoCallType DEF Lost, NoCall, CallOK

LEMMA TaskType ==
    ASSUME NEW j \in Jobs
    PROVE  TaskOf(j) \in Tasks /\ TaskOf(j) # 0 /\ TaskOf(j) \in Nat
BY PulseAssumption DEF Tasks, TaskOf, Jobs

(***************************************************************************)
(* What storing the record of a job changes.                               *)
(***************************************************************************)
LEMMA Remembering ==
    ASSUME pullas \in Seq(PullaOK), NEW p \in DOMAIN pullas, NEW j \in Jobs,
           NEW record \in RecordOK, Remember(p, j, record)
    PROVE  /\ pullas' \in Seq(PullaOK) /\ DOMAIN pullas' = DOMAIN pullas
           /\ \A q \in DOMAIN pullas :
               /\ pullas'[q].asked = pullas[q].asked
               /\ pullas'[q].alone = pullas[q].alone
               /\ pullas'[q].client = pullas[q].client
               /\ q # p => pullas'[q].jobs = pullas[q].jobs
           /\ DOMAIN pullas'[p].jobs = DOMAIN pullas[p].jobs \cup {j}
           /\ pullas'[p].jobs[j] = record
           /\ \A i \in DOMAIN pullas[p].jobs :
               i # j => pullas'[p].jobs[i] = pullas[p].jobs[i]
<1> DEFINE old == pullas[p].jobs
           new == [i \in DOMAIN old \cup {j} |-> IF i = j THEN record
                                                         ELSE old[i]]
<1>1. pullas[p] \in PullaOK
    OBVIOUS
<1>2. PICK js \in SUBSET Jobs : old \in [js -> RecordOK]
    BY <1>1 DEF PullaOK
<1>3. new \in [js \cup {j} -> RecordOK] /\ js \cup {j} \in SUBSET Jobs
    BY <1>2
<1>4. new \in UNION {[ks -> RecordOK] : ks \in SUBSET Jobs}
    BY <1>3
<1>5. pullas' = [pullas EXCEPT ![p].jobs = new]
    BY DEF Remember
<1>6. /\ DOMAIN new = DOMAIN old \cup {j} /\ new[j] = record
      /\ \A i \in DOMAIN old : i # j => new[i] = old[i]
    OBVIOUS
<1> HIDE DEF new, old
<1>7. [pullas[p] EXCEPT !.jobs = new] \in PullaOK
    BY <1>1, <1>4 DEF PullaOK
<1>8. pullas' = [pullas EXCEPT ![p] = [pullas[p] EXCEPT !.jobs = new]]
    BY <1>5
<1>9. pullas' \in Seq(PullaOK) /\ DOMAIN pullas' = DOMAIN pullas
    BY <1>7, <1>8
<1>10. pullas'[p].jobs = new
    BY <1>1, <1>8 DEF PullaOK
<1>11. \A q \in DOMAIN pullas :
          /\ pullas'[q].asked = pullas[q].asked
          /\ pullas'[q].alone = pullas[q].alone
          /\ pullas'[q].client = pullas[q].client
          /\ q # p => pullas'[q].jobs = pullas[q].jobs
    BY <1>8, <1>1 DEF PullaOK
<1> QED
    BY <1>6, <1>9, <1>10, <1>11 DEF old

-----------------------------------------------------------------------------
(***************************************************************************)
(* The invariant.                                                          *)
(***************************************************************************)
Submitting == {"serialize", "submit", "answer", "record"}

\* Where a call has a client that it has not handed out yet.
Held == {"keep", "bind"}

CallInHand(c) ==
    /\ c.def \in Defs => c.pc \in Submitting
    /\ c.pc \in Held => c.client \in DOMAIN clients
    /\ c.pc \in Submitting \cup {"look", "fetch"} => c.pulla \in DOMAIN pullas
    /\ c.pc \in Submitting => c.def \in Defs
    /\ c.pc \in {"answer", "record", "look", "fetch"} => c.job \in Job
    /\ c.pc \in {"answer", "record"} => heappe[c.job].def = c.def
    /\ c.pc = "look" =>
           /\ c.had.task = 0
           /\ c.had.def = None => c.had = Foreign
           /\ c.had.def # None => /\ c.had.def = heappe[c.job].def
                                  /\ c.had.type = Kind(c.had.def)
    /\ c.pc = "fetch" => c.task = TaskOf(c.job)

InHand == \A t \in Threads : CallInHand(call[t])

RecordsInHand ==
    \A p \in DOMAIN pullas : \A j \in DOMAIN pullas[p].jobs :
        LET r == pullas[p].jobs[j]
        IN  r.def = None => r.type = "run" /\ r.task # 0

OnItsResource ==
    /\ \A r \in Resources :
        cached[r] # 0 => clients[cached[r]].resource = r
    /\ \A t \in Threads :
        call[t].pc \in Held /\ call[t].asked \in Resources =>
            clients[call[t].client].resource = call[t].asked
    /\ PullaIsOnItsResource

Isolated ==
    /\ \A t \in Threads :
        call[t].pc \in Held /\ call[t].alone =>
            /\ \A n \in Asked : cached[n] # call[t].client
            /\ \A u \in Threads : call[u].pc \in Held /\ u # t =>
                call[u].client # call[t].client
            /\ \A p \in DOMAIN pullas : pullas[p].client # call[t].client
    /\ \A p \in DOMAIN pullas :
        pullas[p].alone =>
            /\ \A n \in Asked : cached[n] # pullas[p].client
            /\ \A u \in Threads : call[u].pc \in Held =>
                call[u].client # pullas[p].client
    /\ AloneIsIsolated

USE DEF Submitting, Held

ExecutorInv == PulseTypeOK /\ InHand /\ RecordsAreTrue /\ RecordsInHand

ProviderInv == OnItsResource /\ Isolated

-----------------------------------------------------------------------------
LEMMA PulseInit ==
    ASSUME Init
    PROVE  ExecutorInv /\ ProviderInv
<1>1. \A t \in Threads : call[t] = NoCall
    BY DEF Init
<1>2. PulseTypeOK
  <2>1. /\ world \in DOMAIN Worlds
        /\ 1 \in DOMAIN Worlds[world].grants
      BY PulseAssumption DEF Init
  <2> QED
      BY <2>1, NoCallType, PulseAssumption DEF Init, PulseTypeOK, World
<1>3. InHand
  <2>1. CallInHand(NoCall)
      BY NoCallType, NoneIsApart DEF CallInHand
  <2> QED
      BY <1>1, <2>1 DEF InHand
<1>4. RecordsAreTrue /\ RecordsInHand
    BY DEF Init, RecordsAreTrue, RecordsInHand
<1>5. OnItsResource /\ Isolated
    BY <1>1, NoCallType DEF Init, OnItsResource, Isolated, Asked,
       PullaIsOnItsResource, AloneIsIsolated
<1> QED
    BY <1>2, <1>3, <1>4, <1>5 DEF ExecutorInv, ProviderInv

-----------------------------------------------------------------------------
(***************************************************************************)
(* Clients, QPullas and jobs are only added to: a client keeps its         *)
(* resource, a QPulla what it was asked for, a job its payload.            *)
(***************************************************************************)
Grown ==
    /\ DOMAIN clients \subseteq DOMAIN clients'
    /\ \A c \in DOMAIN clients : clients'[c].resource = clients[c].resource
    /\ DOMAIN pullas \subseteq DOMAIN pullas'
    /\ \A p \in DOMAIN pullas :
        /\ pullas'[p].asked = pullas[p].asked
        /\ pullas'[p].alone = pullas[p].alone
        /\ pullas'[p].client = pullas[p].client
    /\ Job \subseteq Job'
    /\ \A j \in Job : heappe'[j] = heappe[j]

LEMMA RecordFacts ==
    ASSUME PulseTypeOK, InHand, NEW t \in Threads, Record(t)
    PROVE  \E task \in {0, TaskOf(call[t].job)} :
               /\ call[t].pulla \in DOMAIN pullas /\ call[t].job \in Jobs
               /\ call[t].job \in Job
               /\ call[t].def \in Defs
               /\ heappe[call[t].job].def = call[t].def
               /\ [type |-> Kind(call[t].def), task |-> task,
                   def |-> call[t].def] \in RecordOK
               /\ Remember(call[t].pulla, call[t].job,
                           [type |-> Kind(call[t].def), task |-> task,
                            def |-> call[t].def])
<1>1. PICK task \in {0, TaskOf(call[t].job)} :
          Remember(call[t].pulla, call[t].job,
                   [type |-> Kind(call[t].def), task |-> task,
                    def |-> call[t].def])
    BY DEF Record
<1>2. /\ call[t].pulla \in DOMAIN pullas /\ call[t].def \in Defs
      /\ call[t].job \in Job /\ heappe[call[t].job].def = call[t].def
    BY DEF Record, InHand, CallInHand
<1>3. call[t].job \in Jobs
    BY <1>2, PulseAssumption DEF Job, Jobs, PulseTypeOK
<1>4. task \in Tasks
    BY <1>3, TaskType DEF Tasks
<1>5. [type |-> Kind(call[t].def), task |-> task, def |-> call[t].def]
          \in RecordOK
    BY <1>2, <1>4 DEF RecordOK, Kind
<1> QED
    BY <1>1, <1>2, <1>3, <1>5

LEMMA LookUpFacts ==
    ASSUME PulseTypeOK, InHand, NEW t \in Threads, LookUp(t)
    PROVE  /\ call[t].pulla \in DOMAIN pullas /\ call[t].job \in Jobs
           /\ call[t].job \in Job
           /\ RecordOf(t) \in RecordOK
           /\ RecordOf(t).task = TaskOf(call[t].job)
           /\ RecordOf(t).def = call[t].had.def
           /\ RecordOf(t).type = call[t].had.type
           /\ Remember(call[t].pulla, call[t].job, RecordOf(t))
<1>1. call[t].pulla \in DOMAIN pullas /\ call[t].job \in Job
    BY DEF LookUp, InHand, CallInHand
<1>2. call[t].job \in Jobs
    BY <1>1, PulseAssumption DEF Job, Jobs, PulseTypeOK
<1>3. call[t].had \in RecordOK
    BY DEF PulseTypeOK, CallOK
<1>4. /\ RecordOf(t) \in RecordOK
      /\ RecordOf(t).task = TaskOf(call[t].job)
      /\ RecordOf(t).def = call[t].had.def
      /\ RecordOf(t).type = call[t].had.type
    BY <1>2, <1>3, TaskType DEF RecordOf, RecordOK
<1> QED
    BY <1>1, <1>2, <1>4 DEF LookUp

\* A call that begins is at one of four places, and nothing else is there yet.
LEMMA StartFacts ==
    ASSUME NEW t \in Threads, Start(t)
    PROVE  /\ UNCHANGED <<world, granted, clients, cached, pullas, heappe>>
           /\ \E c : /\ call' = [call EXCEPT ![t] = c]
                    /\ c.pc \in {"choose", "serialize", "look", "fetch"}
<1>1. ASSUME NEW asked \in Asked, NEW alone \in BOOLEAN,
             GetPulla(t, asked, alone)
      PROVE  /\ UNCHANGED <<world, granted, clients, cached, pullas, heappe>>
             /\ \E c : /\ call' = [call EXCEPT ![t] = c]
                      /\ c.pc \in {"choose", "serialize", "look", "fetch"}
  <2>1. PICK c : c = [NoCall EXCEPT !.pc = "choose", !.asked = asked,
                                    !.alone = alone]
      OBVIOUS
  <2>2. c.pc = "choose"
      BY <2>1 DEF NoCall
  <2>3. call' = [call EXCEPT ![t] = c]
      BY <1>1, <2>1 DEF GetPulla, Begin
  <2>4. UNCHANGED <<world, granted, clients, cached, pullas, heappe>>
      BY <1>1 DEF GetPulla, provider
  <2> QED
      BY <2>2, <2>3, <2>4
<1>2. ASSUME NEW p \in DOMAIN pullas, NEW d \in Defs, SubmitJob(t, p, d)
      PROVE  /\ UNCHANGED <<world, granted, clients, cached, pullas, heappe>>
             /\ \E c : /\ call' = [call EXCEPT ![t] = c]
                      /\ c.pc \in {"choose", "serialize", "look", "fetch"}
  <2>1. PICK c : c = [NoCall EXCEPT !.pc = "serialize", !.pulla = p, !.def = d]
      OBVIOUS
  <2>2. c.pc = "serialize"
      BY <2>1 DEF NoCall
  <2>3. call' = [call EXCEPT ![t] = c]
      BY <1>2, <2>1 DEF SubmitJob, Begin
  <2>4. UNCHANGED <<world, granted, clients, cached, pullas, heappe>>
      BY <1>2 DEF SubmitJob, provider
  <2> QED
      BY <2>2, <2>3, <2>4
<1>3. ASSUME NEW p \in DOMAIN pullas, NEW j \in Job, GetArtifact(t, p, j)
      PROVE  /\ UNCHANGED <<world, granted, clients, cached, pullas, heappe>>
             /\ \E c : /\ call' = [call EXCEPT ![t] = c]
                      /\ c.pc \in {"choose", "serialize", "look", "fetch"}
  <2>1. PICK had : had = Known(p, j)
      OBVIOUS
  <2>2. PICK c : c = [NoCall EXCEPT !.pulla = p, !.job = j, !.had = had,
                          !.task = had.task,
                          !.pc = IF had.task = 0 THEN "look" ELSE "fetch"]
      OBVIOUS
  <2>3. c.pc \in {"look", "fetch"}
      BY <2>2 DEF NoCall
  <2>4. call' = [call EXCEPT ![t] = c]
      BY <1>3, <2>1, <2>2 DEF GetArtifact, Begin
  <2>5. UNCHANGED <<world, granted, clients, cached, pullas, heappe>>
      BY <1>3 DEF GetArtifact, provider
  <2> QED
      BY <2>3, <2>4, <2>5
<1> QED
    BY <1>1, <1>2, <1>3 DEF Start

LEMMA Growth ==
    ASSUME PulseTypeOK, InHand, [Next]_vars
    PROVE  Grown
<1> USE DEF Grown, Job
<1>1. ASSUME NEW t \in Threads, Record(t)
      PROVE  Grown
  <2>1. PICK task \in {0, TaskOf(call[t].job)} :
            /\ call[t].pulla \in DOMAIN pullas /\ call[t].job \in Jobs
            /\ [type |-> Kind(call[t].def), task |-> task,
                def |-> call[t].def] \in RecordOK
            /\ Remember(call[t].pulla, call[t].job,
                        [type |-> Kind(call[t].def), task |-> task,
                         def |-> call[t].def])
      BY <1>1, RecordFacts
  <2>2. pullas \in Seq(PullaOK)
      BY DEF PulseTypeOK
  <2>3. UNCHANGED <<clients, heappe>>
      BY <1>1 DEF Record
  <2>4. /\ DOMAIN pullas' = DOMAIN pullas
        /\ \A q \in DOMAIN pullas :
              /\ pullas'[q].asked = pullas[q].asked
              /\ pullas'[q].alone = pullas[q].alone
              /\ pullas'[q].client = pullas[q].client
      BY <2>1, <2>2, Remembering
  <2> QED
      BY <2>3, <2>4
<1>2. ASSUME NEW t \in Threads, LookUp(t)
      PROVE  Grown
  <2>1. /\ DOMAIN pullas' = DOMAIN pullas
        /\ \A q \in DOMAIN pullas :
              /\ pullas'[q].asked = pullas[q].asked
              /\ pullas'[q].alone = pullas[q].alone
              /\ pullas'[q].client = pullas[q].client
      BY <1>2, LookUpFacts, Remembering DEF PulseTypeOK
  <2>2. UNCHANGED <<clients, heappe>>
      BY <1>2 DEF LookUp
  <2> QED
      BY <2>1, <2>2
<1>3. ASSUME NEW t \in Threads, Connect(t)
      PROVE  Grown
  <2>1. UNCHANGED <<pullas, heappe>>
      BY <1>3 DEF Connect
  <2>2. PICK r : clients' = Append(clients, [resource |-> r, up |-> TRUE])
      BY <1>3 DEF Connect
  <2>3. clients \in Seq(ClientOK)
      BY DEF PulseTypeOK
  <2> QED
      BY <2>1, <2>2, <2>3
<1>4. ASSUME NEW t \in Threads, Bind(t)
      PROVE  Grown
  <2>1. UNCHANGED <<clients, heappe>>
      BY <1>4 DEF Bind
  <2>2. PICK x : pullas' = Append(pullas, x)
      BY <1>4 DEF Bind
  <2>3. pullas \in Seq(PullaOK)
      BY DEF PulseTypeOK
  <2> QED
      BY <2>1, <2>2, <2>3
<1>5. ASSUME NEW t \in Threads, Accept(t)
      PROVE  Grown
  <2>1. UNCHANGED <<clients, pullas>>
      BY <1>5 DEF Accept, provider
  <2>2. PICK x : heappe' = Append(heappe, x)
      BY <1>5 DEF Accept
  <2>3. heappe \in Seq([def : Defs, id : Nat])
      BY DEF PulseTypeOK
  <2> QED
      BY <2>1, <2>2, <2>3
<1>6. ASSUME NEW c \in DOMAIN clients, Close(c)
      PROVE  Grown
  <2>1. UNCHANGED <<pullas, heappe>>
      BY <1>6 DEF Close
  <2>2. clients' = [clients EXCEPT ![c].up = FALSE]
      BY <1>6 DEF Close
  <2>3. clients \in Seq(ClientOK)
      BY DEF PulseTypeOK
  <2>4. \A d \in DOMAIN clients : clients[d] \in ClientOK
      BY <2>3
  <2> QED
      BY <2>1, <2>2, <2>4 DEF ClientOK
<1>7. ASSUME UNCHANGED <<clients, pullas, heappe>>
      PROVE  Grown
    BY <1>7
<1>8. ASSUME NEW t \in Threads, Start(t)
      PROVE  UNCHANGED <<clients, pullas, heappe>>
    BY <1>8, StartFacts
<1>9. ASSUME NEW t \in Threads,
             \/ Reuse(t) \/ Open(t) \/ Keep(t) \/ Serialize(t)
             \/ Answer(t) \/ Fetch(t) \/ Fail(t)
      PROVE  UNCHANGED <<clients, pullas, heappe>>
    BY <1>9 DEF Reuse, Open, Keep, Serialize, Answer, Fetch, Fail, provider
<1>10. ClearCache \/ Regrant \/ UNCHANGED vars
           => UNCHANGED <<clients, pullas, heappe>>
    BY DEF ClearCache, Regrant, provider, vars
<1> QED
    BY <1>1, <1>2, <1>3, <1>4, <1>5, <1>6, <1>7, <1>8, <1>9, <1>10
       DEF Next, Step

-----------------------------------------------------------------------------
(***************************************************************************)
(* Types are kept by every step.                                           *)
(***************************************************************************)
LEMMA CallsTyped ==
    ASSUME PulseTypeOK, NEW t \in Threads, NEW c \in CallOK,
           call' = [call EXCEPT ![t] = c]
    PROVE  call' \in [Threads -> CallOK]
BY DEF PulseTypeOK

LEMMA IdsTyped ==
    ASSUME PulseTypeOK, NEW d \in Defs, Stamp(d)
    PROVE  ids' \in [Runs -> Nat] /\ stamps' \in Nat
<1>1. ids \in [Runs -> Nat] /\ stamps \in Nat
    BY DEF PulseTypeOK
<1>2. CASE d \in Runs
  <2>1. stamps' = stamps + 1 /\ ids' = [ids EXCEPT ![d] = stamps + 1]
      BY <1>2 DEF Stamp
  <2>2. stamps + 1 \in Nat
      BY <1>1
  <2> QED
      BY <1>1, <2>1, <2>2
<1>3. CASE d \notin Runs
    BY <1>1, <1>3 DEF Stamp, payloads
<1> QED
    BY <1>2, <1>3

\* A call that begins or goes on: nothing but `call' and `calls' changes.
CallMoves ==
    /\ UNCHANGED <<world, granted, provider, payloads, heappe>>
    /\ call' \in [Threads -> CallOK]
    /\ calls' \in 0..MaxCalls

LEMMA BeginTyped ==
    ASSUME PulseTypeOK, NEW t, NEW c \in CallOK, Begin(t, c)
    PROVE  /\ t \in Threads /\ call[t] = NoCall
           /\ call' = [call EXCEPT ![t] = c]
           /\ call' \in [Threads -> CallOK] /\ calls' \in 0..MaxCalls
<1>1. t \in Threads /\ World.calls \in 0..MaxCalls /\ MaxCalls \in Nat
    BY WorldType DEF Begin
<1>2. calls \in 0..MaxCalls /\ calls < World.calls /\ calls' = calls + 1
    BY DEF PulseTypeOK, Begin
<1>3. calls' \in 0..MaxCalls
    BY <1>1, <1>2
<1>4. call[t] = NoCall /\ call' = [call EXCEPT ![t] = c]
    BY DEF Begin
<1>5. call' \in [Threads -> CallOK]
    BY <1>1, <1>4, CallsTyped
<1> QED
    BY <1>1, <1>3, <1>4, <1>5

\* A call that goes on in a place of the program.
LEMMA GoTyped ==
    ASSUME PulseTypeOK, NEW t \in Threads,
           NEW pc \in {"connect", "bind", "record"}, Go(t, pc)
    PROVE  /\ call' \in [Threads -> CallOK]
           /\ call' = [call EXCEPT ![t] = [call[t] EXCEPT !.pc = pc]]
<1>1. call[t] \in CallOK /\ call \in [Threads -> CallOK]
    BY DEF PulseTypeOK
<1>2. call' = [call EXCEPT ![t] = [call[t] EXCEPT !.pc = pc]]
    BY <1>1 DEF Go
<1>3. [call[t] EXCEPT !.pc = pc] \in CallOK
    BY <1>1 DEF CallOK
<1> QED
    BY <1>2, <1>3, CallsTyped

\* The calls that are lost to the loop of a client that is closed.
LEMMA CloseMoves ==
    ASSUME PulseTypeOK, NEW c \in DOMAIN clients, Close(c)
    PROVE  /\ call' \in [Threads -> CallOK]
           /\ \A u \in Threads :
                  \/ call'[u] = call[u]
                  \/ /\ call'[u] = Lost /\ call[u].pc \in OnClient
                     /\ Client(u) = c
<1>1. PICK gone \in SUBSET {u \in Threads : call[u].pc \in OnClient
                                            /\ Client(u) = c} :
          call' = [u \in Threads |-> IF u \in gone THEN Lost ELSE call[u]]
    BY DEF Close
<1> QED
    BY <1>1, LostType DEF PulseTypeOK

LEMMA ReturnTyped ==
    ASSUME PulseTypeOK, NEW t \in Threads, Return(t)
    PROVE  call' \in [Threads -> CallOK]
BY NoCallType, CallsTyped DEF Return

LEMMA MovesKeepTypes ==
    ASSUME PulseTypeOK, CallMoves
    PROVE  PulseTypeOK'
BY DEF PulseTypeOK, CallMoves, provider, payloads, World, Job

LEMMA TypeNext ==
    ASSUME PulseTypeOK, InHand, [Next]_vars
    PROVE  PulseTypeOK'
<1>1. /\ clients \in Seq(ClientOK) /\ pullas \in Seq(PullaOK)
      /\ heappe \in Seq([def : Defs, id : Nat])
      /\ call \in [Threads -> CallOK]
      /\ \A t \in Threads : call[t] \in CallOK
    BY DEF PulseTypeOK
<1>2. Grown
    BY Growth
<1>3. ASSUME NEW t \in Threads, NEW asked \in Asked, NEW alone \in BOOLEAN,
             GetPulla(t, asked, alone)
      PROVE  CallMoves
  <2> DEFINE c == [NoCall EXCEPT !.pc = "choose", !.asked = asked,
                                 !.alone = alone]
  <2>1. c \in CallOK
      BY NoCallType DEF CallOK
  <2>2. Begin(t, c)
      BY <1>3 DEF GetPulla
  <2> HIDE DEF c
  <2> QED
      BY <1>3, <2>1, <2>2, BeginTyped DEF GetPulla, CallMoves
<1>4. ASSUME NEW t \in Threads, NEW p \in DOMAIN pullas, NEW j \in Job,
             GetArtifact(t, p, j)
      PROVE  CallMoves
  <2> DEFINE had == Known(p, j)
             c == [NoCall EXCEPT !.pulla = p, !.job = j, !.had = had,
                      !.task = had.task,
                      !.pc = IF had.task = 0 THEN "look" ELSE "fetch"]
  <2>1. had \in RecordOK
    <3>1. pullas[p] \in PullaOK
        BY <1>1
    <3>2. PICK js \in SUBSET Jobs : pullas[p].jobs \in [js -> RecordOK]
        BY <3>1 DEF PullaOK
    <3> QED
        BY <3>2, ForeignType DEF Known
  <2>2. j \in Jobs /\ p \in Nat
      BY <1>1, PulseAssumption DEF PulseTypeOK, Job, Jobs
  <2>3. had.task \in Tasks
      BY <2>1 DEF RecordOK
  <2>4. Begin(t, c)
      BY <1>4 DEF GetArtifact
  <2> HIDE DEF had
  <2>5. c \in CallOK
      BY <2>1, <2>2, <2>3, NoCallType DEF CallOK
  <2> HIDE DEF c
  <2> QED
      BY <1>4, <2>4, <2>5, BeginTyped DEF GetArtifact, CallMoves
<1>5. ASSUME NEW t \in Threads, NEW p \in DOMAIN pullas, NEW d \in Defs,
             SubmitJob(t, p, d)
      PROVE  PulseTypeOK'
  <2> DEFINE c == [NoCall EXCEPT !.pc = "serialize", !.pulla = p, !.def = d]
  <2>1. p \in Nat
      BY <1>1
  <2>2. c \in CallOK
      BY <2>1, NoCallType DEF CallOK
  <2>3. Begin(t, c)
      BY <1>5 DEF SubmitJob
  <2> HIDE DEF c
  <2>4. call' \in [Threads -> CallOK] /\ calls' \in 0..MaxCalls
      BY <2>2, <2>3, BeginTyped
  <2>5. ids' \in [Runs -> Nat] /\ stamps' \in Nat
      BY <1>5, IdsTyped DEF SubmitJob
  <2> QED
      BY <1>5, <2>4, <2>5 DEF SubmitJob, PulseTypeOK, provider, World, Job
<1>6. ASSUME NEW t \in Threads, Reuse(t)
      PROVE  CallMoves
  <2> DEFINE n == Find(call[t].asked)
  <2>1. n \in Nat
    <3>1. call[t].asked \in Asked /\ DOMAIN clients \subseteq Nat
        BY <1>1 DEF CallOK
    <3>2. cached[call[t].asked] \in {0} \cup DOMAIN clients
        BY <3>1 DEF PulseTypeOK
    <3> QED
        BY <3>1, <3>2 DEF Find
  <2>2. call' = [call EXCEPT ![t] = [call[t] EXCEPT !.pc = "bind",
                                                     !.client = n]]
      BY <1>1, <1>6 DEF Reuse
  <2> HIDE DEF n
  <2>3. [call[t] EXCEPT !.pc = "bind", !.client = n] \in CallOK
      BY <1>1, <2>1 DEF CallOK
  <2> QED
      BY <1>6, <2>2, <2>3, CallsTyped DEF Reuse, CallMoves, PulseTypeOK
<1>7. ASSUME NEW t \in Threads, Open(t)
      PROVE  CallMoves
  <2>1. call' \in [Threads -> CallOK]
      BY <1>7, GoTyped DEF Open
  <2> QED
      BY <1>7, <2>1 DEF Open, CallMoves, PulseTypeOK
<1>8. ASSUME NEW t \in Threads, Serialize(t)
      PROVE  CallMoves
  <2>1. PICK i \in Nat :
            call' = [call EXCEPT ![t] = [call[t] EXCEPT !.pc = "submit",
                                                         !.id = i]]
    <3>1. (IF call[t].def \in Runs THEN ids[call[t].def] ELSE 0) \in Nat
        BY DEF PulseTypeOK
    <3> QED
        BY <1>1, <1>8, <3>1 DEF Serialize
  <2>2. [call[t] EXCEPT !.pc = "submit", !.id = i] \in CallOK
      BY <1>1, <2>1 DEF CallOK
  <2> QED
      BY <1>8, <2>1, <2>2, CallsTyped DEF Serialize, CallMoves, PulseTypeOK
<1>9. ASSUME NEW t \in Threads, Fetch(t) \/ Fail(t)
      PROVE  CallMoves
    BY <1>9, ReturnTyped DEF Fetch, Fail, CallMoves, PulseTypeOK
<1>10. ASSUME NEW t \in Threads, Connect(t)
       PROVE  PulseTypeOK'
  <2>1. PICK r \in Chosen(call[t].asked) :
            clients' = Append(clients, [resource |-> r, up |-> TRUE])
      BY <1>10 DEF Connect
  <2>2. r \in Resources
      BY <1>1, ChosenIsAsked DEF CallOK
  <2>3. [resource |-> r, up |-> TRUE] \in ClientOK
      BY <2>2 DEF ClientOK
  <2>4. clients' \in Seq(ClientOK) /\ Len(clients') = Len(clients) + 1
      BY <1>1, <2>1, <2>3
  <2>5. cached' \in [Asked -> {0} \cup DOMAIN clients']
      BY <1>1, <1>10, <2>1, <2>4 DEF PulseTypeOK, Connect
  <2>6. call' = [call EXCEPT ![t] = [call[t] EXCEPT !.pc = "keep",
                                        !.client = Len(clients) + 1]]
    <3>1. call' = [call EXCEPT ![t].pc = "keep",
                               ![t].client = Len(clients) + 1]
        BY <1>10 DEF Connect
    <3> QED
        BY <1>1, <3>1
  <2>7. [call[t] EXCEPT !.pc = "keep", !.client = Len(clients) + 1]
            \in CallOK
    <3>1. Len(clients) + 1 \in Nat /\ call[t] \in CallOK
        BY <1>1
    <3>2. \A m \in Nat :
              [call[t] EXCEPT !.pc = "keep", !.client = m] \in CallOK
        BY <3>1 DEF CallOK
    <3> QED
        BY <3>1, <3>2
  <2>8. call' \in [Threads -> CallOK]
      BY <2>6, <2>7, CallsTyped
  <2>9. UNCHANGED <<world, granted, cached, pullas, payloads, heappe, calls>>
      BY <1>10 DEF Connect
  <2> QED
      BY <1>2, <2>4, <2>5, <2>8, <2>9
         DEF PulseTypeOK, payloads, World, Grown, Job
<1>11. ASSUME NEW t \in Threads, Bind(t)
       PROVE  PulseTypeOK'
  <2> DEFINE q == [asked |-> call[t].asked, alone |-> call[t].alone,
                   client |-> call[t].client, jobs |-> <<>>]
  <2>1. /\ q \in PullaOK /\ q.client \in DOMAIN clients
        /\ DOMAIN q.jobs = {}
    <3>1. << >> \in [{} -> RecordOK]
        OBVIOUS
    <3>2. call[t].client \in DOMAIN clients
        BY <1>11 DEF Bind, InHand, CallInHand
    <3>3. /\ call[t].asked \in Asked /\ call[t].alone \in BOOLEAN
          /\ call[t].client \in Nat
        BY <1>1 DEF CallOK
    <3> QED
        BY <3>1, <3>2, <3>3 DEF PullaOK
  <2>2. pullas' = Append(pullas, q)
      BY <1>11 DEF Bind
  <2> HIDE DEF q
  <2>3. /\ pullas' \in Seq(PullaOK)
        /\ \A p \in DOMAIN pullas' :
              (p \in DOMAIN pullas /\ pullas'[p] = pullas[p])
              \/ pullas'[p] = q
      BY <1>1, <2>1, <2>2
  <2>4. call' \in [Threads -> CallOK]
      BY <1>11, ReturnTyped DEF Bind
  <2>5. UNCHANGED <<world, granted, clients, cached, payloads, heappe,
                    calls>>
      BY <1>11 DEF Bind
  <2> QED
      BY <2>1, <2>3, <2>4, <2>5 DEF PulseTypeOK, payloads, World, Job
<1>12. ASSUME NEW t \in Threads, Accept(t)
       PROVE  PulseTypeOK'
  <2> DEFINE x == [def |-> call[t].def, id |-> call[t].id]
  <2>1. x \in [def : Defs, id : Nat]
      BY <1>1, <1>12 DEF Accept, InHand, CallInHand, CallOK
  <2>2. heappe' = Append(heappe, x)
      BY <1>12 DEF Accept
  <2> HIDE DEF x
  <2>3. /\ heappe' \in Seq([def : Defs, id : Nat])
        /\ Len(heappe') = Len(heappe) + 1 /\ Len(heappe) \in Nat
      BY <1>1, <2>1, <2>2
  <2>4. Len(heappe') <= MaxJobs /\ Len(heappe) + 1 \in Jobs
      BY <1>12, <2>3, WorldType DEF Accept, Jobs
  <2>5. call' \in [Threads -> CallOK]
    <3>1. call' = [call EXCEPT ![t] = [call[t] EXCEPT !.pc = "answer",
                                          !.job = Len(heappe) + 1]]
        BY <1>1, <1>12 DEF Accept
    <3>2. [call[t] EXCEPT !.pc = "answer", !.job = Len(heappe) + 1]
              \in CallOK
        BY <1>1, <2>4 DEF CallOK
    <3> QED
        BY <3>1, <3>2, CallsTyped
  <2>6. UNCHANGED <<world, granted, provider, payloads, calls>>
      BY <1>12 DEF Accept
  <2> QED
      BY <1>2, <2>3, <2>4, <2>5, <2>6
         DEF PulseTypeOK, provider, payloads, World, Grown
<1>13. ASSUME NEW t \in Threads, Record(t)
       PROVE  PulseTypeOK'
  <2>1. PICK record \in RecordOK :
            /\ call[t].pulla \in DOMAIN pullas /\ call[t].job \in Jobs
            /\ call[t].job \in Job
            /\ Remember(call[t].pulla, call[t].job, record)
      BY <1>13, RecordFacts
  <2>2. /\ pullas' \in Seq(PullaOK) /\ DOMAIN pullas' = DOMAIN pullas
        /\ \A q \in DOMAIN pullas : pullas'[q].client = pullas[q].client
        /\ \A q \in DOMAIN pullas :
              DOMAIN pullas'[q].jobs \subseteq
                  DOMAIN pullas[q].jobs \cup {call[t].job}
      BY <1>1, <2>1, Remembering
  <2>3. call' \in [Threads -> CallOK]
      BY <1>13, ReturnTyped DEF Record
  <2>4. UNCHANGED <<world, granted, clients, cached, payloads, heappe,
                    calls>>
      BY <1>13 DEF Record
  <2> QED
      BY <2>1, <2>2, <2>3, <2>4 DEF PulseTypeOK, payloads, World, Job
<1>14. ASSUME NEW t \in Threads, LookUp(t)
       PROVE  PulseTypeOK'
  <2>1. /\ call[t].pulla \in DOMAIN pullas /\ call[t].job \in Jobs
        /\ call[t].job \in Job
        /\ RecordOf(t) \in RecordOK
        /\ RecordOf(t).task = TaskOf(call[t].job)
        /\ Remember(call[t].pulla, call[t].job, RecordOf(t))
      BY <1>14, LookUpFacts
  <2>2. /\ pullas' \in Seq(PullaOK) /\ DOMAIN pullas' = DOMAIN pullas
        /\ \A q \in DOMAIN pullas : pullas'[q].client = pullas[q].client
        /\ \A q \in DOMAIN pullas :
              DOMAIN pullas'[q].jobs \subseteq
                  DOMAIN pullas[q].jobs \cup {call[t].job}
      BY <1>1, <2>1, Remembering
  <2>3. call' = [call EXCEPT ![t] = [call[t] EXCEPT !.pc = "fetch",
                                        !.task = TaskOf(call[t].job)]]
      BY <1>1, <1>14, <2>1 DEF LookUp
  <2>4. [call[t] EXCEPT !.pc = "fetch", !.task = TaskOf(call[t].job)]
            \in CallOK
      BY <1>1, <2>1, TaskType DEF CallOK
  <2>5. call' \in [Threads -> CallOK]
      BY <2>3, <2>4, CallsTyped
  <2>6. UNCHANGED <<world, granted, clients, cached, payloads, heappe,
                    calls>>
      BY <1>14 DEF LookUp
  <2> QED
      BY <2>1, <2>2, <2>5, <2>6 DEF PulseTypeOK, payloads, World, Job
<1>15. CASE ClearCache
  <2>1. cached' \in [Asked -> {0} \cup DOMAIN clients]
      BY <1>15 DEF ClearCache
  <2> QED
      BY <1>15, <2>1 DEF ClearCache, PulseTypeOK, payloads, World, Job
<1>16. ASSUME NEW c \in DOMAIN clients, Close(c)
       PROVE  PulseTypeOK'
  <2>1. clients' \in Seq(ClientOK) /\ DOMAIN clients' = DOMAIN clients
    <3>1. clients[c] \in ClientOK
        BY <1>1, <1>16
    <3>2. [clients[c] EXCEPT !.up = FALSE] \in ClientOK
        BY <3>1 DEF ClientOK
    <3> QED
        BY <1>1, <1>16, <3>2 DEF Close
  <2>2. call' \in [Threads -> CallOK]
      BY <1>16, CloseMoves
  <2> QED
      BY <1>16, <2>1, <2>2 DEF Close, PulseTypeOK, payloads, World, Job
<1>17. CASE Regrant
  <2>1. granted' \in DOMAIN World.grants
      BY <1>17, WorldType DEF Regrant, PulseTypeOK
  <2> QED
      BY <1>17, <2>1 DEF Regrant, PulseTypeOK, provider, payloads, World, Job
<1>18. CASE UNCHANGED vars
  <2>1. CallMoves
      BY <1>1, <1>18 DEF vars, CallMoves, PulseTypeOK
  <2> QED
      BY <2>1, MovesKeepTypes
<1>19. ASSUME NEW t \in Threads, Keep(t)
       PROVE  PulseTypeOK'
  <2>1. call[t].client \in DOMAIN clients
      BY <1>19 DEF Keep, InHand, CallInHand
  <2>2. cached' \in [Asked -> {0} \cup DOMAIN clients]
      BY <1>19, <2>1 DEF Keep, PulseTypeOK
  <2>3. call' \in [Threads -> CallOK]
      BY <1>19, GoTyped DEF Keep
  <2> QED
      BY <1>19, <2>2, <2>3 DEF Keep, PulseTypeOK, payloads, World, Job
<1>20. ASSUME NEW t \in Threads, Answer(t)
       PROVE  CallMoves
    BY <1>20, GoTyped DEF Answer, CallMoves, PulseTypeOK
<1> QED
    BY <1>3, <1>4, <1>5, <1>6, <1>7, <1>8, <1>9, <1>10, <1>11, <1>12, <1>13,
       <1>14, <1>15, <1>16, <1>17, <1>18, <1>19, <1>20, MovesKeepTypes
       DEF Next, Start, Step

-----------------------------------------------------------------------------
(***************************************************************************)
(* What the calls have in hand.                                            *)
(***************************************************************************)
LEMMA StaysInHand ==
    ASSUME Grown, PulseTypeOK, NEW c, CallInHand(c)
    PROVE  CallInHand(c)'
BY DEF Grown, CallInHand, Job

LEMMA OthersInHand ==
    ASSUME Grown, PulseTypeOK, InHand, NEW t \in Threads, NEW c,
           call' = [call EXCEPT ![t] = c], CallInHand(c)'
    PROVE  InHand'
<1> SUFFICES ASSUME NEW u \in Threads
             PROVE  CallInHand(call[u])'
    BY DEF InHand
<1>1. CASE u = t
  <2>1. call'[u] = c
      BY <1>1 DEF PulseTypeOK
  <2> QED
      BY <2>1
<1>2. CASE u # t
  <2>1. PICK d : d = call[u]
      OBVIOUS
  <2>2. call'[u] = d
      BY <1>2, <2>1 DEF PulseTypeOK
  <2>3. CallInHand(d)'
      BY <2>1, StaysInHand DEF InHand
  <2> QED
      BY <2>2, <2>3
<1> QED
    BY <1>1, <1>2

LEMMA ReturnInHand ==
    ASSUME Grown, PulseTypeOK, InHand, NEW t \in Threads, Return(t)
    PROVE  InHand'
<1>1. CallInHand(NoCall)'
    BY NoCallType, NoneIsApart DEF CallInHand
<1> QED
    BY <1>1, OthersInHand DEF Return

LEMMA SameInHand ==
    ASSUME Grown, PulseTypeOK, InHand, call' = call
    PROVE  InHand'
<1> SUFFICES ASSUME NEW u \in Threads
             PROVE  CallInHand(call[u])'
    BY DEF InHand
<1>1. PICK d : d = call[u]
    OBVIOUS
<1>2. CallInHand(d)'
    BY <1>1, StaysInHand DEF InHand
<1> QED
    BY <1>1, <1>2

LEMMA InHandNext ==
    ASSUME ExecutorInv, [Next]_vars
    PROVE  InHand'
<1>1. /\ PulseTypeOK /\ InHand /\ RecordsAreTrue /\ RecordsInHand
      /\ Grown /\ PulseTypeOK'
      /\ clients \in Seq(ClientOK) /\ pullas \in Seq(PullaOK)
      /\ heappe \in Seq([def : Defs, id : Nat])
      /\ call \in [Threads -> CallOK]
      /\ \A t \in Threads : call[t] \in CallOK
    BY Growth, TypeNext DEF ExecutorInv, PulseTypeOK
<1>2. ASSUME NEW t \in Threads, NEW asked \in Asked, NEW alone \in BOOLEAN,
             GetPulla(t, asked, alone)
      PROVE  InHand'
  <2>1. PICK c : c = [NoCall EXCEPT !.pc = "choose", !.asked = asked,
                                    !.alone = alone]
      OBVIOUS
  <2>2. c.pc = "choose" /\ c.def = None
      BY <2>1, NoCallType DEF NoCall
  <2>3. CallInHand(c)'
      BY <2>2, NoneIsApart DEF CallInHand
  <2>4. call' = [call EXCEPT ![t] = c]
      BY <1>2, <2>1 DEF GetPulla, Begin
  <2> QED
      BY <1>1, <2>3, <2>4, OthersInHand
<1>3. ASSUME NEW t \in Threads, NEW p \in DOMAIN pullas, NEW d \in Defs,
             SubmitJob(t, p, d)
      PROVE  InHand'
  <2>1. PICK c : c = [NoCall EXCEPT !.pc = "serialize", !.pulla = p,
                                    !.def = d]
      OBVIOUS
  <2>2. c.pc = "serialize" /\ c.def = d /\ c.pulla = p
      BY <2>1 DEF NoCall
  <2>3. CallInHand(c)'
      BY <1>1, <2>2 DEF CallInHand, Grown
  <2>4. call' = [call EXCEPT ![t] = c]
      BY <1>3, <2>1 DEF SubmitJob, Begin
  <2> QED
      BY <1>1, <2>3, <2>4, OthersInHand
<1>4. ASSUME NEW t \in Threads, NEW p \in DOMAIN pullas, NEW j \in Job,
             GetArtifact(t, p, j)
      PROVE  InHand'
  <2>1. PICK had : had = Known(p, j)
      OBVIOUS
  <2>2. /\ had.task \in {0, TaskOf(j)}
        /\ had.def # None => /\ had.def = heappe[j].def
                             /\ had.type = Kind(had.def)
        /\ had.task = 0 /\ had.def = None => had = Foreign
      BY <1>1, <2>1, ForeignType DEF Known, RecordsAreTrue, RecordsInHand,
         Foreign
  <2>3. PICK c : c = [NoCall EXCEPT !.pulla = p, !.job = j, !.had = had,
                          !.task = had.task,
                          !.pc = IF had.task = 0 THEN "look" ELSE "fetch"]
      OBVIOUS
  <2>4. /\ c.pc = (IF had.task = 0 THEN "look" ELSE "fetch")
        /\ c.def = None /\ c.pulla = p /\ c.job = j /\ c.had = had
        /\ c.task = had.task
      BY <2>3 DEF NoCall
  <2>5. CallInHand(c)
      BY <2>2, <2>4, NoneIsApart DEF CallInHand
  <2>6. call' = [call EXCEPT ![t] = c]
      BY <1>4, <2>1, <2>3 DEF GetArtifact, Begin
  <2> QED
      BY <1>1, <2>5, <2>6, OthersInHand, StaysInHand
<1>5. ASSUME NEW t \in Threads, Reuse(t)
      PROVE  InHand'
  <2>1. PICK n : n = Find(call[t].asked)
      OBVIOUS
  <2>2. n \in DOMAIN clients
    <3>1. call[t].asked \in Asked
        BY <1>1 DEF CallOK
    <3> QED
        BY <1>1, <1>5, <2>1, <3>1 DEF PulseTypeOK, Find, Reuse, Usable
  <2>3. PICK c : c = [call[t] EXCEPT !.pc = "bind", !.client = n]
      OBVIOUS
  <2>4. call[t].def \notin Defs
      BY <1>1, <1>5 DEF InHand, CallInHand, Reuse
  <2>5. c.pc = "bind" /\ c.def \notin Defs /\ c.client = n
      BY <1>1, <2>3, <2>4 DEF CallOK
  <2>6. CallInHand(c)
      BY <2>2, <2>5 DEF CallInHand
  <2>7. call' = [call EXCEPT ![t] = c]
      BY <1>1, <1>5, <2>1, <2>3 DEF Reuse
  <2> QED
      BY <1>1, <2>6, <2>7, OthersInHand, StaysInHand
<1>6. ASSUME NEW t \in Threads, Open(t)
      PROVE  InHand'
  <2>1. PICK c : c = [call[t] EXCEPT !.pc = "connect"]
      OBVIOUS
  <2>2. call[t].def \notin Defs
      BY <1>1, <1>6 DEF InHand, CallInHand, Open
  <2>3. c.pc = "connect" /\ c.def \notin Defs
      BY <1>1, <2>1, <2>2 DEF CallOK
  <2>4. CallInHand(c)
      BY <2>3 DEF CallInHand
  <2>5. call' = [call EXCEPT ![t] = c]
      BY <1>1, <1>6, <2>1 DEF Open, Go
  <2> QED
      BY <1>1, <2>4, <2>5, OthersInHand, StaysInHand
<1>7. ASSUME NEW t \in Threads, Connect(t)
      PROVE  InHand'
  <2>1. PICK c : c = [call[t] EXCEPT !.pc = "keep",
                                     !.client = Len(clients) + 1]
      OBVIOUS
  <2>2. call[t].def \notin Defs
      BY <1>1, <1>7 DEF InHand, CallInHand, Connect
  <2>3. c.pc = "keep" /\ c.def \notin Defs /\ c.client = Len(clients) + 1
      BY <1>1, <2>1, <2>2 DEF CallOK
  <2>4. Len(clients) + 1 \in DOMAIN clients'
      BY <1>1, <1>7 DEF Connect
  <2>5. CallInHand(c)'
      BY <2>3, <2>4 DEF CallInHand
  <2>6. call' = [call EXCEPT ![t] = c]
      BY <1>1, <1>7, <2>1 DEF Connect
  <2> QED
      BY <1>1, <2>5, <2>6, OthersInHand
<1>8. ASSUME NEW t \in Threads, Serialize(t)
      PROVE  InHand'
  <2>1. PICK i : i = IF call[t].def \in Runs THEN ids[call[t].def] ELSE 0
      OBVIOUS
  <2>2. PICK c : c = [call[t] EXCEPT !.pc = "submit", !.id = i]
      OBVIOUS
  <2>3. c.pc = "submit" /\ c.def = call[t].def /\ c.pulla = call[t].pulla
      BY <1>1, <2>2 DEF CallOK
  <2>4. call[t].def \in Defs /\ call[t].pulla \in DOMAIN pullas
      BY <1>1, <1>8 DEF InHand, CallInHand, Serialize
  <2>5. CallInHand(c)
      BY <2>3, <2>4 DEF CallInHand
  <2>6. call' = [call EXCEPT ![t] = c]
      BY <1>1, <1>8, <2>1, <2>2 DEF Serialize
  <2> QED
      BY <1>1, <2>5, <2>6, OthersInHand, StaysInHand
<1>9. ASSUME NEW t \in Threads, Accept(t)
      PROVE  InHand'
  <2>1. PICK c : c = [call[t] EXCEPT !.pc = "answer",
                                     !.job = Len(heappe) + 1]
      OBVIOUS
  <2>2. /\ c.pc = "answer" /\ c.def = call[t].def
        /\ c.pulla = call[t].pulla /\ c.job = Len(heappe) + 1
      BY <1>1, <2>1 DEF CallOK
  <2>3. call[t].def \in Defs /\ call[t].pulla \in DOMAIN pullas
      BY <1>1, <1>9 DEF InHand, CallInHand, Accept
  <2>4. /\ Len(heappe) + 1 \in Job'
        /\ heappe'[Len(heappe) + 1].def = call[t].def
        /\ DOMAIN pullas' = DOMAIN pullas
      BY <1>1, <1>9 DEF Accept, Job, provider
  <2>5. CallInHand(c)'
      BY <2>2, <2>3, <2>4 DEF CallInHand
  <2>6. call' = [call EXCEPT ![t] = c]
      BY <1>1, <1>9, <2>1 DEF Accept
  <2> QED
      BY <1>1, <2>5, <2>6, OthersInHand
<1>10. ASSUME NEW t \in Threads, LookUp(t)
       PROVE  InHand'
  <2>1. /\ call[t].pulla \in DOMAIN pullas /\ call[t].job \in Job
        /\ RecordOf(t).task = TaskOf(call[t].job)
      BY <1>1, <1>10, LookUpFacts
  <2>2. PICK c : c = [call[t] EXCEPT !.pc = "fetch",
                                     !.task = TaskOf(call[t].job)]
      OBVIOUS
  <2>3. call[t].def \notin Defs
      BY <1>1, <1>10 DEF InHand, CallInHand, LookUp
  <2>4. /\ c.pc = "fetch" /\ c.def \notin Defs /\ c.pulla = call[t].pulla
        /\ c.job = call[t].job /\ c.task = TaskOf(c.job)
      BY <1>1, <2>2, <2>3 DEF CallOK
  <2>5. CallInHand(c)
      BY <2>1, <2>4 DEF CallInHand
  <2>6. call' = [call EXCEPT ![t] = c]
      BY <1>1, <1>10, <2>1, <2>2 DEF LookUp
  <2> QED
      BY <1>1, <2>5, <2>6, OthersInHand, StaysInHand
<1>11. ASSUME NEW t \in Threads,
              Bind(t) \/ Record(t) \/ Fetch(t) \/ Fail(t)
       PROVE  InHand'
    BY <1>1, <1>11, ReturnInHand DEF Bind, Record, Fetch, Fail
<1>12. ASSUME ClearCache \/ Regrant \/ UNCHANGED vars
       PROVE  InHand'
    BY <1>1, <1>12, SameInHand DEF ClearCache, Regrant, vars
<1>13. ASSUME NEW d \in DOMAIN clients, Close(d)
       PROVE  InHand'
  <2> SUFFICES ASSUME NEW u \in Threads
               PROVE  CallInHand(call[u])'
      BY DEF InHand
  <2>1. PICK c : c = call[u]
      OBVIOUS
  <2>2. CallInHand(c)'
      BY <1>1, <2>1, StaysInHand DEF InHand
  <2>3. CallInHand(Lost)'
      BY LostType, NoneIsApart DEF CallInHand
  <2>4. call'[u] = c \/ call'[u] = Lost
      BY <1>1, <1>13, <2>1, CloseMoves
  <2> QED
      BY <2>2, <2>3, <2>4
<1>14. ASSUME NEW t \in Threads, Keep(t)
       PROVE  InHand'
  <2>1. PICK c : c = [call[t] EXCEPT !.pc = "bind"]
      OBVIOUS
  <2>2. call[t].def \notin Defs /\ call[t].client \in DOMAIN clients
      BY <1>1, <1>14 DEF InHand, CallInHand, Keep
  <2>3. c.pc = "bind" /\ c.def = call[t].def /\ c.client = call[t].client
      BY <1>1, <2>1 DEF CallOK
  <2>4. CallInHand(c)
      BY <2>2, <2>3 DEF CallInHand
  <2>5. call' = [call EXCEPT ![t] = c]
      BY <1>1, <1>14, <2>1, GoTyped DEF Keep
  <2> QED
      BY <1>1, <2>4, <2>5, OthersInHand, StaysInHand
<1>15. ASSUME NEW t \in Threads, Answer(t)
       PROVE  InHand'
  <2>1. PICK c : c = [call[t] EXCEPT !.pc = "record"]
      OBVIOUS
  <2>2. /\ call[t].def \in Defs /\ call[t].pulla \in DOMAIN pullas
        /\ call[t].job \in Job /\ heappe[call[t].job].def = call[t].def
      BY <1>1, <1>15 DEF InHand, CallInHand, Answer
  <2>3. /\ c.pc = "record" /\ c.def = call[t].def /\ c.job = call[t].job
        /\ c.pulla = call[t].pulla
      BY <1>1, <2>1 DEF CallOK
  <2>4. CallInHand(c)
      BY <2>2, <2>3 DEF CallInHand
  <2>5. call' = [call EXCEPT ![t] = c]
      BY <1>1, <1>15, <2>1, GoTyped DEF Answer
  <2> QED
      BY <1>1, <2>4, <2>5, OthersInHand, StaysInHand
<1> QED
    BY <1>2, <1>3, <1>4, <1>5, <1>6, <1>7, <1>8, <1>9, <1>10, <1>11, <1>12,
       <1>13, <1>14, <1>15 DEF Next, Start, Step

-----------------------------------------------------------------------------
(***************************************************************************)
(* The records.                                                            *)
(***************************************************************************)
RecordIsTrue(r, j) ==
    /\ r.task \in {0, TaskOf(j)}
    /\ r.def # None => r.def = heappe[j].def /\ r.type = Kind(r.def)
    /\ r.def = None => r.type = "run" /\ r.task # 0

RecordsHold ==
    \A p \in DOMAIN pullas : \A j \in DOMAIN pullas[p].jobs :
        RecordIsTrue(pullas[p].jobs[j], j)

LEMMA RecordsHoldBoth == RecordsHold <=> RecordsAreTrue /\ RecordsInHand
BY DEF RecordsHold, RecordIsTrue, RecordsAreTrue, RecordsInHand

\* A record that was true stays so, as a job keeps its payload.
LEMMA StaysTrue ==
    ASSUME Grown, NEW j \in Job, NEW r, RecordIsTrue(r, j)
    PROVE  RecordIsTrue(r, j)'
BY DEF Grown, RecordIsTrue

LEMMA RecordsStay ==
    ASSUME PulseTypeOK, Grown, RecordsHold,
           \A p \in DOMAIN pullas' :
               \/ p \in DOMAIN pullas /\ pullas'[p].jobs = pullas[p].jobs
               \/ DOMAIN pullas'[p].jobs = {}
    PROVE  RecordsHold'
<1> SUFFICES ASSUME NEW p \in DOMAIN pullas', NEW j \in DOMAIN pullas'[p].jobs
             PROVE  RecordIsTrue(pullas[p].jobs[j], j)'
    BY DEF RecordsHold
<1>1. /\ p \in DOMAIN pullas /\ pullas'[p].jobs = pullas[p].jobs
      /\ j \in DOMAIN pullas[p].jobs
    OBVIOUS
<1>2. PICK r : r = pullas[p].jobs[j]
    OBVIOUS
<1>3. r = pullas'[p].jobs[j]
    BY <1>1, <1>2
<1>4. RecordIsTrue(r, j) /\ j \in Job
    BY <1>1, <1>2 DEF RecordsHold, PulseTypeOK
<1>5. RecordIsTrue(r, j)'
    BY <1>4, StaysTrue
<1> QED
    BY <1>3, <1>5

LEMMA RememberingTrue ==
    ASSUME PulseTypeOK, Grown, RecordsHold, NEW q \in DOMAIN pullas,
           NEW i \in Jobs, NEW record \in RecordOK, Remember(q, i, record),
           RecordIsTrue(record, i)'
    PROVE  RecordsHold'
<1>1. /\ DOMAIN pullas' = DOMAIN pullas
      /\ \A p \in DOMAIN pullas :
          p # q => pullas'[p].jobs = pullas[p].jobs
      /\ DOMAIN pullas'[q].jobs = DOMAIN pullas[q].jobs \cup {i}
      /\ pullas'[q].jobs[i] = record
      /\ \A j \in DOMAIN pullas[q].jobs :
          j # i => pullas'[q].jobs[j] = pullas[q].jobs[j]
    BY Remembering DEF PulseTypeOK
<1> SUFFICES ASSUME NEW p \in DOMAIN pullas', NEW j \in DOMAIN pullas'[p].jobs
             PROVE  RecordIsTrue(pullas[p].jobs[j], j)'
    BY DEF RecordsHold
<1>2. CASE p = q /\ j = i
    BY <1>1, <1>2
<1>3. CASE ~(p = q /\ j = i)
  <2>1. /\ p \in DOMAIN pullas /\ j \in DOMAIN pullas[p].jobs
        /\ pullas'[p].jobs[j] = pullas[p].jobs[j]
      BY <1>1, <1>3
  <2>2. PICK r : r = pullas[p].jobs[j]
      OBVIOUS
  <2>3. RecordIsTrue(r, j) /\ j \in Job
      BY <2>1, <2>2 DEF RecordsHold, PulseTypeOK
  <2>4. RecordIsTrue(r, j)'
      BY <2>3, StaysTrue
  <2> QED
      BY <2>1, <2>2, <2>4
<1> QED
    BY <1>2, <1>3

LEMMA RecordsNext ==
    ASSUME ExecutorInv, [Next]_vars
    PROVE  (RecordsAreTrue /\ RecordsInHand)'
<1> SUFFICES RecordsHold'
    BY RecordsHoldBoth, PTL
<1>1. /\ PulseTypeOK /\ InHand /\ Grown /\ RecordsHold
      /\ pullas \in Seq(PullaOK)
    BY Growth, RecordsHoldBoth DEF ExecutorInv, PulseTypeOK
<1>2. ASSUME NEW t \in Threads, Record(t)
      PROVE  RecordsHold'
  <2>1. PICK task \in {0, TaskOf(call[t].job)} :
            /\ call[t].pulla \in DOMAIN pullas /\ call[t].job \in Jobs
            /\ call[t].job \in Job
            /\ call[t].def \in Defs
            /\ heappe[call[t].job].def = call[t].def
            /\ [type |-> Kind(call[t].def), task |-> task,
                def |-> call[t].def] \in RecordOK
            /\ Remember(call[t].pulla, call[t].job,
                        [type |-> Kind(call[t].def), task |-> task,
                         def |-> call[t].def])
      BY <1>1, <1>2, RecordFacts
  <2>2. PICK i : i = call[t].job
      OBVIOUS
  <2>3. PICK r : r = [type |-> Kind(call[t].def), task |-> task,
                      def |-> call[t].def]
      OBVIOUS
  <2>4. RecordIsTrue(r, i)
      BY <2>1, <2>2, <2>3, NoneIsApart DEF RecordIsTrue
  <2>5. RecordIsTrue(r, i)'
      BY <1>1, <2>1, <2>2, <2>4, StaysTrue
  <2>6. PICK q : q = call[t].pulla
      OBVIOUS
  <2>7. q \in DOMAIN pullas /\ i \in Jobs /\ r \in RecordOK
        /\ Remember(q, i, r)
      BY <2>1, <2>2, <2>3, <2>6
  <2> QED
      BY <1>1, <2>5, <2>7, RememberingTrue
<1>3. ASSUME NEW t \in Threads, LookUp(t)
      PROVE  RecordsHold'
  <2>1. PICK i : i = call[t].job
      OBVIOUS
  <2>2. PICK r : r = RecordOf(t)
      OBVIOUS
  <2>3. PICK q : q = call[t].pulla
      OBVIOUS
  <2>4. /\ q \in DOMAIN pullas /\ i \in Jobs /\ i \in Job
        /\ r \in RecordOK /\ Remember(q, i, r)
        /\ r.task = TaskOf(i) /\ r.def = call[t].had.def
        /\ r.type = call[t].had.type
      BY <1>1, <1>3, <2>1, <2>2, <2>3, LookUpFacts
  <2>5. /\ call[t].had.def = None => call[t].had = Foreign
        /\ call[t].had.def # None =>
               /\ call[t].had.def = heappe[i].def
               /\ call[t].had.type = Kind(call[t].had.def)
      BY <1>1, <1>3, <2>1 DEF LookUp, InHand, CallInHand
  <2>6. Foreign.type = "run"
      BY DEF Foreign
  <2>7. RecordIsTrue(r, i)
      BY <2>4, <2>5, <2>6, TaskType DEF RecordIsTrue
  <2>8. RecordIsTrue(r, i)'
      BY <1>1, <2>4, <2>7, StaysTrue
  <2> QED
      BY <1>1, <2>4, <2>8, RememberingTrue
<1>4. ASSUME NEW t \in Threads, Bind(t)
      PROVE  RecordsHold'
  <2>1. PICK q : pullas' = Append(pullas, q) /\ q.jobs = << >>
      BY <1>4 DEF Bind
  <2>2. \A p \in DOMAIN pullas' :
            \/ p \in DOMAIN pullas /\ pullas'[p].jobs = pullas[p].jobs
            \/ DOMAIN pullas'[p].jobs = {}
      BY <1>1, <2>1
  <2> QED
      BY <1>1, <2>2, RecordsStay
<1>5. ASSUME UNCHANGED pullas
      PROVE  RecordsHold'
    BY <1>1, <1>5, RecordsStay
<1>6. ASSUME NEW t \in Threads,
             \/ Start(t) \/ Reuse(t) \/ Open(t) \/ Connect(t) \/ Keep(t)
             \/ Serialize(t) \/ Accept(t) \/ Answer(t) \/ Fetch(t) \/ Fail(t)
      PROVE  UNCHANGED pullas
    BY <1>6, StartFacts DEF Reuse, Open, Connect, Keep, Serialize, Accept,
       Answer, Fetch, Fail, provider
<1>7. ClearCache \/ Regrant \/ UNCHANGED vars
          \/ (\E c \in DOMAIN clients : Close(c)) => UNCHANGED pullas
    BY DEF ClearCache, Regrant, Close, provider, vars
<1> QED
    BY <1>2, <1>3, <1>4, <1>5, <1>6, <1>7 DEF Next, Step

\* The executor's part of the invariant stands on its own.
LEMMA ExecutorAlways == Spec => []ExecutorInv
<1>1. Init => ExecutorInv
    BY PulseInit
<1>2. ExecutorInv /\ [Next]_vars => ExecutorInv'
    BY TypeNext, InHandNext, RecordsNext DEF ExecutorInv
<1> QED
    BY <1>1, <1>2, PTL DEF Spec

\* The types of the provider and its executors hold in every behaviour.
THEOREM PulseIsTyped == Spec => []PulseTypeOK
<1>1. ExecutorInv => PulseTypeOK
    BY DEF ExecutorInv
<1> QED
    BY <1>1, ExecutorAlways, PTL

\* What an executor remembers of a job (`HEAppEExecutor._jobs') is what
\* HEAppE has of it, whichever calls of how many threads store records.
THEOREM RecordsAreAlwaysTrue == Spec => []RecordsAreTrue
<1>1. ExecutorInv => RecordsAreTrue
    BY DEF ExecutorInv
<1> QED
    BY <1>1, ExecutorAlways, PTL

\* The definition of a job that was submitted here is only forgotten by a
\* look-up that read the record before the submission stored it.
THEOREM PayloadIsAlwaysKept == Spec => PayloadIsKept
<1> DEFINE Kept ==
        \A p \in DOMAIN pullas : \A j \in DOMAIN pullas[p].jobs :
            LET was == pullas[p].jobs[j]
            IN  was.def # None =>
                \/ pullas'[p].jobs[j].def = was.def
                \/ \E t \in Threads :
                    /\ call[t].pc = "look" /\ call[t].pulla = p
                    /\ call[t].job = j /\ call[t].had = Foreign
<1>1. ASSUME ExecutorInv, ExecutorInv', [Next]_vars
      PROVE  Kept
  <2> SUFFICES ASSUME NEW p \in DOMAIN pullas,
                      NEW j \in DOMAIN pullas[p].jobs,
                      pullas[p].jobs[j].def # None,
                      pullas'[p].jobs[j].def # pullas[p].jobs[j].def
               PROVE  \E t \in Threads :
                          /\ call[t].pc = "look" /\ call[t].pulla = p
                          /\ call[t].job = j /\ call[t].had = Foreign
      OBVIOUS
  <2>1. /\ PulseTypeOK /\ InHand /\ RecordsAreTrue /\ RecordsAreTrue'
        /\ Grown /\ pullas \in Seq(PullaOK) /\ j \in Job
      BY <1>1, Growth DEF ExecutorInv, PulseTypeOK
  <2>2. pullas[p].jobs[j].def = heappe[j].def /\ heappe'[j] = heappe[j]
      BY <2>1 DEF RecordsAreTrue, Grown
  <2>3. CASE \E t \in Threads : LookUp(t)
    <3>1. PICK t \in Threads : LookUp(t)
        BY <2>3
    <3>2. /\ call[t].pulla \in DOMAIN pullas /\ call[t].job \in Jobs
          /\ RecordOf(t) \in RecordOK /\ RecordOf(t).def = call[t].had.def
          /\ Remember(call[t].pulla, call[t].job, RecordOf(t))
        BY <2>1, <3>1, LookUpFacts
    <3>3. /\ \A q \in DOMAIN pullas :
              q # call[t].pulla => pullas'[q].jobs = pullas[q].jobs
          /\ pullas'[call[t].pulla].jobs[call[t].job] = RecordOf(t)
          /\ \A i \in DOMAIN pullas[call[t].pulla].jobs :
              i # call[t].job =>
                  pullas'[call[t].pulla].jobs[i] =
                      pullas[call[t].pulla].jobs[i]
        BY <2>1, <3>2, Remembering
    <3>4. call[t].pulla = p /\ call[t].job = j
        BY <3>3
    <3>5. call[t].pc = "look"
        BY <3>1 DEF LookUp
    <3>6. call[t].had.def # heappe[j].def
        BY <2>2, <3>2, <3>3, <3>4
    <3>7. call[t].had = Foreign
        BY <2>1, <3>4, <3>5, <3>6 DEF InHand, CallInHand
    <3> QED
        BY <3>4, <3>5, <3>7
  <2>4. CASE \E t \in Threads : Record(t)
    <3>1. PICK t \in Threads : Record(t)
        BY <2>4
    <3>2. PICK r \in RecordOK :
              /\ call[t].pulla \in DOMAIN pullas /\ call[t].job \in Jobs
              /\ r.def = heappe[call[t].job].def
              /\ Remember(call[t].pulla, call[t].job, r)
        BY <2>1, <3>1, RecordFacts
    <3>3. /\ \A q \in DOMAIN pullas :
              q # call[t].pulla => pullas'[q].jobs = pullas[q].jobs
          /\ pullas'[call[t].pulla].jobs[call[t].job] = r
          /\ \A i \in DOMAIN pullas[call[t].pulla].jobs :
              i # call[t].job =>
                  pullas'[call[t].pulla].jobs[i] =
                      pullas[call[t].pulla].jobs[i]
        BY <2>1, <3>2, Remembering
    <3> QED
        BY <2>2, <3>2, <3>3
  <2>5. CASE \E t \in Threads : Bind(t)
    <3>1. PICK x : pullas' = Append(pullas, x)
        BY <2>5 DEF Bind
    <3> QED
        BY <2>1, <3>1
  <2>6. ASSUME NEW t \in Threads,
               \/ Start(t) \/ Reuse(t) \/ Open(t) \/ Connect(t)
               \/ Keep(t) \/ Serialize(t) \/ Accept(t) \/ Answer(t)
               \/ Fetch(t) \/ Fail(t)
        PROVE  UNCHANGED pullas
      BY <2>6, StartFacts DEF Reuse, Open, Connect, Keep, Serialize, Accept,
         Answer, Fetch, Fail, provider
  <2>7. ClearCache \/ Regrant \/ UNCHANGED vars
            \/ (\E c \in DOMAIN clients : Close(c)) => UNCHANGED pullas
      BY DEF ClearCache, Regrant, Close, provider, vars
  <2> QED
      BY <1>1, <2>3, <2>4, <2>5, <2>6, <2>7 DEF Next, Step
<1>2. Spec => [][Kept]_vars
    BY <1>1, ExecutorAlways, PTL DEF Spec
<1> QED
    BY <1>2 DEF PayloadIsKept

-----------------------------------------------------------------------------
(***************************************************************************)
(* The provider: which client a name leads to.                             *)
(***************************************************************************)
ClientIn(r) == [resource |-> r, up |-> TRUE]

\* Where a new client lands: behind all others, in the hands of the call.
LEMMA ConnectFacts ==
    ASSUME PulseTypeOK, NEW t \in Threads, Connect(t)
    PROVE  \E r \in Resources :
               /\ call[t].asked \in Resources => r = call[t].asked
               /\ clients' = Append(clients, ClientIn(r))
               /\ call'[t].pc = "keep" /\ call'[t].client = Len(clients) + 1
               /\ call'[t].asked = call[t].asked
               /\ call'[t].alone = call[t].alone
               /\ \A u \in Threads : u # t => call'[u] = call[u]
               /\ UNCHANGED <<cached, pullas>>
<1>1. call \in [Threads -> CallOK] /\ call[t] \in CallOK
    BY DEF PulseTypeOK
<1>2. call[t].asked \in Asked
    BY <1>1 DEF CallOK
<1>3. PICK r \in Chosen(call[t].asked) :
          /\ clients' = Append(clients, ClientIn(r))
          /\ call' = [call EXCEPT ![t].pc = "keep",
                                  ![t].client = Len(clients) + 1]
    BY DEF Connect, ClientIn
<1>4. r \in Resources /\ (call[t].asked \in Resources => r = call[t].asked)
    BY <1>2, ChosenIsAsked
<1>5. call' = [call EXCEPT ![t] = [call[t] EXCEPT !.pc = "keep",
                                      !.client = Len(clients) + 1]]
    BY <1>1, <1>3
<1>6. /\ call'[t].pc = "keep" /\ call'[t].client = Len(clients) + 1
      /\ call'[t].asked = call[t].asked /\ call'[t].alone = call[t].alone
      /\ \A u \in Threads : u # t => call'[u] = call[u]
    BY <1>1, <1>5 DEF CallOK
<1> QED
    BY <1>3, <1>4, <1>6 DEF Connect

\* The names a new client goes by, and what else changes as it gets them.
LEMMA KeepFacts ==
    ASSUME PulseTypeOK, InHand, ProviderInv, NEW t \in Threads, Keep(t)
    PROVE  \E r \in Resources :
               /\ call[t].asked \in Resources => r = call[t].asked
               /\ call[t].client \in DOMAIN clients
               /\ clients[call[t].client].resource = r
               /\ \A n \in Asked :
                      cached'[n] = IF n \in Names(t, r) THEN call[t].client
                                                        ELSE cached[n]
               /\ call[t].pc = "keep" /\ call'[t].pc = "bind"
               /\ call'[t].client = call[t].client
               /\ call'[t].asked = call[t].asked
               /\ call'[t].alone = call[t].alone
               /\ \A u \in Threads : u # t => call'[u] = call[u]
               /\ UNCHANGED <<clients, pullas>>
<1>1. /\ call \in [Threads -> CallOK] /\ call[t] \in CallOK
      /\ call[t].pc = "keep" /\ clients \in Seq(ClientOK)
    BY DEF PulseTypeOK, Keep
<1>2. call[t].client \in DOMAIN clients
    BY <1>1 DEF InHand, CallInHand
<1>3. PICK r : r = clients[call[t].client].resource
    OBVIOUS
<1>4. r \in Resources
  <2>1. clients[call[t].client] \in ClientOK
      BY <1>1, <1>2
  <2> QED
      BY <1>3, <2>1 DEF ClientOK
<1>5. call[t].asked \in Resources => r = call[t].asked
    BY <1>1, <1>3 DEF ProviderInv, OnItsResource
<1>6. cached' = [n \in Asked |-> IF n \in Names(t, r) THEN call[t].client
                                                      ELSE cached[n]]
    BY <1>3 DEF Keep
<1>7. call' = [call EXCEPT ![t] = [call[t] EXCEPT !.pc = "bind"]]
    BY GoTyped DEF Keep
<1>8. /\ call'[t].pc = "bind" /\ call'[t].client = call[t].client
      /\ call'[t].asked = call[t].asked /\ call'[t].alone = call[t].alone
      /\ \A u \in Threads : u # t => call'[u] = call[u]
    BY <1>1, <1>7 DEF CallOK
<1>9. UNCHANGED <<clients, pullas>>
    BY DEF Keep
<1> QED
    BY <1>1, <1>2, <1>3, <1>4, <1>5, <1>6, <1>8, <1>9

\* A step that binds nothing and hands out nothing, whatever it closes or
\* clears.
LEMMA QuietKeeps ==
    ASSUME PulseTypeOK, InHand, Grown, ProviderInv,
           \A n \in Asked : cached'[n] \in {0, cached[n]},
           DOMAIN pullas' = DOMAIN pullas,
           \A u \in Threads : call'[u].pc \in Held => call'[u] = call[u]
    PROVE  ProviderInv'
<1>1. 0 \notin DOMAIN clients
    BY DEF PulseTypeOK
<1>2. \A p \in DOMAIN pullas : pullas[p].client \in DOMAIN clients
    BY DEF PulseTypeOK
<1>3. \A u \in Threads :
          call[u].pc \in Held => call[u].client \in DOMAIN clients
    BY DEF InHand, CallInHand
<1>4. Resources \subseteq Asked /\ \A n \in Asked :
          cached[n] # 0 => cached[n] \in DOMAIN clients
    BY DEF PulseTypeOK, Asked
<1>5. OnItsResource'
  <2>1. PullaIsOnItsResource'
      BY <1>2, NoneIsApart
         DEF ProviderInv, OnItsResource, PullaIsOnItsResource, Grown
  <2>2. \A r \in Resources :
            cached'[r] # 0 => clients'[cached'[r]].resource = r
      BY <1>4 DEF ProviderInv, OnItsResource, Grown
  <2>3. \A t \in Threads :
            call'[t].pc \in Held /\ call'[t].asked \in Resources =>
                clients'[call'[t].client].resource = call'[t].asked
      BY <1>3 DEF ProviderInv, OnItsResource, Grown
  <2> QED
      BY <2>1, <2>2, <2>3 DEF OnItsResource
<1>6. Isolated'
  <2>1. AloneIsIsolated'
      BY DEF ProviderInv, Isolated, AloneIsIsolated, Grown
  <2>2. ASSUME NEW t \in Threads, call'[t].pc \in Held, call'[t].alone
        PROVE  /\ \A n \in Asked : cached'[n] # call'[t].client
               /\ \A u \in Threads : call'[u].pc \in Held /\ u # t =>
                   call'[u].client # call'[t].client
               /\ \A p \in DOMAIN pullas' :
                   pullas'[p].client # call'[t].client
    <3>1. call'[t] = call[t] /\ call[t].client # 0
        BY <1>1, <1>3, <2>2
    <3> QED
        BY <2>2, <3>1 DEF ProviderInv, Isolated, Grown
  <2>3. ASSUME NEW p \in DOMAIN pullas', pullas'[p].alone
        PROVE  /\ \A n \in Asked : cached'[n] # pullas'[p].client
               /\ \A u \in Threads : call'[u].pc \in Held =>
                   call'[u].client # pullas'[p].client
    <3>1. /\ p \in DOMAIN pullas /\ pullas'[p].client = pullas[p].client
          /\ pullas[p].alone /\ pullas[p].client # 0
        BY <1>1, <1>2, <2>3 DEF Grown
    <3> QED
        BY <3>1 DEF ProviderInv, Isolated
  <2> QED
      BY <2>1, <2>2, <2>3 DEF Isolated
<1> QED
    BY <1>5, <1>6 DEF ProviderInv

LEMMA ReuseKeeps ==
    ASSUME PulseTypeOK, InHand, ProviderInv, NEW t \in Threads, Reuse(t)
    PROVE  ProviderInv'
<1> DEFINE n == cached[call[t].asked]
<1>1. call \in [Threads -> CallOK] /\ call[t] \in CallOK
    BY DEF PulseTypeOK
<1>2. call[t].asked \in Asked
    BY <1>1 DEF CallOK
<1>3. n # 0 /\ ~call[t].alone
    BY DEF Reuse, Usable, Find
<1>4. call' = [call EXCEPT ![t] = [call[t] EXCEPT !.pc = "bind",
                                                   !.client = n]]
    BY <1>1 DEF Reuse, Find
<1>5. /\ call'[t].pc = "bind" /\ call'[t].client = n
      /\ call'[t].asked = call[t].asked /\ ~call'[t].alone
      /\ \A u \in Threads : u # t => call'[u] = call[u]
    BY <1>1, <1>3, <1>4 DEF CallOK
<1>6. UNCHANGED <<clients, cached, pullas>>
    BY DEF Reuse, provider
<1>7. OnItsResource'
  <2>1. PullaIsOnItsResource'
      BY <1>6 DEF ProviderInv, OnItsResource, PullaIsOnItsResource
  <2>2. call[t].asked \in Resources => clients[n].resource = call[t].asked
      BY <1>3 DEF ProviderInv, OnItsResource
  <2> QED
      BY <1>5, <1>6, <2>1, <2>2 DEF ProviderInv, OnItsResource
<1>8. Isolated'
  <2>1. AloneIsIsolated'
      BY <1>6 DEF ProviderInv, Isolated, AloneIsIsolated
  <2>2. ASSUME NEW u \in Threads, call'[u].pc \in Held, call'[u].alone
        PROVE  /\ \A m \in Asked : cached'[m] # call'[u].client
               /\ \A v \in Threads : call'[v].pc \in Held /\ v # u =>
                   call'[v].client # call'[u].client
               /\ \A p \in DOMAIN pullas' :
                   pullas'[p].client # call'[u].client
    <3>1. u # t /\ call'[u] = call[u]
        BY <1>5, <2>2
    <3>2. n # call[u].client
        BY <1>2, <2>2, <3>1 DEF ProviderInv, Isolated
    <3> HIDE DEF n
    <3> QED
        BY <1>5, <1>6, <2>2, <3>1, <3>2 DEF ProviderInv, Isolated
  <2>3. ASSUME NEW p \in DOMAIN pullas', pullas'[p].alone
        PROVE  /\ \A m \in Asked : cached'[m] # pullas'[p].client
               /\ \A u \in Threads : call'[u].pc \in Held =>
                   call'[u].client # pullas'[p].client
    <3>1. p \in DOMAIN pullas /\ pullas[p].alone /\ n # pullas[p].client
        BY <1>2, <1>6, <2>3 DEF ProviderInv, Isolated
    <3> HIDE DEF n
    <3> QED
        BY <1>5, <1>6, <3>1 DEF ProviderInv, Isolated
  <2> QED
      BY <2>1, <2>2, <2>3 DEF Isolated
<1> QED
    BY <1>7, <1>8 DEF ProviderInv

LEMMA BindKeeps ==
    ASSUME PulseTypeOK, InHand, ProviderInv, NEW t \in Threads, Bind(t)
    PROVE  ProviderInv'
<1> DEFINE q == [asked |-> call[t].asked, alone |-> call[t].alone,
                 client |-> call[t].client, jobs |-> <<>>]
<1>1. /\ pullas \in Seq(PullaOK) /\ call \in [Threads -> CallOK]
      /\ call[t].asked \in Asked /\ call[t].pc = "bind"
    BY DEF PulseTypeOK, CallOK, Bind
<1>2. pullas' = Append(pullas, q) /\ UNCHANGED <<clients, cached>>
    BY DEF Bind
<1>3. /\ q.asked = call[t].asked /\ q.alone = call[t].alone
      /\ q.client = call[t].client
    OBVIOUS
<1> HIDE DEF q
<1>4. /\ Len(pullas) \in Nat /\ pullas'[Len(pullas) + 1] = q
      /\ DOMAIN pullas' = DOMAIN pullas \cup {Len(pullas) + 1}
      /\ \A p \in DOMAIN pullas : pullas'[p] = pullas[p]
    BY <1>1, <1>2
<1>5. \A u \in Threads : call'[u].pc \in Held => call'[u] = call[u] /\ u # t
    BY <1>1, NoCallType DEF Bind, Return
<1>6. OnItsResource'
  <2>1. q.asked \in Resources => clients[q.client].resource = q.asked
      BY <1>1, <1>3 DEF ProviderInv, OnItsResource
  <2>2. PullaIsOnItsResource'
      BY <1>1, <1>2, <1>3, <1>4, <2>1
         DEF ProviderInv, OnItsResource, PullaIsOnItsResource, Asked
  <2> QED
      BY <1>2, <1>5, <2>2 DEF ProviderInv, OnItsResource
<1>7. Isolated'
  <2>1. \A p \in DOMAIN pullas :
            pullas[p].alone \/ q.alone => pullas[p].client # q.client
      BY <1>1, <1>3 DEF ProviderInv, Isolated
  <2>2. \A p, r \in DOMAIN pullas :
            pullas[p].alone /\ pullas[r].client = pullas[p].client => p = r
      BY DEF ProviderInv, Isolated, AloneIsIsolated
  <2>3. AloneIsIsolated'
      BY <1>4, <2>1, <2>2 DEF AloneIsIsolated
  <2>4. ASSUME NEW u \in Threads, call'[u].pc \in Held, call'[u].alone
        PROVE  /\ \A m \in Asked : cached'[m] # call'[u].client
               /\ \A v \in Threads : call'[v].pc \in Held /\ v # u =>
                   call'[v].client # call'[u].client
               /\ \A p \in DOMAIN pullas' :
                   pullas'[p].client # call'[u].client
    <3>1. call'[u] = call[u] /\ u # t
        BY <1>5, <2>4
    <3>2. q.client # call[u].client
        BY <1>1, <1>3, <2>4, <3>1 DEF ProviderInv, Isolated
    <3> QED
        BY <1>2, <1>4, <1>5, <2>4, <3>1, <3>2 DEF ProviderInv, Isolated
  <2>5. ASSUME NEW p \in DOMAIN pullas', pullas'[p].alone
        PROVE  /\ \A m \in Asked : cached'[m] # pullas'[p].client
               /\ \A u \in Threads : call'[u].pc \in Held =>
                   call'[u].client # pullas'[p].client
    <3>1. CASE p \in DOMAIN pullas
        BY <1>2, <1>4, <1>5, <2>5, <3>1 DEF ProviderInv, Isolated
    <3>2. CASE p = Len(pullas) + 1
        BY <1>1, <1>2, <1>3, <1>4, <1>5, <2>5, <3>2
           DEF ProviderInv, Isolated
    <3> QED
        BY <1>4, <3>1, <3>2
  <2> QED
      BY <2>3, <2>4, <2>5 DEF Isolated
<1> QED
    BY <1>6, <1>7 DEF ProviderInv

LEMMA ConnectKeeps ==
    ASSUME PulseTypeOK, InHand, ProviderInv, NEW t \in Threads, Connect(t)
    PROVE  ProviderInv'
<1>1. /\ call \in [Threads -> CallOK] /\ clients \in Seq(ClientOK)
      /\ Len(clients) \in Nat /\ DOMAIN clients = 1..Len(clients)
    BY DEF PulseTypeOK
<1>2. PICK c : c = Len(clients) + 1
    OBVIOUS
<1>3. PICK r \in Resources :
          /\ call[t].asked \in Resources => r = call[t].asked
          /\ clients' = Append(clients, ClientIn(r))
          /\ call'[t].pc = "keep" /\ call'[t].client = c
          /\ call'[t].asked = call[t].asked
          /\ call'[t].alone = call[t].alone
          /\ \A u \in Threads : u # t => call'[u] = call[u]
          /\ UNCHANGED <<cached, pullas>>
    BY <1>2, ConnectFacts
<1>4. /\ clients'[c].resource = r /\ c \notin DOMAIN clients /\ c # 0
      /\ \A d \in DOMAIN clients : clients'[d] = clients[d]
    BY <1>1, <1>2, <1>3 DEF ClientIn
<1>5. /\ \A p \in DOMAIN pullas : pullas[p].client \in DOMAIN clients
      /\ \A u \in Threads :
          call[u].pc \in Held => call[u].client \in DOMAIN clients
      /\ \A n \in Asked : cached[n] = 0 \/ cached[n] \in DOMAIN clients
      /\ Resources \subseteq Asked
    BY DEF PulseTypeOK, InHand, CallInHand, Asked
<1>6. OnItsResource'
  <2>1. PullaIsOnItsResource'
      BY <1>3, <1>4, <1>5
         DEF ProviderInv, OnItsResource, PullaIsOnItsResource
  <2>2. \A n \in Resources :
            cached'[n] # 0 => clients'[cached'[n]].resource = n
      BY <1>3, <1>4, <1>5 DEF ProviderInv, OnItsResource
  <2>3. ASSUME NEW u \in Threads, call'[u].pc \in Held,
               call'[u].asked \in Resources
        PROVE  clients'[call'[u].client].resource = call'[u].asked
    <3>1. CASE u = t
        BY <1>3, <1>4, <2>3, <3>1
    <3>2. CASE u # t
      <4>1. call'[u] = call[u] /\ call[u].client \in DOMAIN clients
          BY <1>3, <1>5, <2>3, <3>2
      <4>2. clients[call[u].client].resource = call[u].asked
          BY <2>3, <4>1 DEF ProviderInv, OnItsResource
      <4> QED
          BY <1>4, <4>1, <4>2
    <3> QED
        BY <3>1, <3>2
  <2> QED
      BY <2>1, <2>2, <2>3 DEF OnItsResource
<1>7. Isolated'
  <2>1. AloneIsIsolated'
      BY <1>3 DEF ProviderInv, Isolated, AloneIsIsolated
  <2>2. ASSUME NEW u \in Threads, call'[u].pc \in Held, call'[u].alone
        PROVE  /\ \A m \in Asked : cached'[m] # call'[u].client
               /\ \A v \in Threads : call'[v].pc \in Held /\ v # u =>
                   call'[v].client # call'[u].client
               /\ \A p \in DOMAIN pullas' :
                   pullas'[p].client # call'[u].client
    <3>1. CASE u = t
      <4>1. \A m \in Asked : cached'[m] = cached[m] /\ cached[m] # c
          BY <1>3, <1>4, <1>5
      <4> QED
          BY <1>3, <1>4, <1>5, <3>1, <4>1
    <3>2. CASE u # t
      <4>1. call'[u] = call[u] /\ call[u].client \in DOMAIN clients
          BY <1>3, <1>5, <2>2, <3>2
      <4>2. call[u].client # c
          BY <1>4, <4>1
      <4>3. /\ \A n \in Asked : cached[n] # call[u].client
            /\ \A v \in Threads : call[v].pc \in Held /\ v # u =>
                call[v].client # call[u].client
            /\ \A p \in DOMAIN pullas : pullas[p].client # call[u].client
          BY <2>2, <4>1 DEF ProviderInv, Isolated
      <4>4. \A v \in Threads : call'[v].pc \in Held /\ v # u =>
                call'[v].client # call[u].client
          BY <1>3, <4>2, <4>3
      <4> QED
          BY <1>3, <4>1, <4>3, <4>4
    <3> QED
        BY <3>1, <3>2
  <2>3. ASSUME NEW p \in DOMAIN pullas', pullas'[p].alone
        PROVE  /\ \A m \in Asked : cached'[m] # pullas'[p].client
               /\ \A u \in Threads : call'[u].pc \in Held =>
                   call'[u].client # pullas'[p].client
    <3>1. /\ p \in DOMAIN pullas /\ pullas[p].alone /\ pullas' = pullas
          /\ pullas[p].client # c
        BY <1>3, <1>4, <1>5, <2>3
    <3> QED
        BY <1>3, <3>1 DEF ProviderInv, Isolated
  <2> QED
      BY <2>1, <2>2, <2>3 DEF Isolated
<1> QED
    BY <1>6, <1>7 DEF ProviderInv

LEMMA KeepKeeps ==
    ASSUME PulseTypeOK, InHand, ProviderInv, NEW t \in Threads, Keep(t)
    PROVE  ProviderInv'
<1>1. PICK c : c = call[t].client
    OBVIOUS
<1>2. PICK r \in Resources :
          /\ call[t].asked \in Resources => r = call[t].asked
          /\ clients[c].resource = r
          /\ \A n \in Asked :
                 cached'[n] = IF n \in Names(t, r) THEN c ELSE cached[n]
          /\ call[t].pc = "keep" /\ call'[t].pc = "bind"
          /\ call'[t].client = c
          /\ call'[t].asked = call[t].asked
          /\ call'[t].alone = call[t].alone
          /\ \A u \in Threads : u # t => call'[u] = call[u]
          /\ UNCHANGED <<clients, pullas>>
    BY <1>1, KeepFacts
<1>3. /\ \A n \in Names(t, r) \cap Resources : n = r
      /\ call[t].alone => Names(t, r) = {}
      /\ Resources \subseteq Asked
    BY <1>2 DEF Names, Asked
<1>4. \A u \in Threads :
          call'[u].pc \in Held =>
              /\ call[u].pc \in Held /\ call'[u].client = call[u].client
              /\ call'[u].asked = call[u].asked
              /\ call'[u].alone = call[u].alone
    BY <1>1, <1>2
<1>5. OnItsResource'
  <2>1. PullaIsOnItsResource'
      BY <1>2 DEF ProviderInv, OnItsResource, PullaIsOnItsResource
  <2>2. ASSUME NEW n \in Resources, cached'[n] # 0
        PROVE  clients'[cached'[n]].resource = n
    <3>1. CASE n \in Names(t, r)
        BY <1>2, <1>3, <3>1
    <3>2. CASE n \notin Names(t, r)
        BY <1>2, <1>3, <2>2, <3>2 DEF ProviderInv, OnItsResource
    <3> QED
        BY <3>1, <3>2
  <2>3. \A u \in Threads :
            call'[u].pc \in Held /\ call'[u].asked \in Resources =>
                clients'[call'[u].client].resource = call'[u].asked
      BY <1>2, <1>4 DEF ProviderInv, OnItsResource
  <2> QED
      BY <2>1, <2>2, <2>3 DEF OnItsResource
<1>6. Isolated'
  <2>1. AloneIsIsolated'
      BY <1>2 DEF ProviderInv, Isolated, AloneIsIsolated
  <2>2. ASSUME NEW u \in Threads, call'[u].pc \in Held, call'[u].alone
        PROVE  /\ \A m \in Asked : cached'[m] # call'[u].client
               /\ \A v \in Threads : call'[v].pc \in Held /\ v # u =>
                   call'[v].client # call'[u].client
               /\ \A p \in DOMAIN pullas' :
                   pullas'[p].client # call'[u].client
    <3>1. /\ call[u].pc \in Held /\ call[u].alone
          /\ call'[u].client = call[u].client
        BY <1>4, <2>2
    <3>2. /\ \A n \in Asked : cached[n] # call[u].client
          /\ \A v \in Threads : call[v].pc \in Held /\ v # u =>
              call[v].client # call[u].client
          /\ \A p \in DOMAIN pullas : pullas[p].client # call[u].client
        BY <3>1 DEF ProviderInv, Isolated
    <3>3. Names(t, r) # {} => c # call[u].client
        BY <1>1, <1>2, <1>3, <3>1, <3>2
    <3>4. \A m \in Asked : cached'[m] # call[u].client
        BY <1>2, <3>2, <3>3
    <3>5. \A v \in Threads : call'[v].pc \in Held /\ v # u =>
              call'[v].client # call[u].client
        BY <1>4, <3>2
    <3> QED
        BY <1>2, <3>1, <3>2, <3>4, <3>5
  <2>3. ASSUME NEW p \in DOMAIN pullas', pullas'[p].alone
        PROVE  /\ \A m \in Asked : cached'[m] # pullas'[p].client
               /\ \A u \in Threads : call'[u].pc \in Held =>
                   call'[u].client # pullas'[p].client
    <3>1. p \in DOMAIN pullas /\ pullas[p].alone /\ pullas' = pullas
        BY <1>2, <2>3
    <3>2. /\ \A n \in Asked : cached[n] # pullas[p].client
          /\ \A u \in Threads : call[u].pc \in Held =>
              call[u].client # pullas[p].client
        BY <3>1 DEF ProviderInv, Isolated
    <3>3. c # pullas[p].client
        BY <1>1, <1>2, <3>2
    <3> QED
        BY <1>2, <1>4, <3>1, <3>2, <3>3
  <2> QED
      BY <2>1, <2>2, <2>3 DEF Isolated
<1> QED
    BY <1>5, <1>6 DEF ProviderInv

LEMMA ProviderNext ==
    ASSUME ExecutorInv, ProviderInv, [Next]_vars
    PROVE  ProviderInv'
<1>1. PulseTypeOK /\ InHand /\ Grown /\ call \in [Threads -> CallOK]
    BY Growth DEF ExecutorInv, PulseTypeOK
<1> DEFINE Quiet ==
        /\ \A n \in Asked : cached'[n] \in {0, cached[n]}
        /\ DOMAIN pullas' = DOMAIN pullas
        /\ \A u \in Threads : call'[u].pc \in Held => call'[u] = call[u]
<1>2. Quiet => ProviderInv'
    BY <1>1, QuietKeeps
<1>3. ASSUME NEW t \in Threads, Start(t)
      PROVE  Quiet
  <2>1. PICK c : /\ call' = [call EXCEPT ![t] = c]
                 /\ c.pc \in {"choose", "serialize", "look", "fetch"}
      BY <1>3, StartFacts
  <2>2. UNCHANGED <<cached, pullas>>
      BY <1>3, StartFacts
  <2> QED
      BY <1>1, <2>1, <2>2
<1>4. ASSUME NEW t \in Threads, Open(t) \/ Serialize(t) \/ Answer(t)
      PROVE  Quiet
    BY <1>1, <1>4 DEF Open, Go, Serialize, Answer, provider, CallOK
<1>5. ASSUME NEW t \in Threads, Accept(t)
      PROVE  Quiet
    BY <1>1, <1>5 DEF Accept, provider, CallOK
<1>6. ASSUME NEW t \in Threads, Fetch(t) \/ Fail(t)
      PROVE  Quiet
    BY <1>1, <1>6 DEF Fetch, Fail, Return, NoCall, provider, CallOK
<1>7. ASSUME NEW t \in Threads, Record(t)
      PROVE  Quiet
    BY <1>1, <1>7 DEF Record, Remember, Return, NoCall, CallOK
<1>8. ASSUME NEW t \in Threads, LookUp(t)
      PROVE  Quiet
    BY <1>1, <1>8 DEF LookUp, Remember, CallOK
<1>9. ASSUME ClearCache \/ Regrant \/ UNCHANGED vars
      PROVE  Quiet
    BY <1>9 DEF ClearCache, Regrant, provider, vars
<1>10. ASSUME NEW c \in DOMAIN clients, Close(c)
       PROVE  Quiet
  <2>1. \A u \in Threads : call'[u] = call[u] \/ call'[u] = Lost
      BY <1>1, <1>10, CloseMoves
  <2> QED
      BY <1>10, <2>1, LostType DEF Close
<1> QED
    BY <1>1, <1>2, <1>3, <1>4, <1>5, <1>6, <1>7, <1>8, <1>9, <1>10,
       ReuseKeeps, BindKeeps, ConnectKeeps, KeepKeeps DEF Next, Step

LEMMA ProviderAlways == Spec => []ProviderInv
<1>1. Init => ProviderInv
    BY PulseInit
<1>2. ExecutorInv /\ ProviderInv /\ [Next]_vars => ProviderInv'
    BY ProviderNext
<1> QED
    BY <1>1, <1>2, ExecutorAlways, PTL DEF Spec

\* `get_pulla(name)' leads to the resource of that name, however the cache of
\* clients came to be.
THEOREM PullaIsAlwaysOnItsResource == Spec => []PullaIsOnItsResource
<1>1. ProviderInv => PullaIsOnItsResource
    BY DEF ProviderInv, OnItsResource
<1> QED
    BY <1>1, ProviderAlways, PTL

\* A client made with further arguments is never shared by two QPullas.
THEOREM AloneIsAlwaysIsolated == Spec => []AloneIsIsolated
<1>1. ProviderInv => AloneIsIsolated
    BY DEF ProviderInv, Isolated
<1> QED
    BY <1>1, ProviderAlways, PTL

-----------------------------------------------------------------------------
(***************************************************************************)
(* The automatic choice.  While one thread asks and no client is lost, a   *)
(* name that has an entry keeps it, so there is one automatic choice, and  *)
(* its client is the one under the name of its resource.                   *)
(***************************************************************************)
Undisturbed ==
    /\ Cardinality(World.threads) = 1
    /\ ~World.clears
    /\ \A c \in DOMAIN clients : clients[c].up

AtWork == \A t \in Threads : call[t].pc # "idle" => t \in World.threads

ChosenHasItsName ==
    cached[None] # 0 =>
        cached[clients[cached[None]].resource] = cached[None]

\* What a thread has found in the cache is still so.
FoundIsCached ==
    \A t \in Threads : ~call[t].alone =>
        /\ call[t].pc \in {"connect", "keep"} => cached[call[t].asked] = 0
        /\ call[t].pc = "bind" => call[t].client = cached[call[t].asked]

ChosenIsOne ==
    \A p \in DOMAIN pullas : ~pullas[p].alone /\ pullas[p].asked = None =>
        pullas[p].client = cached[None]

\* `q' was asked for under the name of what had been chosen for `p'.
Follows(p, q) ==
    /\ ~pullas[p].alone /\ ~pullas[q].alone /\ p < q
    /\ pullas[p].asked = None
    /\ pullas[q].asked = clients[pullas[p].client].resource

FollowersShare ==
    \A p, q \in DOMAIN pullas :
        Follows(p, q) => pullas[q].client = pullas[p].client

NamesLead ==
    ChosenHasItsName /\ FoundIsCached /\ ChosenIsOne /\ FollowersShare

SharedInv == AtWork /\ (Undisturbed => NamesLead)

LEMMA OneAtWork ==
    ASSUME PulseTypeOK, AtWork, Undisturbed,
           NEW t \in Threads, t \in World.threads,
           NEW u \in Threads, u # t
    PROVE  call[u].pc = "idle"
<1>1. World.threads \subseteq Threads /\ IsFiniteSet(Threads)
    BY WorldType, PulseAssumption
<1>2. IsFiniteSet(World.threads)
    BY <1>1, FS_Subset
<1>3. PICK x : World.threads = {x}
    BY <1>2, FS_Singleton DEF Undisturbed
<1> QED
    BY <1>3 DEF AtWork

\* What is undisturbed has been so.
LEMMA WasUndisturbed ==
    ASSUME PulseTypeOK, [Next]_vars, Undisturbed'
    PROVE  Undisturbed
<1>1. world' = world
    BY DEF Next, Start, Step, GetPulla, SubmitJob, GetArtifact, Reuse, Open,
       Connect, Keep, Bind, Serialize, Accept, Answer, Record, LookUp, Fetch,
       Fail, ClearCache, Regrant, Close, vars
<1>2. \A c \in DOMAIN clients :
          c \in DOMAIN clients' /\ (clients'[c].up => clients[c].up)
  <2>1. CASE UNCHANGED clients
      BY <2>1
  <2>2. ASSUME NEW x, clients' = Append(clients, x)
        PROVE  \A c \in DOMAIN clients :
                   c \in DOMAIN clients' /\ clients'[c] = clients[c]
    <3>1. clients \in Seq(ClientOK)
        BY DEF PulseTypeOK
    <3> QED
        BY <2>2, <3>1
  <2>3. ASSUME NEW d \in DOMAIN clients,
               clients' = [clients EXCEPT ![d].up = FALSE]
        PROVE  \A c \in DOMAIN clients :
                   /\ c \in DOMAIN clients'
                   /\ clients'[c].up => clients[c].up
    <3>1. clients \in Seq(ClientOK)
        BY DEF PulseTypeOK
    <3>2. \A c \in DOMAIN clients : clients[c] \in ClientOK
        BY <3>1
    <3> QED
        BY <2>3, <3>2 DEF ClientOK
  <2>4. \/ UNCHANGED clients
        \/ \E x : clients' = Append(clients, x)
        \/ \E d \in DOMAIN clients :
               clients' = [clients EXCEPT ![d].up = FALSE]
      BY DEF Next, Start, Step, GetPulla, SubmitJob, GetArtifact, Reuse,
         Open, Connect, Keep, Bind, Serialize, Accept, Answer, Record, LookUp,
         Fetch, Fail, ClearCache, Regrant, Close, provider, vars
  <2> QED
      BY <2>1, <2>2, <2>3, <2>4
<1> QED
    BY <1>1, <1>2 DEF Undisturbed, World

\* Only threads that the program has are at work.
LEMMA AtWorkNext ==
    ASSUME PulseTypeOK, AtWork, [Next]_vars
    PROVE  AtWork'
<1>1. world' = world
    BY DEF Next, Start, Step, GetPulla, SubmitJob, GetArtifact, Reuse, Open,
       Connect, Keep, Bind, Serialize, Accept, Answer, Record, LookUp, Fetch,
       Fail, ClearCache, Regrant, Close, vars
<1>2. call \in [Threads -> CallOK]
    BY DEF PulseTypeOK
<1>3. ASSUME NEW t \in Threads, Start(t)
      PROVE  \A u \in Threads : call'[u] = call[u] \/ u \in World.threads
    BY <1>2, <1>3 DEF Start, GetPulla, SubmitJob, GetArtifact, Begin
<1>4. ASSUME NEW t \in Threads, Step(t)
      PROVE  \A u \in Threads : call'[u] = call[u] \/ call[u].pc # "idle"
  <2>1. call[t].pc # "idle"
      BY <1>4 DEF Step, Reuse, Open, Connect, Keep, Bind, Serialize, Accept,
         Answer, Record, LookUp, Fetch, Fail, Waiting, OnClient
  <2>2. \A u \in Threads : u # t => call'[u] = call[u]
      BY <1>2, <1>4 DEF Step, Reuse, Open, Go, Connect, Keep, Bind, Serialize,
         Accept, Answer, Record, LookUp, Fetch, Fail, Return
  <2> QED
      BY <2>1, <2>2
<1>5. CASE UNCHANGED call
    BY <1>1, <1>5 DEF AtWork, World
<1>6. ASSUME NEW c \in DOMAIN clients, Close(c)
      PROVE  \A u \in Threads : call'[u] = call[u] \/ call[u].pc # "idle"
    BY <1>6, CloseMoves DEF OnClient
<1>7. ASSUME ~UNCHANGED call
      PROVE  \/ \E t \in Threads : Start(t) \/ Step(t)
             \/ \E c \in DOMAIN clients : Close(c)
    BY <1>7 DEF Next, ClearCache, Regrant, vars
<1> QED
    BY <1>1, <1>3, <1>4, <1>5, <1>6, <1>7 DEF AtWork, World

\* Where a call has what the cache told it.
Told == {"connect", "keep", "bind"}

\* A step that changes neither the cache nor what a call was told.
LEMMA QuietLeads ==
    ASSUME PulseTypeOK, Grown, NamesLead, UNCHANGED cached,
           DOMAIN pullas' = DOMAIN pullas, FoundIsCached'
    PROVE  NamesLead'
<1>1. /\ \A p \in DOMAIN pullas : pullas[p].client \in DOMAIN clients
      /\ \A n \in Asked : cached[n] # 0 => cached[n] \in DOMAIN clients
      /\ None \in Asked
    BY DEF PulseTypeOK, Asked
<1>2. ChosenHasItsName'
  <2>1. cached[None] # 0 => clients'[cached[None]].resource
                                = clients[cached[None]].resource
      BY <1>1 DEF Grown
  <2> QED
      BY <2>1 DEF NamesLead, ChosenHasItsName
<1>3. FoundIsCached'
    OBVIOUS
<1>4. ChosenIsOne'
    BY DEF NamesLead, ChosenIsOne, Grown
<1>5. ASSUME NEW p \in DOMAIN pullas, NEW q \in DOMAIN pullas, Follows(p, q)'
      PROVE  pullas'[q].client = pullas'[p].client
  <2>1. Follows(p, q)
      BY <1>1, <1>5 DEF Follows, Grown
  <2> QED
      BY <2>1 DEF NamesLead, FollowersShare, Grown
<1> QED
    BY <1>2, <1>3, <1>4, <1>5 DEF NamesLead, FollowersShare

\* The steps of the call that looks into the cache.
LEMMA LookLeads ==
    ASSUME PulseTypeOK, Undisturbed, NamesLead, NEW t \in Threads,
           Reuse(t) \/ Open(t)
    PROVE  NamesLead'
<1>1. /\ call \in [Threads -> CallOK] /\ call[t] \in CallOK
      /\ call[t].asked \in Asked
    BY DEF PulseTypeOK, CallOK
<1>2. PICK n : n = cached[call[t].asked]
    OBVIOUS
<1>3. n = 0 \/ clients[n].up
    BY <1>1, <1>2 DEF PulseTypeOK, Undisturbed
<1>4. UNCHANGED <<cached, pullas, clients>>
    BY DEF Reuse, Open, provider
<1>5. \A u \in Threads : u # t => call'[u] = call[u]
    BY <1>1 DEF Reuse, Open, Go
<1>6. /\ call'[t].asked = call[t].asked /\ call'[t].alone = call[t].alone
      /\ call'[t].pc # "keep"
      /\ ~call[t].alone /\ call'[t].pc = "connect" => n = 0
      /\ call'[t].pc = "bind" => call'[t].client = n
  <2>1. CASE Reuse(t)
      BY <1>1, <1>2, <2>1 DEF Reuse, Find, CallOK
  <2>2. CASE Open(t)
    <3>1. call' = [call EXCEPT ![t].pc = "connect"] /\ ~Usable(t)
        BY <2>2 DEF Open, Go
    <3>2. ~call[t].alone => n = 0
        BY <1>2, <1>3, <3>1 DEF Usable, Find
    <3> QED
        BY <1>1, <3>1, <3>2 DEF CallOK
  <2> QED
      BY <2>1, <2>2
<1>7. FoundIsCached'
  <2> SUFFICES ASSUME NEW u \in Threads, ~call'[u].alone
               PROVE  /\ call'[u].pc \in {"connect", "keep"} =>
                             cached'[call'[u].asked] = 0
                      /\ call'[u].pc = "bind" =>
                             call'[u].client = cached'[call'[u].asked]
      BY DEF FoundIsCached
  <2>1. CASE u = t
      BY <1>2, <1>4, <1>6, <2>1
  <2>2. CASE u # t
      BY <1>4, <1>5, <2>2 DEF NamesLead, FoundIsCached
  <2> QED
      BY <2>1, <2>2
<1> QED
    BY <1>4, <1>7
       DEF NamesLead, ChosenHasItsName, ChosenIsOne, FollowersShare, Follows

LEMMA ConnectLeads ==
    ASSUME PulseTypeOK, Grown, NamesLead, NEW t \in Threads, Connect(t)
    PROVE  NamesLead'
<1>1. /\ call'[t].pc = "keep"
      /\ call'[t].asked = call[t].asked
      /\ call'[t].alone = call[t].alone
      /\ \A u \in Threads : u # t => call'[u] = call[u]
      /\ UNCHANGED <<cached, pullas>>
    BY ConnectFacts
<1>2. call[t].pc = "connect"
    BY DEF Connect
<1>3. FoundIsCached'
    BY <1>1, <1>2 DEF NamesLead, FoundIsCached
<1> QED
    BY <1>1, <1>3, QuietLeads

\* Only one thread is there, so what it was told before it connected is still
\* so when it stores the client.
LEMMA KeepLeads ==
    ASSUME PulseTypeOK, InHand, ProviderInv, AtWork, Undisturbed, NamesLead,
           NEW t \in Threads, Keep(t)
    PROVE  NamesLead'
<1>1. /\ call \in [Threads -> CallOK] /\ clients \in Seq(ClientOK)
      /\ call[t].asked \in Asked /\ None \in Asked
      /\ DOMAIN clients \subseteq Nat /\ 0 \notin DOMAIN clients
    BY DEF PulseTypeOK, CallOK, Asked
<1>2. PICK c : c = call[t].client
    OBVIOUS
<1>3. PICK r \in Resources :
          /\ call[t].asked \in Resources => r = call[t].asked
          /\ c \in DOMAIN clients /\ clients[c].resource = r
          /\ \A n \in Asked :
                 cached'[n] = IF n \in Names(t, r) THEN c ELSE cached[n]
          /\ call[t].pc = "keep" /\ call'[t].pc = "bind"
          /\ call'[t].client = c
          /\ call'[t].asked = call[t].asked
          /\ call'[t].alone = call[t].alone
          /\ \A u \in Threads : u # t => call'[u] = call[u]
          /\ UNCHANGED <<clients, pullas>>
    BY <1>2, KeepFacts
<1>4. \A u \in Threads : u # t => call'[u].pc = "idle"
  <2>1. t \in World.threads
      BY <1>3 DEF AtWork
  <2>2. \A u \in Threads : u # t => call[u].pc = "idle"
      BY <2>1, OneAtWork
  <2> QED
      BY <1>3, <2>2
<1>5. /\ clients'[c].resource = r /\ c # 0
      /\ \A d \in DOMAIN clients : clients'[d] = clients[d]
    BY <1>1, <1>3
<1>6. /\ r \in Asked /\ r # None
      /\ \A n \in Asked : cached[n] # 0 => cached[n] \in DOMAIN clients
      /\ \A p \in DOMAIN pullas :
          pullas[p].client \in DOMAIN clients /\ pullas[p].client # 0
    BY <1>1, NoneIsApart DEF PulseTypeOK, Asked
<1>7. ASSUME ~call[t].alone
      PROVE  cached[call[t].asked] = 0 /\ Names(t, r) = {call[t].asked, r}
    BY <1>3, <1>7 DEF Names, NamesLead, FoundIsCached
<1>8. call[t].alone => \A n \in Asked : cached'[n] = cached[n]
    BY <1>3 DEF Names
<1>9. CASE call[t].alone
  <2>1. \A n \in Asked : cached'[n] = cached[n]
      BY <1>8, <1>9
  <2>2. ChosenHasItsName'
    <3> SUFFICES ASSUME cached'[None] # 0
                 PROVE  cached'[clients'[cached'[None]].resource]
                            = cached'[None]
        BY DEF ChosenHasItsName
    <3>1. PICK d : d = cached[None]
        OBVIOUS
    <3>2. d \in DOMAIN clients /\ d # 0 /\ cached'[None] = d
        BY <1>1, <1>6, <2>1, <3>1
    <3>3. clients[d].resource \in Asked /\ clients'[d] = clients[d]
      <4>1. clients[d] \in ClientOK
          BY <1>1, <3>2
      <4> QED
          BY <1>5, <3>2, <4>1 DEF ClientOK, Asked
    <3>4. cached[clients[d].resource] = d
        BY <3>1, <3>2 DEF NamesLead, ChosenHasItsName
    <3> QED
        BY <2>1, <3>2, <3>3, <3>4
  <2>3. FoundIsCached'
      BY <1>3, <1>4, <1>9 DEF FoundIsCached
  <2>4. ChosenIsOne'
      BY <1>1, <1>3, <2>1 DEF NamesLead, ChosenIsOne
  <2>5. FollowersShare'
      BY <1>3, <1>5, <1>6 DEF NamesLead, FollowersShare, Follows
  <2> QED
      BY <2>2, <2>3, <2>4, <2>5 DEF NamesLead
<1>10. CASE ~call[t].alone
  <2>1. /\ \A n \in Asked : n \notin {call[t].asked, r} =>
               cached'[n] = cached[n]
        /\ cached'[call[t].asked] = c /\ cached'[r] = c
        /\ cached[call[t].asked] = 0
      BY <1>1, <1>3, <1>6, <1>7, <1>10
  <2>2. FoundIsCached'
    <3> SUFFICES ASSUME NEW u \in Threads
                 PROVE  /\ call'[u].pc \notin {"connect", "keep"}
                        /\ call'[u].pc = "bind" =>
                               call'[u].client = cached'[call'[u].asked]
        BY DEF FoundIsCached
    <3>1. CASE u = t
        BY <1>3, <2>1, <3>1
    <3>2. CASE u # t
        BY <1>4, <3>2
    <3> QED
        BY <3>1, <3>2
  <2>3. FollowersShare'
      BY <1>3, <1>5, <1>6 DEF NamesLead, FollowersShare, Follows
  <2>4. CASE call[t].asked = None
    <3>1. cached'[None] = c /\ cached'[r] = c /\ clients'[c].resource = r
        BY <1>5, <2>1, <2>4
    <3>2. ChosenHasItsName'
        BY <3>1 DEF ChosenHasItsName
    <3>3. ~ \E p \in DOMAIN pullas :
                ~pullas[p].alone /\ pullas[p].asked = None
        BY <1>6, <2>1, <2>4 DEF NamesLead, ChosenIsOne
    <3>4. ChosenIsOne'
        BY <1>3, <3>3 DEF ChosenIsOne
    <3> QED
        BY <2>2, <2>3, <3>2, <3>4 DEF NamesLead
  <2>5. CASE call[t].asked # None
    <3>1. call[t].asked = r /\ cached[r] = 0
        BY <1>1, <1>3, <2>1, <2>5 DEF Asked
    <3>2. \A n \in Asked : n # r => cached'[n] = cached[n]
        BY <2>1, <3>1
    <3>3. cached'[None] = cached[None]
        BY <1>1, <1>6, <3>2
    <3>4. ChosenHasItsName'
      <4> SUFFICES ASSUME cached'[None] # 0
                   PROVE  cached'[clients'[cached'[None]].resource]
                              = cached'[None]
          BY DEF ChosenHasItsName
      <4>1. PICK d : d = cached[None]
          OBVIOUS
      <4>2. d \in DOMAIN clients /\ d # 0 /\ cached'[None] = d
          BY <1>1, <1>6, <3>3, <4>1
      <4>3. clients[d].resource \in Asked /\ clients'[d] = clients[d]
        <5>1. clients[d] \in ClientOK
            BY <1>1, <4>2
        <5> QED
            BY <1>5, <4>2, <5>1 DEF ClientOK, Asked
      <4>4. cached[clients[d].resource] = d
          BY <4>1, <4>2 DEF NamesLead, ChosenHasItsName
      <4>5. clients[d].resource # r
          BY <3>1, <4>2, <4>4
      <4> QED
          BY <3>2, <4>2, <4>3, <4>4, <4>5
    <3>5. ChosenIsOne'
        BY <1>3, <3>3 DEF NamesLead, ChosenIsOne
    <3> QED
        BY <2>2, <2>3, <3>4, <3>5 DEF NamesLead
  <2> QED
      BY <2>4, <2>5
<1> QED
    BY <1>9, <1>10

LEMMA BindLeads ==
    ASSUME PulseTypeOK, InHand, AtWork, Undisturbed, NamesLead,
           NEW t \in Threads, Bind(t)
    PROVE  NamesLead'
<1>1. /\ pullas \in Seq(PullaOK) /\ call \in [Threads -> CallOK]
      /\ call[t].asked \in Asked /\ call[t].pc = "bind"
      /\ Len(pullas) \in Nat /\ DOMAIN pullas = 1..Len(pullas)
    BY DEF PulseTypeOK, CallOK, Bind
<1>2. PICK x : x = [asked |-> call[t].asked, alone |-> call[t].alone,
                    client |-> call[t].client, jobs |-> <<>>]
    OBVIOUS
<1>3. pullas' = Append(pullas, x) /\ UNCHANGED <<clients, cached>>
    BY <1>2 DEF Bind
<1>4. /\ x.asked = call[t].asked /\ x.alone = call[t].alone
      /\ x.client = call[t].client
    BY <1>2
<1>5. PICK m \in Nat : m = Len(pullas) + 1
    BY <1>1
<1>6. /\ pullas'[m] = x /\ m \notin DOMAIN pullas
      /\ DOMAIN pullas' = DOMAIN pullas \cup {m}
      /\ \A p \in DOMAIN pullas : pullas'[p] = pullas[p] /\ p < m
    BY <1>1, <1>3, <1>5
<1>7. \A u \in Threads : call'[u].pc \in Told => call'[u] = call[u]
    BY <1>1, NoCallType DEF Bind, Return, Told
<1>8. ~x.alone => x.client = cached[x.asked]
    BY <1>1, <1>4 DEF NamesLead, FoundIsCached
<1>9. ChosenIsOne'
    BY <1>3, <1>6, <1>8 DEF NamesLead, ChosenIsOne
<1>10. FollowersShare'
  <2> SUFFICES ASSUME NEW p \in DOMAIN pullas', NEW q \in DOMAIN pullas',
                      Follows(p, q)'
               PROVE  pullas'[q].client = pullas'[p].client
      BY DEF FollowersShare
  <2>1. p \in DOMAIN pullas
    <3>1. p # m
        BY <1>1, <1>6 DEF Follows
    <3> QED
        BY <1>6, <3>1
  <2>2. CASE q \in DOMAIN pullas
      BY <1>3, <1>6, <2>1, <2>2 DEF NamesLead, FollowersShare, Follows
  <2>3. CASE q = m
    <3>1. PICK d : d = pullas[p].client
        OBVIOUS
    <3>2. /\ d = cached[None] /\ d \in DOMAIN clients /\ d # 0
        BY <1>6, <2>1, <3>1
           DEF Follows, NamesLead, ChosenIsOne, PulseTypeOK
    <3>3. x.asked = clients[d].resource /\ ~x.alone
        BY <1>3, <1>6, <2>1, <2>3, <3>1 DEF Follows
    <3>4. cached[x.asked] = d
        BY <3>2, <3>3 DEF NamesLead, ChosenHasItsName
    <3> QED
        BY <1>6, <1>8, <2>1, <2>3, <3>1, <3>3, <3>4
  <2> QED
      BY <1>6, <2>2, <2>3
<1> QED
    BY <1>3, <1>7, <1>9, <1>10
       DEF NamesLead, ChosenHasItsName, FoundIsCached, Told

LEMMA SharedNext ==
    ASSUME ExecutorInv, ProviderInv, SharedInv, [Next]_vars
    PROVE  SharedInv'
<1>1. /\ PulseTypeOK /\ InHand /\ Grown /\ AtWork
      /\ call \in [Threads -> CallOK]
    BY Growth DEF ExecutorInv, PulseTypeOK, SharedInv
<1>2. AtWork'
    BY <1>1, AtWorkNext
<1>3. SUFFICES ASSUME Undisturbed'
               PROVE  NamesLead'
    BY <1>2 DEF SharedInv
<1>4. Undisturbed /\ NamesLead
    BY <1>1, <1>3, WasUndisturbed DEF SharedInv
<1> DEFINE Quiet ==
        /\ UNCHANGED cached
        /\ DOMAIN pullas' = DOMAIN pullas
        /\ \A u \in Threads : call'[u].pc \in Told => call'[u] = call[u]
<1>5. ASSUME Quiet
      PROVE  NamesLead'
  <2>1. FoundIsCached'
      BY <1>4, <1>5 DEF NamesLead, FoundIsCached, Told
  <2> QED
      BY <1>1, <1>4, <1>5, <2>1, QuietLeads
<1>6. ASSUME NEW t \in Threads, Start(t)
      PROVE  Quiet
  <2>1. PICK c : /\ call' = [call EXCEPT ![t] = c]
                 /\ c.pc \in {"choose", "serialize", "look", "fetch"}
      BY <1>6, StartFacts
  <2>2. UNCHANGED <<cached, pullas>>
      BY <1>6, StartFacts
  <2> QED
      BY <1>1, <2>1, <2>2 DEF Told
<1>7. ASSUME NEW t \in Threads, Serialize(t) \/ Answer(t)
      PROVE  Quiet
    BY <1>1, <1>7 DEF Serialize, Answer, Go, provider, CallOK, Told
<1>8. ASSUME NEW t \in Threads, Accept(t)
      PROVE  Quiet
    BY <1>1, <1>8 DEF Accept, provider, CallOK, Told
<1>9. ASSUME NEW t \in Threads, Fetch(t) \/ Fail(t)
      PROVE  Quiet
    BY <1>1, <1>9 DEF Fetch, Fail, Return, NoCall, provider, CallOK, Told
<1>10. ASSUME NEW t \in Threads, Record(t)
       PROVE  Quiet
    BY <1>1, <1>10 DEF Record, Remember, Return, NoCall, CallOK, Told
<1>11. ASSUME NEW t \in Threads, LookUp(t)
       PROVE  Quiet
    BY <1>1, <1>11 DEF LookUp, Remember, CallOK, Told
<1>12. ASSUME Regrant \/ UNCHANGED vars
       PROVE  Quiet
    BY <1>12 DEF Regrant, provider, vars
<1>13. ASSUME NEW c \in DOMAIN clients, Close(c)
       PROVE  Quiet
  <2>1. \A u \in Threads : call'[u] = call[u] \/ call'[u] = Lost
      BY <1>1, <1>13, CloseMoves
  <2> QED
      BY <1>13, <2>1, LostType DEF Close, Told
<1>14. ~ClearCache
    BY <1>4 DEF ClearCache, Undisturbed
<1>15. ASSUME NEW t \in Threads,
              \/ Reuse(t) \/ Open(t) \/ Connect(t) \/ Keep(t) \/ Bind(t)
       PROVE  NamesLead'
    BY <1>1, <1>4, <1>15, LookLeads, ConnectLeads, KeepLeads, BindLeads
<1> QED
    BY <1>5, <1>6, <1>7, <1>8, <1>9, <1>10, <1>11, <1>12, <1>13, <1>14, <1>15
       DEF Next, Step

\* "None (auto-selected) and explicit name share one client": while one thread
\* asks and nothing is closed or cleared, who names the resource that was
\* chosen automatically before gets the client of that choice.
THEOREM NameAlwaysSharesTheChosen == Spec => []NameSharesTheChosen
<1>1. Init => SharedInv
  <2> SUFFICES ASSUME Init
               PROVE  SharedInv
      OBVIOUS
  <2>1. /\ \A t \in Threads : call[t].pc = "idle"
        /\ DOMAIN pullas = {}
        /\ None \in Asked
        /\ \A n \in Asked : cached[n] = 0
      BY DEF Init, NoCall, Asked
  <2> QED
      BY <2>1 DEF SharedInv, AtWork, NamesLead, ChosenHasItsName,
         FoundIsCached, ChosenIsOne, FollowersShare
<1>2. ExecutorInv /\ ProviderInv /\ SharedInv /\ [Next]_vars => SharedInv'
    BY SharedNext
<1>3. SharedInv => NameSharesTheChosen
  <2> SUFFICES ASSUME SharedInv, Undisturbed,
                      NEW p \in DOMAIN pullas, NEW q \in DOMAIN pullas,
                      Follows(p, q)
               PROVE  pullas[q].client = pullas[p].client
      BY DEF NameSharesTheChosen, Undisturbed, Follows
  <2> QED
      BY DEF SharedInv, NamesLead, FollowersShare
<1> QED
    BY <1>1, <1>2, <1>3, ExecutorAlways, ProviderAlways, PTL DEF Spec

-----------------------------------------------------------------------------
(***************************************************************************)
(* Run ids.  Where no object is submitted by two threads at once, a        *)
(* submission has its object to itself, so the id it stamped is the id it  *)
(* sends, and no job and no other object has it.                           *)
(***************************************************************************)
FreshIds ==
    /\ \A d \in Runs : ids[d] \in 0..stamps
    /\ \A d, e \in Runs : ids[d] = ids[e] /\ ids[d] # 0 => d = e
    /\ \A i \in Job :
        /\ heappe[i].def \in Runs => heappe[i].id \in 1..stamps
        /\ heappe[i].def \notin Runs => heappe[i].id = 0
    /\ \A t, u \in Threads :
        call[t].def \in Runs /\ call[u].def = call[t].def => t = u
    /\ \A t \in Threads :
        call[t].pc \in {"serialize", "submit"} /\ call[t].def \in Runs =>
            /\ ids[call[t].def] # 0
            /\ \A i \in Job : heappe[i].id # ids[call[t].def]
    /\ \A t \in Threads :
        call[t].pc = "submit" =>
            /\ call[t].def \in Runs => call[t].id = ids[call[t].def]
            /\ call[t].def \notin Runs => call[t].id = 0
    /\ \A i, j \in Job :
        heappe[i].def \in Runs /\ heappe[j].id = heappe[i].id => i = j

FreshInv == ~World.shared => FreshIds

\* A step that neither stamps nor submits.
LEMMA FreshStays ==
    ASSUME FreshIds, InHand', UNCHANGED <<ids, stamps, heappe>>,
           \A u \in Threads : call'[u].def \in Defs =>
               /\ call'[u].def = call[u].def
               /\ call'[u].pc \in {"serialize", "submit"} =>
                      call'[u] = call[u]
    PROVE  FreshIds'
<1>1. \A u \in Threads : call'[u].pc = "submit" => call'[u].def \in Defs
    BY DEF InHand, CallInHand
<1>2. Runs \subseteq Defs
    BY DEF Defs
<1> QED
    BY <1>1, <1>2 DEF FreshIds, Job

LEMMA FreshSubmit ==
    ASSUME PulseTypeOK, FreshIds, ~World.shared, NEW t \in Threads,
           NEW p \in DOMAIN pullas, NEW d \in Defs, SubmitJob(t, p, d)
    PROVE  FreshIds'
<1>1. /\ call \in [Threads -> CallOK] /\ ids \in [Runs -> Nat]
      /\ stamps \in Nat
      /\ \A u \in Threads : call[u].def # d
      /\ heappe' = heappe
    BY DEF PulseTypeOK, SubmitJob
<1>2. PICK c : c = [NoCall EXCEPT !.pc = "serialize", !.pulla = p, !.def = d]
    OBVIOUS
<1>3. c.pc = "serialize" /\ c.def = d
    BY <1>2 DEF NoCall
<1>4. call' = [call EXCEPT ![t] = c]
    BY <1>2 DEF SubmitJob, Begin
<1>5. call'[t] = c /\ \A u \in Threads : u # t => call'[u] = call[u]
    BY <1>1, <1>4
<1>6. /\ \A u, v \in Threads :
          call'[u].def \in Runs /\ call'[v].def = call'[u].def => u = v
      /\ \A u \in Threads : call'[u].pc = "submit" =>
             u # t /\ call'[u] = call[u] /\ call[u].def # d
    BY <1>1, <1>3, <1>5 DEF FreshIds
<1>7. CASE d \in Runs
  <2>1. stamps' = stamps + 1 /\ ids' = [ids EXCEPT ![d] = stamps + 1]
      BY <1>7 DEF SubmitJob, Stamp
  <2>2. \A e \in Runs : ids'[e] = IF e = d THEN stamps + 1 ELSE ids[e]
      BY <1>1, <2>1
  <2>3. /\ \A e \in Runs : ids'[e] \in 0..stamps'
        /\ \A e, f \in Runs : ids'[e] = ids'[f] /\ ids'[e] # 0 => e = f
      BY <1>1, <2>1, <2>2 DEF FreshIds
  <2>4. \A i \in Job : heappe[i].id \in 0..stamps
      BY <1>1 DEF FreshIds
  <2>5. \A i \in Job :
            /\ heappe[i].def \in Runs => heappe[i].id \in 1..stamps'
            /\ heappe[i].def \notin Runs => heappe[i].id = 0
      BY <1>1, <2>1 DEF FreshIds
  <2>6. ASSUME NEW u \in Threads, call'[u].pc \in {"serialize", "submit"},
               call'[u].def \in Runs
        PROVE  /\ ids'[call'[u].def] # 0
               /\ \A i \in Job : heappe[i].id # ids'[call'[u].def]
    <3>1. CASE u = t
        BY <1>1, <1>3, <1>5, <1>7, <2>2, <2>4, <3>1
    <3>2. CASE u # t
        BY <1>1, <1>5, <2>2, <2>6, <3>2 DEF FreshIds
    <3> QED
        BY <3>1, <3>2
  <2>7. \A u \in Threads :
            call'[u].pc = "submit" =>
                /\ call'[u].def \in Runs => call'[u].id = ids'[call'[u].def]
                /\ call'[u].def \notin Runs => call'[u].id = 0
      BY <1>6, <2>2 DEF FreshIds
  <2> QED
      BY <1>1, <1>6, <2>3, <2>5, <2>6, <2>7 DEF FreshIds, Job
<1>8. CASE d \notin Runs
  <2>1. ids' = ids /\ stamps' = stamps
      BY <1>8 DEF SubmitJob, Stamp, payloads
  <2>2. ASSUME NEW u \in Threads, call'[u].def \in Runs
        PROVE  call'[u] = call[u]
      BY <1>3, <1>5, <1>8, <2>2
  <2>3. \A u \in Threads : call'[u].pc = "submit" => call'[u] = call[u]
      BY <1>6
  <2> QED
      BY <1>1, <2>1, <2>2, <2>3 DEF FreshIds, Job
<1> QED
    BY <1>7, <1>8

LEMMA FreshSerialize ==
    ASSUME PulseTypeOK, FreshIds, NEW t \in Threads, Serialize(t)
    PROVE  FreshIds'
<1>1. /\ call \in [Threads -> CallOK] /\ call[t] \in CallOK
      /\ call[t].pc = "serialize"
      /\ UNCHANGED <<ids, stamps, heappe>>
    BY DEF PulseTypeOK, Serialize, payloads
<1>2. PICK i : i = IF call[t].def \in Runs THEN ids[call[t].def] ELSE 0
    OBVIOUS
<1>3. call' = [call EXCEPT ![t] = [call[t] EXCEPT !.pc = "submit", !.id = i]]
    BY <1>1, <1>2 DEF Serialize
<1>4. /\ call'[t].pc = "submit" /\ call'[t].id = i
      /\ call'[t].def = call[t].def
      /\ \A u \in Threads : u # t => call'[u] = call[u]
    BY <1>1, <1>3 DEF CallOK
<1>5. \A u \in Threads : call'[u].def = call[u].def
    BY <1>4
<1>6. \A u \in Threads :
          call'[u].pc \in {"serialize", "submit"} =>
              call[u].pc \in {"serialize", "submit"}
    BY <1>1, <1>4
<1>7. \A u \in Threads :
          call'[u].pc = "submit" =>
              /\ call'[u].def \in Runs => call'[u].id = ids[call'[u].def]
              /\ call'[u].def \notin Runs => call'[u].id = 0
    BY <1>2, <1>4 DEF FreshIds
<1> QED
    BY <1>1, <1>5, <1>6, <1>7 DEF FreshIds, Job

LEMMA FreshAccept ==
    ASSUME PulseTypeOK, FreshIds, NEW t \in Threads, Accept(t)
    PROVE  FreshIds'
<1>1. /\ call \in [Threads -> CallOK] /\ call[t] \in CallOK
      /\ call[t].pc = "submit"
      /\ heappe \in Seq([def : Defs, id : Nat])
      /\ UNCHANGED <<ids, stamps>>
    BY DEF PulseTypeOK, Accept, payloads
<1>2. PICK n : n = Len(heappe) + 1
    OBVIOUS
<1>3. heappe' = Append(heappe, [def |-> call[t].def, id |-> call[t].id])
    BY DEF Accept
<1>4. /\ Job' = Job \cup {n} /\ n \notin Job
      /\ heappe'[n].def = call[t].def /\ heappe'[n].id = call[t].id
      /\ \A i \in Job : heappe'[i] = heappe[i]
    BY <1>1, <1>2, <1>3 DEF Job
<1>5. /\ call'[t].pc \notin {"serialize", "submit"}
      /\ call'[t].def \in Runs => call'[t].def = call[t].def
      /\ \A u \in Threads : u # t => call'[u] = call[u]
  <2>1. call' = [call EXCEPT ![t].pc = "answer",
                             ![t].job = Len(heappe) + 1]
      BY DEF Accept
  <2>2. call' = [call EXCEPT ![t] = [call[t] EXCEPT !.pc = "answer",
                                        !.job = Len(heappe) + 1]]
      BY <1>1, <2>1
  <2> QED
      BY <1>1, <2>2 DEF CallOK
<1>6. /\ call[t].def \in Runs =>
             /\ call[t].id = ids[call[t].def] /\ call[t].id \in 1..stamps
             /\ \A i \in Job : heappe[i].id # call[t].id
      /\ call[t].def \notin Runs => call[t].id = 0
  <2>1. CASE call[t].def \in Runs
    <3>1. /\ call[t].id = ids[call[t].def] /\ ids[call[t].def] # 0
          /\ \A i \in Job : heappe[i].id # ids[call[t].def]
          /\ ids[call[t].def] \in 0..stamps /\ stamps \in Nat
        BY <1>1, <2>1 DEF FreshIds, PulseTypeOK
    <3> QED
        BY <2>1, <3>1
  <2>2. CASE call[t].def \notin Runs
      BY <1>1, <2>2 DEF FreshIds
  <2> QED
      BY <2>1, <2>2
<1>7. \A i \in Job' :
          /\ heappe'[i].def \in Runs => heappe'[i].id \in 1..stamps
          /\ heappe'[i].def \notin Runs => heappe'[i].id = 0
    BY <1>4, <1>6 DEF FreshIds
<1>8. \A u, v \in Threads :
          call'[u].def \in Runs /\ call'[v].def = call'[u].def => u = v
    BY <1>5 DEF FreshIds
<1>9. ASSUME NEW u \in Threads, call'[u].pc \in {"serialize", "submit"},
             call'[u].def \in Runs
      PROVE  /\ ids[call'[u].def] # 0
             /\ \A i \in Job' : heappe'[i].id # ids[call'[u].def]
  <2>1. u # t /\ call'[u] = call[u]
      BY <1>5, <1>9
  <2>2. ids[call[u].def] # 0 /\ \A i \in Job : heappe[i].id # ids[call[u].def]
      BY <1>9, <2>1 DEF FreshIds
  <2>3. call[t].id # ids[call[u].def]
    <3>1. CASE call[t].def \in Runs
      <4>1. call[t].def # call[u].def
          BY <1>9, <2>1, <3>1 DEF FreshIds
      <4> QED
          BY <1>6, <1>9, <2>1, <2>2, <3>1, <4>1 DEF FreshIds
    <3>2. CASE call[t].def \notin Runs
        BY <1>6, <2>2, <3>2
    <3> QED
        BY <3>1, <3>2
  <2> QED
      BY <1>4, <2>1, <2>2, <2>3
<1>10. \A u \in Threads :
           call'[u].pc = "submit" =>
               /\ call'[u].def \in Runs => call'[u].id = ids[call'[u].def]
               /\ call'[u].def \notin Runs => call'[u].id = 0
    BY <1>5 DEF FreshIds
<1>11. ASSUME NEW i \in Job', NEW j \in Job', heappe'[i].def \in Runs,
              heappe'[j].id = heappe'[i].id
       PROVE  i = j
  <2>1. CASE i = n
    <3>1. \A k \in Job : heappe[k].id # call[t].id
        BY <1>4, <1>6, <1>11, <2>1
    <3> QED
        BY <1>4, <1>11, <2>1, <3>1
  <2>2. CASE i # n /\ j = n
    <3>1. i \in Job /\ heappe[i].id \in 1..stamps /\ heappe[i].id = call[t].id
        BY <1>4, <1>7, <1>11, <2>2
    <3>2. call[t].def \in Runs
        BY <1>6, <3>1
    <3> QED
        BY <1>6, <3>1, <3>2
  <2>3. CASE i # n /\ j # n
      BY <1>4, <1>11, <2>3 DEF FreshIds
  <2> QED
      BY <2>1, <2>2, <2>3
<1> QED
    BY <1>1, <1>7, <1>8, <1>9, <1>10, <1>11 DEF FreshIds

LEMMA FreshNext ==
    ASSUME ExecutorInv, ExecutorInv', FreshInv, [Next]_vars
    PROVE  FreshInv'
<1>1. World' = World
    BY DEF World, vars, Next, Start, Step, GetPulla, SubmitJob, GetArtifact,
       Reuse, Open, Connect, Keep, Bind, Serialize, Accept, Answer, Record,
       LookUp, Fetch, Fail, ClearCache, Regrant, Close
<1> SUFFICES ASSUME ~World.shared, FreshIds
             PROVE  FreshIds'
    BY <1>1 DEF FreshInv
<1>2. /\ PulseTypeOK /\ InHand /\ InHand'
      /\ call \in [Threads -> CallOK] /\ Runs \subseteq Defs
      /\ NoCall.def \notin Defs
    BY NoCallType, NoneIsApart DEF ExecutorInv, PulseTypeOK, Defs
<1>3. ASSUME NEW t \in Threads, NEW p \in DOMAIN pullas, NEW d \in Defs,
             SubmitJob(t, p, d)
      PROVE  FreshIds'
    BY <1>2, <1>3, FreshSubmit
<1>4. ASSUME NEW t \in Threads, Serialize(t) \/ Accept(t)
      PROVE  FreshIds'
    BY <1>2, <1>4, FreshSerialize, FreshAccept
<1> DEFINE Quiet ==
        /\ UNCHANGED <<ids, stamps, heappe>>
        /\ \A u \in Threads : call'[u].def \in Defs =>
            /\ call'[u].def = call[u].def
            /\ call'[u].pc \in {"serialize", "submit"} => call'[u] = call[u]
<1>5. Quiet => FreshIds'
    BY <1>2, FreshStays
<1>6. ASSUME NEW t \in Threads, NEW asked \in Asked, NEW alone \in BOOLEAN,
             GetPulla(t, asked, alone)
      PROVE  Quiet
  <2>1. PICK c : c = [NoCall EXCEPT !.pc = "choose", !.asked = asked,
                                    !.alone = alone]
      OBVIOUS
  <2>2. c.def \notin Defs
      BY <1>2, <2>1 DEF NoCall
  <2>3. call' = [call EXCEPT ![t] = c] /\ UNCHANGED <<ids, stamps, heappe>>
      BY <1>6, <2>1 DEF GetPulla, Begin, payloads
  <2> QED
      BY <1>2, <2>2, <2>3
<1>7. ASSUME NEW t \in Threads, NEW p \in DOMAIN pullas, NEW j \in Job,
             GetArtifact(t, p, j)
      PROVE  Quiet
  <2>1. PICK had : had = Known(p, j)
      OBVIOUS
  <2>2. PICK c : c = [NoCall EXCEPT !.pulla = p, !.job = j, !.had = had,
                          !.task = had.task,
                          !.pc = IF had.task = 0 THEN "look" ELSE "fetch"]
      OBVIOUS
  <2>3. c.def \notin Defs
      BY <1>2, <2>2 DEF NoCall
  <2>4. call' = [call EXCEPT ![t] = c] /\ UNCHANGED <<ids, stamps, heappe>>
      BY <1>7, <2>1, <2>2 DEF GetArtifact, Begin, payloads
  <2> QED
      BY <1>2, <2>3, <2>4
<1>8. ASSUME NEW t \in Threads,
             \/ Reuse(t) \/ Open(t) \/ Connect(t) \/ Keep(t) \/ LookUp(t)
      PROVE  Quiet
  <2>1. call[t].def \notin Defs
      BY <1>2, <1>8 DEF Reuse, Open, Connect, Keep, LookUp, InHand,
         CallInHand
  <2>2. call'[t].def = call[t].def
    <3>1. call[t] \in CallOK
        BY <1>2
    <3>2. CASE Reuse(t)
        BY <1>2, <3>1, <3>2 DEF Reuse, CallOK
    <3>3. CASE Open(t)
        BY <1>2, <3>1, <3>3 DEF Open, Go, CallOK
    <3>4. CASE Connect(t)
        BY <1>2, <3>1, <3>4 DEF Connect, CallOK
    <3>5. CASE LookUp(t)
        BY <1>2, <3>1, <3>5 DEF LookUp, CallOK
    <3>6. CASE Keep(t)
        BY <1>2, <3>1, <3>6 DEF Keep, Go, CallOK
    <3> QED
        BY <1>8, <3>2, <3>3, <3>4, <3>5, <3>6
  <2>3. \A u \in Threads : u # t => call'[u] = call[u]
      BY <1>2, <1>8 DEF Reuse, Open, Go, Connect, Keep, LookUp
  <2>4. UNCHANGED <<ids, stamps, heappe>>
      BY <1>8 DEF Reuse, Open, Connect, Keep, LookUp, payloads
  <2> QED
      BY <2>1, <2>2, <2>3, <2>4
<1>9. ASSUME NEW t \in Threads,
             Bind(t) \/ Record(t) \/ Fetch(t) \/ Fail(t)
      PROVE  Quiet
    BY <1>2, <1>9 DEF Bind, Record, Fetch, Fail, Return, payloads
<1>10. ASSUME NEW t \in Threads, Answer(t)
       PROVE  Quiet
  <2>1. call' = [call EXCEPT ![t] = [call[t] EXCEPT !.pc = "record"]]
      BY <1>2, <1>10, GoTyped DEF Answer
  <2>2. call'[t].pc = "record" /\ call'[t].def = call[t].def
      BY <1>2, <2>1 DEF CallOK
  <2>3. \A u \in Threads : u # t => call'[u] = call[u]
      BY <1>2, <2>1
  <2> QED
      BY <1>10, <2>2, <2>3 DEF Answer, payloads
<1>11. ClearCache \/ Regrant \/ UNCHANGED vars => Quiet
    BY DEF ClearCache, Regrant, payloads, vars
<1>12. ASSUME NEW c \in DOMAIN clients, Close(c)
       PROVE  Quiet
  <2>1. \A u \in Threads : call'[u] = call[u] \/ call'[u] = Lost
      BY <1>2, <1>12, CloseMoves
  <2>2. Lost.def \notin Defs
      BY LostType, NoneIsApart
  <2> QED
      BY <1>12, <2>1, <2>2 DEF Close, payloads
<1> QED
    BY <1>3, <1>4, <1>5, <1>6, <1>7, <1>8, <1>9, <1>10, <1>11, <1>12
       DEF Next, Start, Step

\* Every submission of a run carries ids of its own, for any number of
\* submissions of the same object, unless two threads submit it at once.
THEOREM RunIdsAreAlwaysFresh == Spec => []RunIdsAreFresh
<1>1. Init => FreshInv
  <2> SUFFICES ASSUME Init PROVE FreshIds
      BY DEF FreshInv
  <2>2. \A t \in Threads : call[t] = NoCall
      BY DEF Init
  <2>3. NoCall.def \notin Runs /\ NoCall.pc = "idle"
      BY NoCallType, NoneIsApart DEF Defs
  <2>4. /\ \A d \in Runs : ids[d] = 0
        /\ stamps = 0 /\ Job = {}
      BY DEF Init, Job
  <2> QED
      BY <2>2, <2>3, <2>4 DEF FreshIds
<1>2. ExecutorInv /\ ExecutorInv' /\ FreshInv /\ [Next]_vars => FreshInv'
    BY FreshNext
<1>3. FreshInv => RunIdsAreFresh
    BY DEF FreshInv, FreshIds, RunIdsAreFresh
<1> QED
    BY <1>1, <1>2, <1>3, ExecutorAlways, PTL DEF Spec
=============================================================================
