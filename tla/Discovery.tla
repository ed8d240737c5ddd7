----------------------------- MODULE Discovery -----------------------------
(***************************************************************************)
(* What a QClient of src/qheappe_client/qclient.py knows of its backends:  *)
(* authorization against LEXIS, the choice of the resource, the clusters   *)
(* of that resource as HEAppE exposes them, the project ids cached per     *)
(* HEAppE instance, and the availability of every backend.                 *)
(*                                                                         *)
(* Coroutines of several callers run between the requests of one another,  *)
(* and the client may be closed and connected anew under them.  The HTTP   *)
(* session and the event loops themselves are QClientSession's.            *)
(***************************************************************************)
EXTENDS Naturals, Sequences, FiniteSets, Functions

CONSTANTS
    Callers, Names, Urls, ResourceNames, None,
    Worlds,       \* what LEXIS and HEAppE may answer, a sequence
    MaxConnects, MaxFaults

(* A world: the resource name given to the client and whether machine info  *)
(* is loaded lazily, the event loop of every caller, how HEAppE lists each  *)
(* cluster ("absent", without node types, with the project "hidden" from    *)
(* the list or "listed"), the answers of LEXIS, `now' and `later', and      *)
(* bounds on the connections and on all calls.                              *)
Resources ==
    Seq([name : ResourceNames,
         window : {"undated", "open", "early", "over", "garbled"},
         assignments : Seq([quantum : BOOLEAN, location : Names \cup {None},
                            url : Urls \cup {None}])])

ASSUME DiscoveryAssumption ==
    /\ \A i \in DOMAIN Worlds : LET w == Worlds[i] IN
        /\ w.wanted \in ResourceNames \cup {None}
        /\ w.lazy \in BOOLEAN
        /\ w.connects \in 0..MaxConnects /\ w.calls \in Nat
        /\ DOMAIN w.loop = Callers
        /\ w.heappe \in [Names -> {"absent", "bare", "hidden", "listed"}]
        /\ w.now.resources \in Resources
        /\ w.later.resources \in Resources
    /\ None \notin Names \cup Urls \cup ResourceNames
                   \cup (ResourceNames \X Urls)
    /\ IsFiniteSet(Callers) /\ IsFiniteSet(Names)
    /\ MaxConnects \in Nat /\ MaxFaults \in Nat

VARIABLES
    world, later,  \* the world, and whether LEXIS answers as it does later
    \* the client
    authenticated,
    generation,    \* the resource in use, counted by connections
    active,        \* the selected backend
    closed,        \* how often it was closed: the cache of ids in use
    \* what it knows
    resource,      \* the resource of every generation, with its clusters
    ids,           \* project id of each HEAppE instance, in every cache
    held,          \* the locks of (loop, instance) that are taken
    view,          \* the view that bind() returned last
    call,          \* what every caller is doing
    \* bounds, and what the properties are about
    calls, faults,
    failed,        \* the instances a request of a generation failed at
    lookups,       \* lookups of a project that found one, in every cache
    outlived       \* a coroutine changed the client after its close()

World == Worlds[world]

client == <<authenticated, generation, active, closed>>
knowledge == <<resource, ids, held>>
ghosts == <<failed, lookups, outlived>>
vars == <<world, later, authenticated, generation, active, closed, resource,
          ids, held, view, call, calls, faults, failed, lookups, outlived>>

-----------------------------------------------------------------------------
(* Authorization.  A LEXIS answer holds the claims of the token, whether    *)
(* the user is a member of the project, when the project is active, and the *)
(* resources: [name, window, assignments], an assignment being              *)
(* [quantum, location, url].  Windows: one of the dates missing, "open",    *)
(* "early", "over", or "garbled".                                           *)

Lexis == IF later THEN World.later ELSE World.now

\* `_verify_token': a token without `kid' is checked with the first key.
Verified(token) ==
    /\ token.issuer
    /\ token.alg
    /\ token.kid \in {"none", "known"}
    /\ token.signed
    /\ token.user
    /\ ~token.expired

Entitled ==
    /\ Verified(Lexis.token)
    /\ Lexis.member
    /\ Lexis.window \in {"undated", "open"}

Quantum(r) == \E i \in DOMAIN r.assignments : r.assignments[i].quantum

\* The quantum resources that may be meant.
Candidates ==
    {i \in DOMAIN Lexis.resources :
        /\ Quantum(Lexis.resources[i])
        /\ World.wanted \in {None, Lexis.resources[i].name}}

\* mutant: the first of several quantum resources will do.
ChoiceOfFirst == {i \in Candidates : \A j \in Candidates : i <= j}

\* The resource asked for, or the only quantum one, if there is one.
Choice ==
    {i \in Candidates : \A j \in Candidates :
        IF World.wanted = None THEN i = j ELSE i <= j}

Usable(a) == a.quantum /\ a.location # None /\ a.url # None

\* The usable assignments of a location.
UsableAt(r, n) ==
    {i \in DOMAIN r.assignments :
        Usable(r.assignments[i]) /\ r.assignments[i].location = n}

\* The first usable assignment of every location.
InstanceOf(r) ==
    [n \in {n \in Names : UsableAt(r, n) # {}} |->
        r.assignments[CHOOSE i \in UsableAt(r, n) :
                          \A j \in UsableAt(r, n) : i <= j].url]

Authorized ==
    \E i \in Choice : LET r == Lexis.resources[i]
                      IN  /\ r.window \in {"undated", "open", "garbled"}
                          /\ DOMAIN InstanceOf(r) # {}

-----------------------------------------------------------------------------
(* Clusters and coroutines. *)

\* QCluster: which ids are known, and what was learnt of the machine.
Cluster == [id |-> FALSE, type |-> FALSE, project |-> None,
            info |-> FALSE, available |-> FALSE, error |-> FALSE]

NoResource == [name |-> None, url |-> <<>>, clusters |-> <<>>]

Project(r, u) == <<r, u>>

Clusters(g) == DOMAIN resource[g].url

Known(c, b) == resource[c.gen].clusters[b]

Url(c, b) == resource[c.gen].url[b]

\* mutant: the id of a project that is not in the list is left undefined.
ListedAlways(b) ==
    LET r == resource[generation]
    IN  [Cluster EXCEPT !.id = TRUE, !.type = TRUE,
            !.project = Project(r.name, IF World.heappe[b] = "listed"
                                        THEN r.url[b] ELSE None)]

\* `_resolve_heappe_instance' of a cluster that HEAppE lists.
Listed(b) ==
    LET how == World.heappe[b]
        r == resource[generation]
    IN  [Cluster EXCEPT
            !.id = how # "absent",
            !.type = how \in {"hidden", "listed"},
            !.error = how \in {"absent", "bare"},
            !.project = IF how = "listed"
                        THEN Project(r.name, r.url[b]) ELSE None]

\* mutant: no reason is kept.
UnavailableSilently(cluster) == [cluster EXCEPT !.available = FALSE]

Unavailable(cluster) == [cluster EXCEPT !.available = FALSE, !.error = TRUE]

\* A caller: the operation, how far it is, the generation and the backend it
\* works on, how often the client had been closed, and where its coroutine
\* for every cluster waits: for the list of clusters, the lock, the lookup of
\* the project (`asked' for a resource), or the machine info.
Idle == [op |-> "none", phase |-> "idle", via |-> "client", gen |-> 0,
         epoch |-> 0, backend |-> None, at |-> [b \in Names |-> "none"],
         asked |-> [b \in Names |-> None]]

Connecting == \E t \in Callers : call[t].op = "connect"

\* The client was closed since the operation began, or the view was made.
Outlives(c) == c.epoch # closed

\* The cache a coroutine uses now; a view keeps the one it was made with.
CacheOf(c) == IF c.via = "client" THEN closed ELSE c.epoch

\* A request can be sent if the client, or the view, has an open session.
Send(c, request) ==
    IF IF c.via = "client" THEN authenticated \/ Connecting ELSE ~Outlives(c)
    THEN request ELSE "unsent"

Put(c, b, cluster) ==
    resource' = [resource EXCEPT ![c.gen].clusters[b] = cluster]

\* Where a coroutine of an operation goes with the project id known, and
\* where it starts.
Proceed(c) == IF c.op = "submit" THEN "none" ELSE Send(c, "ask")
Enter(c, b) == IF Known(c, b).project # None THEN Proceed(c) ELSE "lock"

Move(t, b, where) == call' = [call EXCEPT ![t].at[b] = where]

Waits(c) == \E b \in Names : c.at[b] # "none"

-----------------------------------------------------------------------------
(* connect(). *)

Connect(t) ==
    /\ call[t] = Idle
    /\ ~authenticated /\ ~Connecting
    /\ closed < World.connects
    /\ calls < World.calls /\ calls' = calls + 1
    /\ call' = [call EXCEPT ![t].op = "connect", ![t].phase = "token",
                            ![t].gen = generation + 1,
                            ![t].epoch = closed]
    /\ UNCHANGED <<world, later, client, knowledge, view, faults, ghosts>>

\* `_authenticate_authorize_lexis'.
Authenticate(t) ==
    /\ call[t].phase = "token"
    /\ Entitled
    /\ authenticated' = TRUE
    /\ call' = [call EXCEPT ![t].phase = "resource"]
    /\ UNCHANGED <<world, later, generation, active, closed, knowledge, view,
                   calls, faults, ghosts>>

\* `_authorize_lexis_resource'.
Authorize(t) ==
    /\ call[t].phase = "resource"
    /\ Authorized
    /\ \E i \in Choice :
       LET r == Lexis.resources[i]
           url == InstanceOf(r)
       IN  /\ resource' = [resource EXCEPT ![generation + 1] =
                  [name |-> r.name, url |-> url,
                   clusters |-> [b \in DOMAIN url |-> Cluster]]]
           /\ call' = [call EXCEPT ![t].phase = "resolve", ![t].at =
                  [b \in Names |-> IF b \in DOMAIN url THEN "list"
                                                       ELSE "none"]]
    /\ generation' = generation + 1
    /\ UNCHANGED <<world, later, authenticated, active, closed, ids, held,
                   view, calls, faults, ghosts>>

\* mutant: the cache of project ids outlives the connection.
DisconnectKeepingIds ==
    /\ authenticated' = FALSE
    /\ active' = None
    /\ UNCHANGED <<closed, generation>>

\* aclose() of the client itself.
Disconnect ==
    /\ authenticated' = FALSE
    /\ active' = None
    /\ closed' = closed + 1
    /\ UNCHANGED generation

\* A request failed, or LEXIS refuses: connect() closes the client.
Refuse(t) ==
    /\ call[t].phase \in {"token", "resource"}
    /\ \/ /\ call[t].phase = "token" /\ ~Entitled
          /\ UNCHANGED faults
       \/ /\ call[t].phase = "resource" /\ ~Authorized
          /\ UNCHANGED faults
       \/ faults < MaxFaults /\ faults' = faults + 1
    /\ Disconnect
    /\ call' = [call EXCEPT ![t] = Idle]
    /\ UNCHANGED <<world, later, knowledge, view, calls, ghosts>>

\* One request answers for all clusters of an instance.
Answered(t, u, Answer(_)) ==
    LET c == call[t]
        here == {b \in Names : c.at[b] = "list" /\ Url(c, b) = u}
    IN  /\ here # {}
        /\ call' = [call EXCEPT ![t].at =
               [b \in Names |-> IF b \in here THEN "none" ELSE c.at[b]]]
        /\ resource' = [resource EXCEPT ![c.gen].clusters =
               [b \in DOMAIN @ |-> IF b \in here THEN Answer(b) ELSE @[b]]]

Resolve(t, u) ==
    /\ Answered(t, u, Listed)
    /\ UNCHANGED <<world, later, client, ids, held, view, calls, faults,
                   ghosts>>

FailToResolve(t, u) ==
    /\ faults < MaxFaults /\ faults' = faults + 1
    /\ Answered(t, u, LAMBDA b : Unavailable(Cluster))
    /\ failed' = failed \cup {<<call[t].gen, u>>}
    /\ UNCHANGED <<world, later, client, ids, held, view, calls, lookups,
                   outlived>>

\* mutant: a cluster that is not resolved keeps all from being loaded.
LoadAllOrNone(c) ==
    [c EXCEPT !.phase = "fetch",
              !.at = [b \in Names |->
                  IF /\ b \in Clusters(c.gen)
                     /\ \A d \in Clusters(c.gen) : Known(c, d).type
                  THEN Enter(c, b) ELSE "none"]]

\* `_load_machine_info_all': a coroutine for every cluster with a node type.
LoadAll(c) ==
    [c EXCEPT !.phase = "fetch",
              !.at = [b \in Names |->
                  IF b \in Clusters(c.gen) /\ Known(c, b).type
                  THEN Enter(c, b) ELSE "none"]]

Load(t) ==
    /\ call[t].phase = "resolve" /\ ~Waits(call[t])
    /\ call' = [call EXCEPT ![t] =
           IF World.lazy THEN [@ EXCEPT !.phase = "fetch"] ELSE LoadAll(@)]
    /\ UNCHANGED <<world, later, client, knowledge, view, calls, faults,
                   ghosts>>

Connected(t) ==
    /\ call[t].op = "connect" /\ call[t].phase = "fetch"
    /\ ~Waits(call[t])
    /\ active' = IF Cardinality(Clusters(generation)) = 1
                 THEN CHOOSE b \in Clusters(generation) : TRUE ELSE active
    /\ call' = [call EXCEPT ![t] = Idle]
    /\ UNCHANGED <<world, later, authenticated, generation, closed,
                   knowledge, view, calls, faults, ghosts>>

Close(t, via) ==
    /\ call[t] = Idle
    /\ ~Connecting
    /\ calls < World.calls /\ calls' = calls + 1
    /\ \/ /\ via = "client" /\ authenticated
          /\ Disconnect
          /\ UNCHANGED view
       \/ /\ via = "view" /\ view # None
          /\ view' = None
          /\ UNCHANGED client
    /\ UNCHANGED <<world, later, knowledge, call, faults, ghosts>>

-----------------------------------------------------------------------------
(* The project id and the machine info of one cluster. *)

\* mutant: what the holder of the lock found is not looked at.
TakeLockBlindly(t, b) ==
    LET c == call[t]
        u == Url(c, b)
    IN  /\ c.at[b] = "lock"
        /\ <<World.loop[t], u>> \notin held
        /\ Send(c, "lookup") = "lookup"
        /\ held' = held \cup {<<World.loop[t], u>>}
        /\ call' = [call EXCEPT ![t].at[b] = "lookup",
                                ![t].asked[b] = resource[c.gen].name]
        /\ UNCHANGED <<world, later, client, resource, ids, view, calls,
                       faults, ghosts>>

\* Under the lock, `_project_id_for' looks in the cache once more.
TakeLock(t, b) ==
    LET c == call[t]
        u == Url(c, b)
        cache == ids[CacheOf(c)]
    IN  /\ c.at[b] = "lock"
        /\ <<World.loop[t], u>> \notin held
        /\ \/ /\ u \in DOMAIN cache
              /\ Put(c, b, [Known(c, b) EXCEPT !.project = cache[u]])
              /\ Move(t, b, Proceed(c))
              /\ UNCHANGED held
           \/ /\ u \notin DOMAIN cache
              /\ Send(c, "lookup") = "unsent"
              /\ Move(t, b, "unsent")
              /\ UNCHANGED <<held, resource>>
           \/ /\ u \notin DOMAIN cache
              /\ Send(c, "lookup") = "lookup"
              /\ held' = held \cup {<<World.loop[t], u>>}
              /\ call' = [call EXCEPT ![t].at[b] = "lookup",
                     ![t].asked[b] = resource[IF c.via = "client"
                                              THEN generation ELSE c.gen].name]
              /\ UNCHANGED resource
        /\ UNCHANGED <<world, later, client, ids, view, calls, faults,
                       ghosts>>

\* mutant: the lock stays taken.
Keep(t, b) == UNCHANGED held

Release(t, b) == held' = held \ {<<World.loop[t], Url(call[t], b)>>}

\* The project found is stored in the cache that is in use by now.
FindProject(t, b) ==
    LET c == call[t]
        u == Url(c, b)
        r == c.asked[b]
        now == CacheOf(c)
    IN  /\ c.at[b] = "lookup"
        /\ ids' = [ids EXCEPT ![now] =
               [v \in DOMAIN @ \cup {u} |->
                   IF v = u THEN Project(r, u) ELSE @[v]]]
        /\ Put(c, b, [Known(c, b) EXCEPT !.project = Project(r, u)])
        /\ call' = [call EXCEPT ![t].at[b] = Proceed(c),
                                ![t].asked[b] = None]
        /\ Release(t, b)
        /\ lookups' = [lookups EXCEPT ![now][u] = @ + 1]
        /\ outlived' = (outlived \/ Outlives(c))
        /\ UNCHANGED <<world, later, client, view, calls, faults, failed>>

\* A request of a closed connection may fail at any time.
Breaks(c) ==
    \/ faults < MaxFaults /\ faults' = faults + 1
    \/ faults = MaxFaults /\ Outlives(c) /\ UNCHANGED faults

\* `_fetch_machine_info' records any failure, submission raises it.
Miss(t, b) ==
    LET c == call[t]
    IN  IF c.op = "submit"
        THEN call' = [call EXCEPT ![t] = Idle] /\ UNCHANGED resource
        ELSE /\ Put(c, b, Unavailable(Known(c, b)))
             /\ call' = [call EXCEPT ![t].at[b] = "none",
                                     ![t].asked[b] = None]

FailToFindProject(t, b) ==
    /\ call[t].at[b] = "lookup"
    /\ Breaks(call[t])
    /\ Miss(t, b)
    /\ Release(t, b)
    /\ failed' = failed \cup {<<call[t].gen, Url(call[t], b)>>}
    /\ UNCHANGED <<world, later, client, ids, view, calls, lookups, outlived>>

\* An answer with a stack that is supported and a version.
LearnMachine(t, b) ==
    /\ call[t].at[b] = "ask"
    /\ Put(call[t], b, [Known(call[t], b) EXCEPT
           !.info = TRUE, !.available = TRUE, !.error = FALSE])
    /\ Move(t, b, "none")
    /\ UNCHANGED <<world, later, client, ids, held, view, calls, faults,
                   ghosts>>

FailToLearn(t, b) ==
    /\ \/ call[t].at[b] = "ask" /\ Breaks(call[t])
       \/ call[t].at[b] = "unsent" /\ UNCHANGED faults
    /\ Miss(t, b)
    /\ failed' = failed \cup {<<call[t].gen, Url(call[t], b)>>}
    /\ UNCHANGED <<world, later, client, ids, held, view, calls, lookups,
                   outlived>>

-----------------------------------------------------------------------------
(* The operations of the client, and of the view that bind() returned.     *)

\* `_resolve_cluster': a backend that is unknown, or none selected, raises.
Operation(t, via, op, b) ==
    [Idle EXCEPT !.op = op, !.phase = "fetch", !.via = via, !.backend = b,
                 !.gen = IF via = "client" THEN generation ELSE view.gen,
                 !.epoch = IF via = "client" THEN closed ELSE view.epoch]

Begins(t, via, b) ==
    /\ call[t] = Idle
    /\ ~Connecting
    /\ calls < World.calls /\ calls' = calls + 1
    /\ IF via = "client" THEN authenticated ELSE view # None
    /\ b \in Clusters(IF via = "client" THEN generation ELSE view.gen)

Fetching(t, c) ==
    call' = [call EXCEPT ![t] =
                [c EXCEPT !.at[c.backend] = Enter(c, c.backend)]]

\* The end of `_validate_backend', and what its callers do next.
Settle(t, c) ==
    LET available == Known(c, c.backend).available
        meta == [c EXCEPT !.phase = "meta"]
    IN  /\ call' = [call EXCEPT ![t] =
               IF available /\ c.op = "backend" THEN meta ELSE Idle]
        /\ active' = IF available /\ c.op = "backend"
                     THEN c.backend ELSE active
        /\ view' = IF available /\ c.op = "bind"
                   THEN [backend |-> c.backend, gen |-> generation,
                         epoch |-> IF Send(c, "any") = "unsent"
                                   THEN c.epoch ELSE closed]
                   ELSE view

\* get_backend() and bind(): machine info is fetched only if there is none.
Validate(t, op, b) ==
    LET c == Operation(t, "client", op, b)
    IN  /\ Begins(t, "client", b)
        /\ \/ /\ Known(c, b).info
              /\ Settle(t, c)
           \/ /\ ~Known(c, b).info
              /\ Known(c, b).type
              /\ Fetching(t, c)
              /\ UNCHANGED <<active, view>>
        /\ UNCHANGED <<world, later, authenticated, generation, closed,
                       knowledge, faults, ghosts>>

Validated(t) ==
    /\ call[t].op \in {"backend", "bind"}
    /\ call[t].phase = "fetch" /\ ~Waits(call[t])
    /\ Settle(t, call[t])
    /\ outlived' = (outlived \/ Outlives(call[t]))
    /\ UNCHANGED <<world, later, authenticated, generation, closed,
                   knowledge, calls, faults, failed, lookups>>

\* refresh_machine_info() of one backend, or of all.
Refresh(t, via, b) ==
    LET c == Operation(t, via, "refresh", b)
    IN  /\ Begins(t, via, b)
        /\ Known(c, b).type
        /\ Fetching(t, c)
        /\ UNCHANGED <<world, later, client, knowledge, view, faults, ghosts>>

RefreshAll(t, via) ==
    /\ \E b \in Names : Begins(t, via, b)
    /\ call' = [call EXCEPT ![t] = LoadAll(Operation(t, via, "refresh", None))]
    /\ UNCHANGED <<world, later, client, knowledge, view, faults, ghosts>>

\* submit_quantum_job(): `_ids_for', then the request.
Submit(t, via, b) ==
    LET c == Operation(t, via, "submit", b)
    IN  /\ Begins(t, via, b)
        /\ Known(c, b).id
        /\ Fetching(t, c)
        /\ UNCHANGED <<world, later, client, knowledge, view, faults, ghosts>>

\* Nothing but an answer is left: of the submission, of the architectures
\* that `_metadata' asks for, or of the last machine info of a refresh.
Finish(t) ==
    /\ \/ call[t].phase = "meta"
       \/ call[t].op \in {"refresh", "submit"} /\ ~Waits(call[t])
    /\ call' = [call EXCEPT ![t] = Idle]
    /\ UNCHANGED <<world, later, client, knowledge, view, calls, faults,
                   ghosts>>

-----------------------------------------------------------------------------
Init ==
    /\ world \in DOMAIN Worlds /\ later = FALSE
    /\ authenticated = FALSE /\ generation = 0 /\ active = None /\ closed = 0
    /\ resource = [g \in 0..MaxConnects |-> NoResource]
    /\ ids = [d \in 0..MaxConnects |-> <<>>]
    /\ held = {} /\ view = None
    /\ call = [t \in Callers |-> Idle]
    /\ calls = 0 /\ faults = 0
    /\ failed = {} /\ outlived = FALSE
    /\ lookups = [d \in 0..MaxConnects |-> [u \in Urls |-> 0]]

\* LEXIS gives other answers from now on; only connect() asks it.
Reassign ==
    /\ Connecting
    /\ ~later /\ later' = TRUE
    /\ World.later # World.now
    /\ UNCHANGED <<world, client, knowledge, view, call, calls, faults,
                   ghosts>>

Start(t) ==
    \/ Connect(t)
    \/ \E via \in {"client", "view"} :
        \/ Close(t, via)
        \/ RefreshAll(t, via)
        \/ \E b \in Names : Refresh(t, via, b) \/ Submit(t, via, b)
    \/ \E op \in {"backend", "bind"}, b \in Names : Validate(t, op, b)

Fetch(t, b) ==
    \/ TakeLock(t, b)
    \/ FindProject(t, b)
    \/ FailToFindProject(t, b)
    \/ LearnMachine(t, b)
    \/ FailToLearn(t, b)

Step(t) ==
    \/ Authenticate(t) \/ Authorize(t) \/ Refuse(t)
    \/ \E u \in Urls : Resolve(t, u) \/ FailToResolve(t, u)
    \/ Load(t) \/ Connected(t)
    \/ \E b \in Names : Fetch(t, b)
    \/ Validated(t) \/ Finish(t)

Next ==
    \/ Reassign
    \/ \E t \in Callers : Start(t) \/ Step(t)

Spec == Init /\ [][Next]_vars

\* Every request is answered or fails, and a loop runs what is ready.
FairSpec == Spec /\ \A t \in Callers : WF_vars(Step(t))

-----------------------------------------------------------------------------
(* What has to hold. *)

Projects == {Project(r, u) : r \in ResourceNames, u \in Urls}
Facts == [id : BOOLEAN, type : BOOLEAN, project : Projects \cup {None},
           info : BOOLEAN, available : BOOLEAN, error : BOOLEAN]

DiscoveryTypeOK ==
    /\ world \in DOMAIN Worlds /\ later \in BOOLEAN
    /\ authenticated \in BOOLEAN /\ active \in Names \cup {None}
    /\ generation \in 0..MaxConnects /\ closed \in 0..MaxConnects
    /\ \A g \in 1..generation :
        /\ resource[g].name \in ResourceNames
        /\ Clusters(g) \subseteq Names
        /\ resource[g].url \in [Clusters(g) -> Urls]
        /\ resource[g].clusters \in [Clusters(g) -> Facts]
    /\ \A d \in 0..MaxConnects :
        \A u \in DOMAIN ids[d] : u \in Urls /\ ids[d][u] \in Projects
    /\ held \subseteq Range(World.loop) \X Urls
    /\ view # None => view.backend \in Names /\ view.gen \in 1..generation
    /\ \A t \in Callers : call[t].at \in
        [Names -> {"none", "list", "lock", "lookup", "ask", "unsent"}]

Complete == authenticated /\ ~Connecting

\* A connected client uses the resource it was asked for or the only quantum
\* one of the project, while that is not known to be inactive; its clusters
\* are the locations of that resource, each at the instance assigned first.
ResourceIsTheOneMeant ==
    [][generation' # generation =>
        \E i \in DOMAIN Lexis.resources :
            LET r == Lexis.resources[i]
                new == resource'[generation']
                First(n, u) == \E k \in DOMAIN r.assignments :
                    /\ r.assignments[k] =
                        [quantum |-> TRUE, location |-> n, url |-> u]
                    /\ \A j \in 1..(k - 1) :
                        r.assignments[j].location = n =>
                            ~Usable(r.assignments[j])
            IN  /\ r.name = new.name
                /\ r.window \notin {"early", "over"}
                /\ World.wanted \in {None, r.name}
                /\ World.wanted = None =>
                    \A j \in DOMAIN Lexis.resources \ {i} :
                        ~Quantum(Lexis.resources[j])
                /\ \A n \in Names : n \in DOMAIN new.url <=>
                    \E u \in Urls : First(n, u)
                /\ \A n \in DOMAIN new.url : First(n, new.url[n])]_vars

\* A backend shown as available is resolved, its machine known, and no error
\* is left from an earlier attempt; one that is not says why, unless nothing
\* has been asked of it so far.
AvailabilityIsExplained ==
    \A g \in 1..generation : \A b \in Clusters(g) :
        LET cluster == resource[g].clusters[b]
        IN  /\ cluster.available =>
                cluster.id /\ cluster.type /\ cluster.info /\ ~cluster.error
            /\ cluster.available => cluster.project # None
            /\ Complete /\ ~cluster.available /\ ~cluster.error =>
                cluster.type /\ ~cluster.info /\ World.lazy

\* A failure at one HEAppE instance, or a cluster that HEAppE does not know,
\* leaves the other backends of the resource available.
FailuresAreIsolated ==
    Complete /\ ~World.lazy =>
        \A b \in Clusters(generation) :
            \/ resource[generation].clusters[b].available
            \/ World.heappe[b] \in {"absent", "bare"}
            \/ <<generation, resource[generation].url[b]>> \in failed

\* The project of an instance is looked up once, however many coroutines need
\* it at the same time (and once more for every further event loop).
ProjectIsLookedUpOnce ==
    \A d \in 0..MaxConnects, u \in Urls :
        LET Asking(p) == /\ call[p[1]].at[p[2]] = "lookup"
                         /\ Url(call[p[1]], p[2]) = u
                         /\ CacheOf(call[p[1]]) = d
        IN  lookups[d][u] + Cardinality({p \in Callers \X Names : Asking(p)})
                <= Cardinality(Range(World.loop))

\* What the client uses belongs to the resource it is connected to: the
\* selected backend is one of it, and the project ids are its own.
Current ==
    Complete =>
        /\ active \in Clusters(generation) \cup {None}
        /\ \A b \in Clusters(generation) :
            resource[generation].clusters[b].project \in
                {None, Project(resource[generation].name,
                               resource[generation].url[b])}

\* What the client uses belongs to the resource it is connected to, as long
\* as no coroutine that began before a close() changes the client after it.
ConnectionsAreSeparate == outlived \/ Current

\* Every call ends, whatever fails and whoever holds the lock it waits for.
EveryOperationEnds ==
    \A t \in Callers : call[t].op # "none" ~> call[t].op = "none"

=============================================================================
