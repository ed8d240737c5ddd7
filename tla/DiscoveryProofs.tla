--------------------------- MODULE DiscoveryProofs ---------------------------
(***************************************************************************)
(* What Discovery keeps for any number of callers, event loops, backends   *)
(* and HEAppE instances, whatever LEXIS answers and whichever request      *)
(* fails.  The inductive invariant says where each coroutine may be: what  *)
(* it knows of its cluster, which lock it holds, and that a connect() is   *)
(* alone with the resource it is about to open.                            *)
(***************************************************************************)
EXTENDS Discovery, FiniteSetTheorems, WellFoundedInduction,
        TLAPS

(***************************************************************************)
(* Types.                                                                  *)
(***************************************************************************)
CallOK ==
    [op : {"none", "connect", "backend", "bind", "refresh", "submit"},
     phase : {"idle", "token", "resource", "resolve", "fetch", "meta"},
     via : {"client", "view"},
     gen : 0..MaxConnects, epoch : 0..MaxConnects,
     backend : Names \cup {None},
     at : [Names -> {"none", "list", "lock", "lookup", "ask", "unsent"}],
     asked : [Names -> ResourceNames \cup {None}]]

ClientOK ==
    /\ world \in DOMAIN Worlds /\ later \in BOOLEAN
    /\ authenticated \in BOOLEAN /\ active \in Names \cup {None}
    /\ generation \in 0..MaxConnects /\ closed \in 0..MaxConnects
    /\ view # None =>
        /\ view.backend \in Names
        /\ view.gen \in 1..generation /\ view.epoch \in 0..closed

ResourceOK(r) ==
    /\ DOMAIN r = {"name", "url", "clusters"}
    /\ r.name \in ResourceNames
    /\ DOMAIN r.url \subseteq Names
    /\ r.url \in [DOMAIN r.url -> Urls]
    /\ r.clusters \in [DOMAIN r.url -> Facts]

ResourcesOK ==
    /\ DOMAIN resource = 0..MaxConnects
    /\ resource[0] = NoResource
    /\ \A g \in 1..generation : ResourceOK(resource[g])

IdsOK ==
    /\ DOMAIN ids = 0..MaxConnects
    /\ \A d \in 0..MaxConnects :
        /\ ids[d] \in [DOMAIN ids[d] -> Projects]
        /\ DOMAIN ids[d] \subseteq Urls

LocksOK == held \subseteq Range(World.loop) \X Urls

CallsOK == call \in [Callers -> CallOK]

Types == ClientOK /\ ResourcesOK /\ IdsOK /\ LocksOK /\ CallsOK

(***************************************************************************)
(* Connections, each with a generation of the resource and a cache of ids. *)
(***************************************************************************)
Counts ==
    /\ authenticated \/ Connecting => closed < World.connects
    /\ generation <= closed + 1
    /\ ~authenticated => generation <= closed

(***************************************************************************)
(* Where a call `c' of caller `t' may be.                                  *)
(***************************************************************************)
Asking == {"lock", "lookup", "ask", "unsent"}

ConnectFits(c) ==
    /\ c.via = "client" /\ c.epoch = closed
    /\ c.phase \in {"token", "resource", "resolve", "fetch"}
    /\ c.phase # "token" => authenticated
    /\ c.phase \in {"token", "resource"} =>
        /\ c.gen = generation + 1 /\ generation <= closed
        /\ \A b \in Names : c.at[b] = "none"
    /\ c.phase \in {"resolve", "fetch"} =>
        c.gen = generation /\ c.gen \in 1..generation

CoroutineFits(t, c, b) ==
    /\ c.gen \in 1..generation /\ b \in Clusters(c.gen)
    /\ c.at[b] = "list" <=> c.phase = "resolve"
    /\ c.at[b] = "lookup" =>
        /\ <<World.loop[t], Url(c, b)>> \in held
        /\ c.asked[b] \in ResourceNames
    /\ c.at[b] \in Asking /\ c.op # "submit" => Known(c, b).type
    /\ c.at[b] = "ask" => c.op # "submit" /\ Known(c, b).project # None

Fits(t, c) ==
    /\ c.op = "none" => c = Idle
    /\ c.op = "connect" => ConnectFits(c)
    /\ c.op \notin {"none", "connect"} =>
        /\ c.phase \in {"fetch", "meta"}
        /\ c.gen \in 1..generation /\ c.epoch <= closed
    /\ c.op \in {"backend", "bind"} =>
        c.via = "client" /\ c.backend \in Clusters(c.gen)
    /\ \A b \in Names : c.at[b] # "none" => CoroutineFits(t, c, b)

CallsFit == \A t \in Callers : Fits(t, call[t])

\* There is one connect() at a time, and nobody else uses what it resolves.
Resolves(c) == c.op = "connect" /\ c.phase \in {"resolve", "fetch"}

Alone ==
    \A s, t \in Callers : s # t /\ call[t].op = "connect" =>
        /\ call[s].op # "connect"
        /\ Resolves(call[t]) /\ call[s].op # "none" =>
               call[s].gen < generation

\* A lock is held by one coroutine.
Owned ==
    \A s, t \in Callers : \A a, b \in Names :
        /\ call[s].at[a] = "lookup" /\ call[t].at[b] = "lookup"
        /\ World.loop[s] = World.loop[t]
        /\ Url(call[s], a) = Url(call[t], b)
        => s = t /\ a = b

Placed == Types /\ Counts /\ CallsFit /\ Alone /\ Owned

-----------------------------------------------------------------------------
LEMMA LeastElement ==
    ASSUME NEW T, T \subseteq Nat, T # {}
    PROVE  \E x \in T : \A y \in T : x <= y
<1>1. PICK x \in T : \A y \in T : ~ (<<y, x>> \in OpToRel(<, Nat))
    BY NatLessThanWellFounded, WFMin
<1>2. \A y \in T : <<y, x>> \in Nat \X Nat
    OBVIOUS
<1>3. \A y \in T : ~ (y < x)
    BY <1>1, <1>2 DEF OpToRel
<1> QED
    BY <1>3

(***************************************************************************)
(* What LEXIS and HEAppE may answer.                                       *)
(***************************************************************************)
LEMMA WorldIsTyped ==
    ASSUME world \in DOMAIN Worlds
    PROVE  /\ World.wanted \in ResourceNames \cup {None}
           /\ World.lazy \in BOOLEAN
           /\ World.connects \in 0..MaxConnects
           /\ DOMAIN World.loop = Callers
           /\ World.heappe \in
                  [Names -> {"absent", "bare", "hidden", "listed"}]
           /\ Lexis.resources \in Resources
BY DiscoveryAssumption DEF World, Lexis

\* The instance of every location of a resource is a URL.
LEMMA InstancesAreUrls ==
    ASSUME world \in DOMAIN Worlds, NEW i \in DOMAIN Lexis.resources,
           NEW r, r = Lexis.resources[i]
    PROVE  /\ r.name \in ResourceNames
           /\ DOMAIN InstanceOf(r) \subseteq Names
           /\ InstanceOf(r) \in [DOMAIN InstanceOf(r) -> Urls]
<1>1. Lexis.resources \in Resources
    BY WorldIsTyped
<1> DEFINE Assignment == [quantum : BOOLEAN, location : Names \cup {None},
                          url : Urls \cup {None}]
           Record == [name : ResourceNames,
                      window : {"undated", "open", "early", "over",
                                "garbled"},
                      assignments : Seq(Assignment)]
<1>2. Lexis.resources \in Seq(Record)
    BY <1>1 DEF Resources
<1>3. Lexis.resources[i] \in Record
    <2> HIDE DEF Record
    <2> QED
        BY <1>2
<1>4. r.name \in ResourceNames /\ r.assignments \in Seq(Assignment)
    BY <1>3
<1>5. ASSUME NEW n \in Names, UsableAt(r, n) # {}
      PROVE  /\ UsableAt(r, n) \subseteq Nat
             /\ \A k \in UsableAt(r, n) : r.assignments[k].url \in Urls
    <2>1. DOMAIN r.assignments \subseteq Nat
        <3> HIDE DEF Assignment
        <3> QED
            BY <1>4
    <2>2. \A k \in DOMAIN r.assignments : r.assignments[k] \in Assignment
        <3> HIDE DEF Assignment
        <3> QED
            BY <1>4
    <2> QED
        BY <2>1, <2>2 DEF UsableAt, Usable
<1>6. ASSUME NEW n \in Names, UsableAt(r, n) # {}
      PROVE  r.assignments[CHOOSE k \in UsableAt(r, n) :
                     \A j \in UsableAt(r, n) : k <= j].url \in Urls
    <2>1. \E k \in UsableAt(r, n) : \A j \in UsableAt(r, n) : k <= j
        BY <1>5, <1>6, LeastElement
    <2> QED
        BY <1>5, <1>6, <2>1
<1>7. DOMAIN InstanceOf(r) = {n \in Names : UsableAt(r, n) # {}}
    BY DEF InstanceOf
<1> QED
    BY <1>4, <1>6, <1>7 DEF InstanceOf

-----------------------------------------------------------------------------
(***************************************************************************)
(* How a step may change calls.                                            *)
(***************************************************************************)

\* What is known of the clusters of a generation only grows.
Grows(g) ==
    g \in 1..generation =>
        /\ resource'[g].name = resource[g].name
        /\ resource'[g].url = resource[g].url
        /\ DOMAIN resource'[g].clusters = DOMAIN resource[g].clusters
        /\ \A b \in Clusters(g) :
            /\ resource[g].clusters[b].type =>
                   resource'[g].clusters[b].type
            /\ resource[g].clusters[b].project # None =>
                   resource'[g].clusters[b].project # None

Looks(c, b) == c.at[b] = "lookup"

\* The locks of call `c' of caller `t' are no one else's.
Apart(t, c) ==
    /\ \A a, b \in Names :
        Looks(c, a) /\ Looks(c, b) /\ Url(c, a) = Url(c, b) => a = b
    /\ \A s \in Callers \ {t} : \A a, b \in Names :
        Looks(call[s], a) /\ Looks(c, b) /\ World.loop[s] = World.loop[t] =>
            Url(call[s], a) # Url(c, b)

\* How a call may follow another.
Follows(c, k) ==
    \/ k.op = "none"
    \/ k.op = c.op /\ k.gen = c.gen /\ (Resolves(k) => Resolves(c))
    \/ ~Connecting /\ (k.op = "connect" => k.phase = "token")

\* The locks of the other calls are still held.
OthersHold(t) ==
    \A s \in Callers \ {t} : \A b \in Names : Looks(call[s], b) =>
        <<World.loop[s], Url(call[s], b)>> \in held'

Frame == UNCHANGED <<world, authenticated, generation, closed>>

LEMMA OtherFits ==
    ASSUME NEW s \in Callers, NEW c, Fits(s, c), Frame, Grows(c.gen),
           \A b \in Names : Looks(c, b) =>
               <<World.loop[s], Url(c, b)>> \in held'
    PROVE  Fits(s, c)'
<1> USE DEF Frame
<1>1. ASSUME NEW b \in Names, CoroutineFits(s, c, b)
      PROVE  CoroutineFits(s, c, b)'
    <2>1. c.gen \in 1..generation /\ b \in Clusters(c.gen)
        BY <1>1 DEF CoroutineFits
    <2>2. /\ resource'[c.gen].url = resource[c.gen].url
          /\ resource[c.gen].clusters[b].type =>
                 resource'[c.gen].clusters[b].type
          /\ resource[c.gen].clusters[b].project # None =>
                 resource'[c.gen].clusters[b].project # None
        BY <2>1 DEF Grows
    <2> QED
        BY <1>1, <2>2 DEF CoroutineFits, Clusters, Url, Known, Looks, World
<1>2. ConnectFits(c) => ConnectFits(c)'
    BY DEF ConnectFits
<1>3. c.gen \in 1..generation => Clusters(c.gen)' = Clusters(c.gen)
    BY DEF Grows, Clusters
<1> QED
    BY <1>1, <1>2, <1>3 DEF Fits

LEMMA CallMoves ==
    ASSUME CallsOK, CallsFit, Alone, Owned,
           NEW t \in Callers, NEW k \in CallOK,
           call' = [call EXCEPT ![t] = k], Frame,
           \A s \in Callers \ {t} : Grows(call[s].gen),
           \A b \in Names : Looks(k, b) =>
               resource'[k.gen].url = resource[k.gen].url,
           OthersHold(t), Apart(t, k), Follows(call[t], k), Fits(t, k)'
    PROVE  CallsOK' /\ CallsFit' /\ Alone' /\ Owned'
<1> USE DEF Frame
<1>1. call'[t] = k /\ \A s \in Callers \ {t} : call'[s] = call[s]
    BY DEF CallsOK
<1>2. CallsOK'
    BY DEF CallsOK
<1>3. CallsFit'
    <2>1. ASSUME NEW s \in Callers \ {t}, NEW c, c = call[s]
          PROVE  Fits(s, c)'
        <3>1. Fits(s, c) /\ Grows(c.gen)
              /\ \A b \in Names : Looks(c, b) =>
                   <<World.loop[s], Url(c, b)>> \in held'
            BY <2>1 DEF CallsFit, OthersHold
        <3> QED
            BY <3>1, OtherFits
    <2>2. ASSUME NEW s \in Callers, NEW c, c = call'[s]
          PROVE  Fits(s, c)'
        BY <1>1, <2>1, <2>2
    <2> QED
        BY <2>2 DEF CallsFit
<1>4. Alone'
    <2> SUFFICES ASSUME NEW s \in Callers, NEW r \in Callers, s # r,
                        call'[r].op = "connect"
                 PROVE  /\ call'[s].op # "connect"
                        /\ Resolves(call'[r]) /\ call'[s].op # "none" =>
                               call'[s].gen < generation
        BY DEF Alone, Resolves
    <2>1. CASE k.op = "none"
        BY <1>1, <2>1 DEF Alone, Resolves
    <2>2. CASE /\ k.op = call[t].op /\ k.gen = call[t].gen
               /\ Resolves(k) => Resolves(call[t])
        BY <1>1, <2>2 DEF Alone
    <2>3. CASE ~Connecting /\ (k.op = "connect" => k.phase = "token")
        BY <1>1, <2>3 DEF Connecting, Resolves
    <2> QED
        BY <2>1, <2>2, <2>3 DEF Follows
<1>5. Owned'
    <2>1. ASSUME NEW s \in Callers \ {t}, NEW b \in Names,
                 Looks(call[s], b)
          PROVE  resource'[call[s].gen].url = resource[call[s].gen].url
        <3>1. call[s].gen \in 1..generation
            BY <2>1 DEF CallsFit, Fits, CoroutineFits, Looks
        <3> QED
            BY <3>1 DEF Grows
    <2>2. ASSUME NEW s \in Callers, NEW r \in Callers,
                 NEW a \in Names, NEW b \in Names,
                 Looks(call'[s], a), Looks(call'[r], b),
                 World.loop[s] = World.loop[r],
                 resource'[call'[s].gen].url[a]
                     = resource'[call'[r].gen].url[b]
          PROVE  s = r /\ a = b
        <3>1. CASE s # t /\ r # t
            <4>1. call'[s] = call[s] /\ call'[r] = call[r]
                BY <1>1, <3>1
            <4>2. Looks(call[s], a) /\ Looks(call[r], b)
                BY <2>2, <4>1
            <4>3. Url(call[s], a) = Url(call[r], b)
                BY <2>1, <2>2, <3>1, <4>1, <4>2 DEF Url
            <4> QED
                BY <2>2, <4>2, <4>3 DEF Owned, Looks
        <3>2. CASE s = t /\ r = t
            BY <1>1, <2>2, <3>2 DEF Apart, Url
        <3>3. CASE s # t /\ r = t
            BY <1>1, <2>1, <2>2, <3>3 DEF Apart, Url
        <3>4. CASE s = t /\ r # t
            BY <1>1, <2>1, <2>2, <3>4 DEF Apart, Url
        <3> QED
            BY <3>1, <3>2, <3>3, <3>4
    <2> QED
        BY <2>2 DEF Owned, Looks, Url, World
<1> QED
    BY <1>2, <1>3, <1>4, <1>5

LEMMA ApartIfOld ==
    ASSUME CallsOK, Owned, NEW t \in Callers, NEW k,
           \A b \in Names : Looks(k, b) =>
               Looks(call[t], b) /\ k.gen = call[t].gen
    PROVE  Apart(t, k)
BY DEF Apart, Owned, Looks, Url

\* A step of one call that leaves connections alone.
LEMMA CallKeeps ==
    ASSUME Placed, NEW t \in Callers, NEW k \in CallOK,
           call' = [call EXCEPT ![t] = k], Frame,
           ClientOK', ResourcesOK', IdsOK', LocksOK',
           \A s \in Callers \ {t} : Grows(call[s].gen),
           \A b \in Names : Looks(k, b) =>
               resource'[k.gen].url = resource[k.gen].url,
           OthersHold(t), Apart(t, k), Follows(call[t], k), Fits(t, k)',
           k.op = "connect" /\ ~Connecting => closed < World.connects
    PROVE  Placed'
<1>1. CallsOK /\ CallsFit /\ Alone /\ Owned /\ Counts
    BY DEF Placed, Types
<1>2. CallsOK' /\ CallsFit' /\ Alone' /\ Owned'
    BY <1>1, CallMoves
<1>3. Connecting' => Connecting \/ k.op = "connect"
    BY <1>1 DEF Connecting, CallsOK
<1>4. Counts'
    BY <1>1, <1>3 DEF Counts, Frame, World
<1> QED
    BY <1>2, <1>4 DEF Placed, Types

\* A step of one call that changes nothing that is known.
LEMMA CallOnlyKeeps ==
    ASSUME Placed, NEW t \in Callers, NEW k \in CallOK,
           call' = [call EXCEPT ![t] = k],
           UNCHANGED <<world, later, authenticated, generation, closed,
                       knowledge>>,
           active' \in Names \cup {None},
           UNCHANGED view \/ ClientOK',
           Apart(t, k), Follows(call[t], k), Fits(t, k),
           k.op = "connect" /\ ~Connecting => closed < World.connects
    PROVE  Placed'
<1> USE DEF knowledge
<1>1. Types /\ CallsFit
    BY DEF Placed
<1>2. ClientOK' /\ ResourcesOK' /\ IdsOK' /\ LocksOK'
    BY <1>1 DEF Types, ClientOK, ResourcesOK, IdsOK, LocksOK, World
<1>3. Frame /\ OthersHold(t)
    BY <1>1 DEF Frame, OthersHold, CallsFit, Fits, CoroutineFits, Looks
<1>4. \A g : Grows(g)
    BY DEF Grows
<1>5. Fits(t, k)'
    BY DEF Fits, ConnectFits, CoroutineFits, Clusters, Url, Known, World
<1>6. /\ \A s \in Callers \ {t} : Grows(call[s].gen)
      /\ \A b \in Names : Looks(k, b) =>
             resource'[k.gen].url = resource[k.gen].url
    BY <1>4
<1> QED
    BY <1>2, <1>3, <1>5, <1>6, CallKeeps

LEMMA IdleFits ==
    /\ Idle \in CallOK /\ Idle.op = "none"
    /\ \A b \in Names : ~Looks(Idle, b)
    /\ \A t \in Callers : Fits(t, Idle)
<1>1. 0 \in 0..MaxConnects
    BY DiscoveryAssumption
<1> QED
    BY <1>1 DEF Idle, CallOK, Looks, Fits

\* A call that ends, with nothing learnt.
LEMMA EndKeeps ==
    ASSUME Placed, NEW t \in Callers, call' = [call EXCEPT ![t] = Idle],
           UNCHANGED <<world, later, authenticated, generation, closed,
                       knowledge>>,
           active' \in Names \cup {None},
           UNCHANGED view \/ ClientOK'
    PROVE  Placed'
<1>1. PICK k : k = Idle
    OBVIOUS
<1>2. /\ k \in CallOK /\ call' = [call EXCEPT ![t] = k] /\ Fits(t, k)
      /\ Follows(call[t], k) /\ Apart(t, k)
      /\ k.op = "connect" /\ ~Connecting => closed < World.connects
    BY <1>1, IdleFits DEF Follows, Apart
<1> QED
    BY <1>2, CallOnlyKeeps

LEMMA ConnectKeeps ==
    ASSUME Placed, NEW t \in Callers, Connect(t)
    PROVE  Placed'
<1>1. PICK k : k = [Idle EXCEPT !.op = "connect", !.phase = "token",
                                !.gen = generation + 1, !.epoch = closed]
    OBVIOUS
<1>2. /\ call[t] = Idle /\ ~authenticated /\ ~Connecting
      /\ closed < World.connects
    BY DEF Connect
<1>3. /\ generation <= closed /\ generation \in Nat /\ closed \in Nat
      /\ generation + 1 \in 0..MaxConnects /\ closed \in 0..MaxConnects
    BY <1>2, WorldIsTyped, DiscoveryAssumption
       DEF Placed, Counts, Types, ClientOK
<1>4. /\ k \in CallOK /\ k.op = "connect" /\ k.phase = "token"
      /\ k.via = "client" /\ k.epoch = closed /\ k.gen = generation + 1
      /\ \A b \in Names : k.at[b] = "none"
    BY <1>1, <1>3, IdleFits DEF CallOK, Idle
<1>5. call' = [call EXCEPT ![t] = k]
    BY <1>1, <1>2 DEF Connect, Placed, Types, CallsOK
<1>6. Fits(t, k) /\ Follows(call[t], k)
    BY <1>2, <1>3, <1>4 DEF Fits, ConnectFits, Follows
<1>7. Apart(t, k)
    BY <1>4 DEF Apart, Looks
<1>8. /\ UNCHANGED <<world, later, authenticated, generation, closed,
                     knowledge>>
      /\ active' \in Names \cup {None} /\ UNCHANGED view
    BY DEF Connect, client, Placed, Types, ClientOK
<1>9. k.op = "connect" /\ ~Connecting => closed < World.connects
    BY <1>2
<1> QED
    BY <1>4, <1>5, <1>6, <1>7, <1>8, <1>9, CallOnlyKeeps

-----------------------------------------------------------------------------
(***************************************************************************)
(* Steps that change the connection.                                       *)
(***************************************************************************)
LEMMA BystanderFits ==
    ASSUME ClientOK, ClientOK', NEW s \in Callers, NEW c \in CallOK,
           Fits(s, c), c.op # "connect",
           world' = world, generation <= generation', closed <= closed',
           Grows(c.gen),
           \A b \in Names : Looks(c, b) =>
               <<World.loop[s], Url(c, b)>> \in held'
    PROVE  Fits(s, c)'
<1>1. /\ generation \in Nat /\ generation' \in Nat
      /\ closed \in Nat /\ closed' \in Nat /\ c.epoch \in Nat
      /\ c.gen \in 1..generation => c.gen \in 1..generation'
      /\ c.epoch <= closed => c.epoch <= closed'
    BY DiscoveryAssumption DEF ClientOK, CallOK
<1>2. ASSUME NEW b \in Names, CoroutineFits(s, c, b)
      PROVE  CoroutineFits(s, c, b)'
    <2>1. c.gen \in 1..generation /\ b \in Clusters(c.gen)
        BY <1>2 DEF CoroutineFits
    <2>2. /\ resource'[c.gen].url = resource[c.gen].url
          /\ resource[c.gen].clusters[b].type =>
                 resource'[c.gen].clusters[b].type
          /\ resource[c.gen].clusters[b].project # None =>
                 resource'[c.gen].clusters[b].project # None
        BY <2>1 DEF Grows
    <2> QED
        BY <1>1, <1>2, <2>2
           DEF CoroutineFits, Clusters, Url, Known, Looks, World
<1>3. c.gen \in 1..generation => Clusters(c.gen)' = Clusters(c.gen)
    BY DEF Grows, Clusters
<1> QED
    BY <1>1, <1>2, <1>3 DEF Fits

LEMMA ConnectionMoves ==
    ASSUME Placed, ClientOK', NEW t \in Callers, call[t].op = "connect",
           NEW k \in CallOK, call' = [call EXCEPT ![t] = k],
           k.op \in {"none", "connect"},
           UNCHANGED <<world, held>>,
           generation <= generation', closed <= closed',
           \A s \in Callers \ {t} : Grows(call[s].gen),
           \A b \in Names : ~Looks(k, b), Fits(t, k)',
           Resolves(k) => \A s \in Callers \ {t} :
               call[s].op # "none" => call[s].gen < generation'
    PROVE  CallsOK' /\ CallsFit' /\ Alone' /\ Owned'
<1>1. call'[t] = k /\ \A s \in Callers \ {t} : call'[s] = call[s]
    BY DEF Placed, Types, CallsOK
<1>2. CallsOK'
    BY DEF Placed, Types, CallsOK
<1>3. \A s \in Callers \ {t} : call[s] \in CallOK /\ call[s].op # "connect"
    BY DEF Placed, Types, CallsOK, Alone
<1>4. CallsFit'
    <2>1. ASSUME NEW s \in Callers \ {t}, NEW c, c = call[s]
          PROVE  Fits(s, c)'
        <3>1. /\ Fits(s, c) /\ c \in CallOK /\ c.op # "connect"
              /\ Grows(c.gen)
              /\ \A b \in Names : Looks(c, b) =>
                   <<World.loop[s], Url(c, b)>> \in held'
            BY <1>3, <2>1
               DEF Placed, CallsFit, Fits, CoroutineFits, Looks
        <3>2. ClientOK
            BY DEF Placed, Types
        <3> QED
            BY <3>1, <3>2, BystanderFits
    <2>2. ASSUME NEW s \in Callers, NEW c, c = call'[s]
          PROVE  Fits(s, c)'
        BY <1>1, <2>1, <2>2
    <2> QED
        BY <2>2 DEF CallsFit
<1>5. Alone'
    <2> SUFFICES ASSUME NEW s \in Callers, NEW r \in Callers, s # r,
                        call'[r].op = "connect"
                 PROVE  /\ call'[s].op # "connect"
                        /\ Resolves(call'[r]) /\ call'[s].op # "none" =>
                               call'[s].gen < generation'
        BY DEF Alone, Resolves
    <2>1. r = t
        BY <1>1, <1>3
    <2> QED
        BY <1>1, <1>3, <2>1
<1>6. Owned'
    <2>1. ASSUME NEW s \in Callers, NEW b \in Names, Looks(call'[s], b)
          PROVE  /\ Looks(call[s], b) /\ call'[s] = call[s]
                 /\ resource'[call[s].gen].url = resource[call[s].gen].url
        <3>1. s # t /\ call'[s] = call[s]
            BY <1>1, <2>1
        <3>2. call[s].gen \in 1..generation /\ Grows(call[s].gen)
            BY <2>1, <3>1
               DEF Placed, CallsFit, Fits, CoroutineFits, Looks
        <3> QED
            BY <2>1, <3>1, <3>2 DEF Grows
    <2>2. ASSUME NEW s \in Callers, NEW r \in Callers,
                 NEW a \in Names, NEW b \in Names,
                 Looks(call'[s], a), Looks(call'[r], b),
                 World.loop[s] = World.loop[r],
                 resource'[call'[s].gen].url[a]
                     = resource'[call'[r].gen].url[b]
          PROVE  s = r /\ a = b
        <3>1. /\ Looks(call[s], a) /\ Looks(call[r], b)
              /\ Url(call[s], a) = Url(call[r], b)
            BY <2>1, <2>2 DEF Url
        <3> QED
            BY <2>2, <3>1 DEF Placed, Owned, Looks
    <2> QED
        BY <2>2 DEF Owned, Looks, Url, World
<1> QED
    BY <1>2, <1>4, <1>5, <1>6

LEMMA AuthenticateKeeps ==
    ASSUME Placed, NEW t \in Callers, Authenticate(t)
    PROVE  Placed'
<1>1. PICK k : k = [call[t] EXCEPT !.phase = "resource"]
    OBVIOUS
<1>2. /\ call[t] \in CallOK /\ Fits(t, call[t]) /\ ClientOK /\ Counts
      /\ generation \in Nat /\ closed \in Nat
    BY DiscoveryAssumption
       DEF Placed, Types, CallsOK, CallsFit, ClientOK
<1>3. call[t].phase = "token" /\ call[t].op = "connect"
    BY <1>2 DEF Authenticate, Fits, Idle
<1>4. /\ k \in CallOK /\ k.op = "connect" /\ k.phase = "resource"
      /\ k.via = call[t].via /\ k.epoch = call[t].epoch
      /\ k.gen = call[t].gen /\ k.at = call[t].at
    BY <1>1, <1>2, <1>3 DEF CallOK
<1>5. /\ call' = [call EXCEPT ![t] = k] /\ authenticated' = TRUE
      /\ UNCHANGED <<world, later, generation, active, closed, resource, ids,
                     held, view>>
    BY <1>1 DEF Authenticate, knowledge
<1>6. ClientOK'
    BY <1>2, <1>5 DEF ClientOK
<1>7. Fits(t, k)'
    BY <1>2, <1>3, <1>4, <1>5 DEF Fits, ConnectFits
<1>8. \A s \in Callers \ {t} : Grows(call[s].gen)
    BY <1>5 DEF Grows
<1>9. \A b \in Names : ~Looks(k, b)
    BY <1>2, <1>3, <1>4 DEF Fits, ConnectFits, Looks
<1>10. generation <= generation' /\ closed <= closed'
    BY <1>2, <1>5
<1>11. ~Resolves(k) /\ k.op \in {"none", "connect"}
    BY <1>4 DEF Resolves
<1>12. UNCHANGED <<world, held>>
    BY <1>5
<1>13. CallsOK' /\ CallsFit' /\ Alone' /\ Owned'
    BY <1>3, <1>4, <1>5, <1>6, <1>7, <1>8, <1>9, <1>10, <1>11, <1>12,
       ConnectionMoves
<1>14. Counts'
    <2>1. closed < World.connects
        BY <1>2, <1>3 DEF Counts, Connecting
    <2> QED
        BY <1>2, <1>5, <2>1 DEF Counts, World
<1>15. ResourcesOK' /\ IdsOK' /\ LocksOK'
    BY <1>5 DEF Placed, Types, ResourcesOK, IdsOK, LocksOK, World
<1> QED
    BY <1>6, <1>13, <1>14, <1>15 DEF Placed, Types

LEMMA AuthorizeKeeps ==
    ASSUME Placed, NEW t \in Callers, Authorize(t)
    PROVE  Placed'
<1>1. PICK i \in Choice : LET r == Lexis.resources[i]
                              url == InstanceOf(r)
       IN  /\ resource' = [resource EXCEPT ![generation + 1] =
                  [name |-> r.name, url |-> url,
                   clusters |-> [b \in DOMAIN url |-> Cluster]]]
           /\ call' = [call EXCEPT ![t].phase = "resolve", ![t].at =
                  [b \in Names |-> IF b \in DOMAIN url THEN "list"
                                                       ELSE "none"]]
    BY DEF Authorize
<1>2. PICK r : r = Lexis.resources[i]
    OBVIOUS
<1>3. PICK url : url = InstanceOf(r)
    OBVIOUS
<1>4. PICK k : k = [call[t] EXCEPT !.phase = "resolve", !.at =
                  [b \in Names |-> IF b \in DOMAIN url THEN "list"
                                                       ELSE "none"]]
    OBVIOUS
<1>5. PICK new : new = [name |-> r.name, url |-> url,
                        clusters |-> [b \in DOMAIN url |-> Cluster]]
    OBVIOUS
<1>6. /\ call[t] \in CallOK /\ Fits(t, call[t]) /\ ClientOK /\ Counts
      /\ generation \in Nat /\ closed \in Nat /\ ResourcesOK
    BY DiscoveryAssumption
       DEF Placed, Types, CallsOK, CallsFit, ClientOK
<1>7. call[t].phase = "resource" /\ call[t].op = "connect"
    BY <1>6 DEF Authorize, Fits, Idle
<1>8. /\ call[t].via = "client" /\ call[t].epoch = closed /\ authenticated
      /\ call[t].gen = generation + 1 /\ closed < World.connects
      /\ generation <= closed
    BY <1>6, <1>7 DEF Fits, ConnectFits, Counts
<1>9. generation + 1 \in 0..MaxConnects /\ generation + 1 # 0
    BY <1>6, <1>7 DEF CallOK, Fits, ConnectFits
<1>10. /\ call' = [call EXCEPT ![t] = k]
       /\ resource' = [resource EXCEPT ![generation + 1] = new]
       /\ generation' = generation + 1
       /\ UNCHANGED <<world, later, authenticated, active, closed, ids, held,
                      view>>
    BY <1>1, <1>2, <1>3, <1>4, <1>5, <1>6
       DEF Authorize, Placed, Types, CallsOK
<1>11. ResourceOK(new)
    <2>1. i \in DOMAIN Lexis.resources
        BY DEF Choice, Candidates
    <2>2. /\ r.name \in ResourceNames /\ DOMAIN url \subseteq Names
          /\ url \in [DOMAIN url -> Urls]
        BY <1>2, <1>3, <1>6, <2>1, InstancesAreUrls DEF ClientOK
    <2>3. Cluster \in Facts
        BY DEF Cluster, Facts
    <2> QED
        BY <1>5, <2>2, <2>3 DEF ResourceOK
<1>12. /\ resource'[generation + 1] = new
       /\ \A g \in 1..generation : resource'[g] = resource[g]
    BY <1>6, <1>9, <1>10 DEF ResourcesOK
<1>13. ResourcesOK'
    BY <1>6, <1>10, <1>11, <1>12 DEF ResourcesOK, ResourceOK
<1>14. ClientOK'
    BY <1>6, <1>9, <1>10 DEF ClientOK
<1>15. /\ k \in CallOK /\ k.op = "connect" /\ k.phase = "resolve"
       /\ k.via = "client" /\ k.epoch = closed /\ k.gen = generation + 1
       /\ k.at = [b \in Names |-> IF b \in DOMAIN url THEN "list"
                                                      ELSE "none"]
    BY <1>4, <1>6, <1>7, <1>8 DEF CallOK
<1>16. Fits(t, k)'
    <2>1. new.url = url
        BY <1>5
    <2>2. generation' \in 1..generation'
        BY <1>6, <1>9, <1>10
    <2>3. ConnectFits(k)'
        BY <1>8, <1>10, <1>15, <2>2 DEF ConnectFits
    <2>4. \A b \in Names : k.at[b] # "none" => CoroutineFits(t, k, b)'
        BY <1>10, <1>12, <1>15, <2>1, <2>2
           DEF CoroutineFits, Clusters, Asking
    <2> QED
        BY <1>15, <2>3, <2>4 DEF Fits
<1>17. \A s \in Callers \ {t} : Grows(call[s].gen)
    BY <1>12 DEF Grows
<1>18. \A b \in Names : ~Looks(k, b)
    BY <1>15 DEF Looks
<1>19. /\ generation <= generation' /\ closed <= closed'
       /\ UNCHANGED <<world, held>> /\ k.op \in {"none", "connect"}
    BY <1>6, <1>10, <1>15
<1>20. \A s \in Callers \ {t} :
           call[s].op # "none" => call[s].gen < generation'
    BY <1>6, <1>7, <1>10 DEF Placed, Alone, CallsFit, Fits
<1>21. CallsOK' /\ CallsFit' /\ Alone' /\ Owned'
    BY <1>7, <1>10, <1>14, <1>15, <1>16, <1>17, <1>18, <1>19, <1>20,
       ConnectionMoves
<1>22. Counts'
    BY <1>6, <1>8, <1>10 DEF Counts, World
<1>23. IdsOK' /\ LocksOK'
    BY <1>10 DEF Placed, Types, IdsOK, LocksOK, World
<1> QED
    BY <1>13, <1>14, <1>21, <1>22, <1>23 DEF Placed, Types

\* What closing the client does to what is known of connections.
LEMMA DisconnectIsTyped ==
    ASSUME Placed, Disconnect, authenticated \/ Connecting,
           UNCHANGED <<world, later, view>>, ~Connecting'
    PROVE  /\ ClientOK' /\ Counts'
           /\ generation <= generation' /\ closed <= closed'
<1>1. ClientOK /\ Counts /\ closed < World.connects
    BY DEF Placed, Types, Counts
<1>2. /\ closed \in Nat /\ generation \in Nat
      /\ closed + 1 \in 0..MaxConnects
    BY <1>1, WorldIsTyped, DiscoveryAssumption DEF ClientOK
<1>3. view # None => view.epoch \in 0..closed'
    BY <1>1, <1>2 DEF ClientOK, Disconnect
<1>4. ClientOK'
    BY <1>1, <1>2, <1>3 DEF ClientOK, Disconnect
<1>5. Counts'
    BY <1>1, <1>2 DEF Counts, Disconnect
<1> QED
    BY <1>2, <1>4, <1>5 DEF Disconnect

LEMMA RefuseKeeps ==
    ASSUME Placed, NEW t \in Callers, Refuse(t)
    PROVE  Placed'
<1>1. PICK k : k = Idle
    OBVIOUS
<1>2. /\ call[t] \in CallOK /\ Fits(t, call[t])
    BY DEF Placed, Types, CallsOK, CallsFit
<1>3. call[t].op = "connect"
    BY <1>2 DEF Refuse, Fits, Idle
<1>4. /\ call' = [call EXCEPT ![t] = k] /\ Disconnect
      /\ UNCHANGED <<world, later, resource, ids, held, view>>
    BY <1>1 DEF Refuse, knowledge
<1>5. /\ k \in CallOK /\ k.op = "none" /\ ~Resolves(k)
      /\ \A b \in Names : ~Looks(k, b)
    BY <1>1, IdleFits DEF Resolves
<1>6. ~Connecting'
    BY <1>3, <1>4, <1>5
       DEF Placed, Alone, Connecting, Types, CallsOK
<1>7. /\ ClientOK' /\ Counts'
      /\ generation <= generation' /\ closed <= closed'
    BY <1>3, <1>4, <1>6, DisconnectIsTyped DEF Connecting
<1>8. Fits(t, k)'
    BY <1>1 DEF Fits, Idle
<1>9. \A s \in Callers \ {t} : Grows(call[s].gen)
    BY <1>4 DEF Grows
<1>10. k.op \in {"none", "connect"} /\ UNCHANGED <<world, held>>
    BY <1>4, <1>5
<1>11. CallsOK' /\ CallsFit' /\ Alone' /\ Owned'
    BY <1>3, <1>4, <1>5, <1>7, <1>8, <1>9, <1>10, ConnectionMoves
<1>12. ResourcesOK' /\ IdsOK' /\ LocksOK'
    BY <1>4
       DEF Disconnect, Placed, Types, ResourcesOK, IdsOK, LocksOK, World
<1> QED
    BY <1>7, <1>11, <1>12 DEF Placed, Types

LEMMA CloseKeeps ==
    ASSUME Placed, NEW t \in Callers, NEW via, Close(t, via)
    PROVE  Placed'
<1>1. /\ UNCHANGED <<world, later, resource, ids, held, call>>
      /\ ~Connecting
    BY DEF Close, knowledge
<1>2. CASE authenticated /\ Disconnect /\ UNCHANGED view
    <2>1. ~Connecting'
        BY <1>1 DEF Connecting
    <2>2. /\ ClientOK' /\ Counts'
          /\ generation <= generation' /\ closed <= closed'
        BY <1>1, <1>2, <2>1, DisconnectIsTyped
    <2>3. \A s \in Callers : call[s].op # "connect" /\ call[s] \in CallOK
        BY <1>1 DEF Connecting, Placed, Types, CallsOK
    <2>4. ASSUME NEW s \in Callers, NEW c, c = call[s]
          PROVE  Fits(s, c)'
        <3>1. /\ Fits(s, c) /\ c \in CallOK /\ c.op # "connect"
              /\ Grows(c.gen) /\ world' = world
              /\ \A b \in Names : Looks(c, b) =>
                   <<World.loop[s], Url(c, b)>> \in held'
            BY <1>1, <2>3, <2>4 DEF Placed, CallsFit, Fits,
               CoroutineFits, Looks, Grows
        <3>2. ClientOK
            BY DEF Placed, Types
        <3> QED
            BY <2>2, <3>1, <3>2, BystanderFits
    <2>5. CallsFit'
        <3>1. ASSUME NEW s \in Callers, NEW c, c = call'[s]
              PROVE  Fits(s, c)'
            BY <1>1, <2>4, <3>1
        <3> QED
            BY <3>1 DEF CallsFit
    <2>6. Alone' /\ Owned'
        BY <1>1, <2>3 DEF Placed, Alone, Owned, Url, World
    <2>7. ResourcesOK' /\ IdsOK' /\ LocksOK' /\ CallsOK'
        BY <1>1, <1>2 DEF Disconnect, Placed, Types, ResourcesOK, IdsOK,
           LocksOK, CallsOK, World
    <2> QED
        BY <2>2, <2>5, <2>6, <2>7 DEF Placed, Types
<1>3. CASE view' = None /\ UNCHANGED client
    <2>1. Types' /\ Counts'
        BY <1>1, <1>3 DEF client, Placed, Types, ClientOK, ResourcesOK,
           IdsOK, LocksOK, CallsOK, Counts, Connecting, World
    <2>2. \A s \in Callers, b \in Names :
              CoroutineFits(s, call[s], b) => CoroutineFits(s, call[s], b)'
        BY <1>1, <1>3 DEF client, CoroutineFits, Clusters, Known, Url, World
    <2>3. CallsFit'
        BY <1>1, <1>3, <2>2 DEF client, Placed, CallsFit, Fits,
           ConnectFits, Clusters
    <2>4. Alone' /\ Owned'
        BY <1>1, <1>3 DEF client, Placed, Alone, Resolves, Owned, Looks, Url,
           World
    <2> QED
        BY <2>1, <2>3, <2>4 DEF Placed
<1> QED
    BY <1>2, <1>3 DEF Close

LEMMA ReassignKeeps ==
    ASSUME Placed, Reassign
    PROVE  Placed'
<1>1. Types' /\ Counts'
    BY DEF Reassign, client, knowledge, Placed, Types, ClientOK, ResourcesOK,
       IdsOK, LocksOK, CallsOK, Counts, Connecting, World
<1>2. \A t \in Callers, b \in Names :
          CoroutineFits(t, call[t], b) => CoroutineFits(t, call[t], b)'
    BY DEF Reassign, client, knowledge, CoroutineFits, Clusters, Known, Url,
       World
<1>3. CallsFit'
    BY <1>2 DEF Reassign, client, knowledge, Placed, CallsFit, Fits,
       ConnectFits, Clusters
<1>4. Alone' /\ Owned'
    BY DEF Reassign, client, knowledge, Placed, Alone, Resolves, Owned, Looks,
       Url, World
<1> QED
    BY <1>1, <1>3, <1>4 DEF Placed

-----------------------------------------------------------------------------
(***************************************************************************)
(* Steps of connect() with the resource.                                   *)
(***************************************************************************)
LEMMA PlacedCall ==
    ASSUME Placed, NEW t \in Callers, NEW c, c = call[t]
    PROVE  /\ c \in CallOK /\ Fits(t, c)
           /\ generation \in 0..MaxConnects /\ generation \in Nat
           /\ closed \in 0..MaxConnects /\ closed \in Nat
           /\ \A g \in 1..generation : ResourceOK(resource[g])
BY DiscoveryAssumption
   DEF Placed, Types, CallsOK, CallsFit, ClientOK, ResourcesOK

\* The answer for all clusters of an instance, `f' being the clusters then.
LEMMA AnswerKeeps ==
    ASSUME Placed, NEW t \in Callers, NEW f, NEW at,
           \E b \in Names : call[t].at[b] = "list",
           f \in [Clusters(call[t].gen) -> Facts],
           \A b \in Names : at[b] \in {"none", call[t].at[b]},
           at \in [Names -> {"none", "list", "lock", "lookup", "ask",
                             "unsent"}],
           call' = [call EXCEPT ![t].at = at],
           resource' = [resource EXCEPT ![call[t].gen].clusters = f],
           UNCHANGED <<world, later, client, ids, held, view>>
    PROVE  Placed'
<1>1. PICK c : c = call[t]
    OBVIOUS
<1>2. PICK k : k = [c EXCEPT !.at = at]
    OBVIOUS
<1>3. c \in CallOK /\ Fits(t, c)
      /\ \A g \in 1..generation : ResourceOK(resource[g])
    BY <1>1, PlacedCall
<1>4. c.phase = "resolve" /\ c.op = "connect"
    <2>1. PICK b \in Names : c.at[b] = "list"
        BY <1>1
    <2>2. c.phase = "resolve"
        BY <1>3, <2>1 DEF Fits, CoroutineFits
    <2> QED
        BY <1>3, <2>2 DEF Fits, Idle
<1>5. c.gen = generation /\ generation \in 1..generation
    BY <1>3, <1>4 DEF Fits, ConnectFits
<1>6. /\ call' = [call EXCEPT ![t] = k]
      /\ resource' = [resource EXCEPT ![generation].clusters = f]
      /\ UNCHANGED <<world, later, authenticated, generation, active, closed,
                     ids, held, view>>
    BY <1>1, <1>2, <1>5 DEF client
<1>7. /\ k \in CallOK /\ k.at = at /\ k.op = c.op /\ k.gen = c.gen
      /\ k.phase = c.phase /\ k.via = c.via /\ k.epoch = c.epoch
    BY <1>2, <1>3 DEF CallOK
<1>8. /\ resource'[generation].url = resource[generation].url
      /\ resource'[generation].clusters = f
      /\ ResourceOK(resource'[generation])
      /\ \A g \in 1..generation :
          g # generation => resource'[g] = resource[g]
    <2>1. PICK old : old = resource[generation]
        OBVIOUS
    <2>2. PICK new : new = [old EXCEPT !.clusters = f]
        OBVIOUS
    <2>3. ResourceOK(old) /\ f \in [DOMAIN old.url -> Facts]
        BY <1>1, <1>3, <1>5, <2>1 DEF Clusters
    <2>4. new.url = old.url /\ new.clusters = f /\ ResourceOK(new)
        BY <2>2, <2>3 DEF ResourceOK
    <2>5. generation \in DOMAIN resource
        BY <1>5, PlacedCall DEF Placed, Types, ResourcesOK
    <2>6. resource' = [resource EXCEPT ![generation] = new]
        BY <1>6, <2>1, <2>2
    <2> QED
        BY <2>1, <2>4, <2>5, <2>6
<1>9. ResourcesOK'
    <2>1. resource'[0] = resource[0]
        BY <1>5, <1>6, PlacedCall DEF Placed, Types, ResourcesOK
    <2> QED
        BY <1>3, <1>6, <1>8, <2>1 DEF Placed, Types, ResourcesOK
<1>10. ClientOK' /\ IdsOK' /\ LocksOK' /\ Frame
    BY <1>6 DEF Placed, Types, ClientOK, IdsOK, LocksOK, World, Frame
<1>11. \A s \in Callers \ {t} : Grows(call[s].gen)
    <2>1. \A s \in Callers \ {t} : call[s].op = "none" \/
              (call[s].gen < generation)
        BY <1>1, <1>4 DEF Placed, Alone, Resolves
    <2>2. \A s \in Callers \ {t} : call[s].gen \notin 1..generation \/
              call[s].gen # generation
        BY <2>1, PlacedCall DEF Fits, Idle
    <2> QED
        BY <1>8, <2>2 DEF Grows
<1>12. \A b \in Names : ~Looks(k, b)
    BY <1>1, <1>3, <1>4, <1>7 DEF Looks, Fits, CoroutineFits
<1>13. Apart(t, k) /\ Follows(call[t], k)
    BY <1>1, <1>7, <1>12 DEF Apart, Follows, Resolves
<1>14. OthersHold(t)
    BY <1>6 DEF Placed, CallsFit, Fits, CoroutineFits, Looks, OthersHold
<1>15. Fits(t, k)'
    <2>1. ConnectFits(k)'
        BY <1>3, <1>4, <1>5, <1>6, <1>7 DEF Fits, ConnectFits
    <2>2. ASSUME NEW b \in Names, k.at[b] # "none"
          PROVE  CoroutineFits(t, k, b)'
        <3>1. CoroutineFits(t, c, b) /\ k.at[b] = "list"
            BY <1>1, <1>3, <1>4, <1>7, <2>2 DEF Fits, CoroutineFits
        <3> QED
            BY <1>4, <1>5, <1>6, <1>7, <1>8, <3>1
               DEF CoroutineFits, Clusters, Asking
    <2> QED
        BY <1>4, <1>7, <2>1, <2>2 DEF Fits
<1>16. /\ \A b \in Names : Looks(k, b) =>
             resource'[k.gen].url = resource[k.gen].url
       /\ k.op = "connect" /\ ~Connecting => closed < World.connects
    BY <1>1, <1>4, <1>12 DEF Connecting
<1> QED
    BY <1>6, <1>7, <1>9, <1>10, <1>11, <1>13, <1>14, <1>15, <1>16, CallKeeps

\* A coroutine that waits for the list of clusters is one of connect().
LEMMA ListingCall ==
    ASSUME Placed, NEW t \in Callers, NEW c, c = call[t],
           NEW b \in Names, c.at[b] = "list"
    PROVE  /\ c.op = "connect" /\ c.phase = "resolve"
           /\ c.gen = generation /\ generation \in 1..generation
           /\ b \in Clusters(generation)
           /\ ResourceOK(resource[generation])
<1>1. /\ c \in CallOK /\ Fits(t, c)
      /\ \A g \in 1..generation : ResourceOK(resource[g])
    BY PlacedCall
<1>2. CoroutineFits(t, c, b) /\ c.phase = "resolve"
    BY <1>1 DEF Fits, CoroutineFits
<1>3. c.op = "connect"
    BY <1>1, <1>2 DEF Fits, Idle
<1>4. c.gen = generation /\ generation \in 1..generation
    BY <1>1, <1>2, <1>3 DEF Fits, ConnectFits
<1> QED
    BY <1>1, <1>2, <1>3, <1>4 DEF CoroutineFits

LEMMA ListedIsTyped ==
    ASSUME Placed, generation \in 1..generation, NEW b \in Names,
           b \in Clusters(generation), ResourceOK(resource[generation])
    PROVE  Listed(b) \in Facts
<1>1. PICK r : r = resource[generation]
    OBVIOUS
<1>2. Project(r.name, r.url[b]) \in Projects
    BY <1>1 DEF ResourceOK, Clusters, Projects
<1>3. PICK how : how = World.heappe[b]
    OBVIOUS
<1>4. PICK project : project = IF how = "listed"
                              THEN Project(r.name, r.url[b]) ELSE None
    OBVIOUS
<1>5. PICK id : id = (how # "absent")
    OBVIOUS
<1>6. PICK type : type = (how \in {"hidden", "listed"})
    OBVIOUS
<1>7. PICK error : error = (how \in {"absent", "bare"})
    OBVIOUS
<1>8. id \in BOOLEAN /\ type \in BOOLEAN /\ error \in BOOLEAN
    BY <1>5, <1>6, <1>7
<1>9. Listed(b) = [Cluster EXCEPT !.id = id, !.type = type,
                                  !.error = error, !.project = project]
    BY <1>1, <1>3, <1>4, <1>5, <1>6, <1>7, Zenon DEF Listed
<1>10. Cluster \in Facts
    BY DEF Cluster, Facts
<1>11. project \in Projects \cup {None}
    BY <1>2, <1>4
<1> QED
    BY <1>8, <1>9, <1>10, <1>11 DEF Facts

\* The clusters of an instance after its answer, and where coroutines are.
LEMMA AnswersFit ==
    ASSUME Placed, NEW t \in Callers, NEW here, here # {},
           here \subseteq {b \in Names : call[t].at[b] = "list"},
           NEW f, f = [b \in DOMAIN resource[call[t].gen].clusters |->
                          IF b \in here THEN f[b]
                          ELSE resource[call[t].gen].clusters[b]],
           \A b \in here : f[b] \in Facts,
           call' = [call EXCEPT ![t].at =
               [b \in Names |-> IF b \in here THEN "none"
                                ELSE call[t].at[b]]],
           resource' = [resource EXCEPT ![call[t].gen].clusters = f],
           UNCHANGED <<world, later, client, ids, held, view>>
    PROVE  Placed'
<1>1. PICK at : at = [b \in Names |-> IF b \in here THEN "none"
                                      ELSE call[t].at[b]]
    OBVIOUS
<1>2. PICK old : old = resource[call[t].gen]
    OBVIOUS
<1>3. ResourceOK(old)
    BY <1>2, ListingCall
<1>4. f \in [Clusters(call[t].gen) -> Facts]
    <2>1. DOMAIN old.clusters = Clusters(call[t].gen)
        BY <1>2, <1>3 DEF ResourceOK, Clusters
    <2>2. \A b \in DOMAIN old.clusters : old.clusters[b] \in Facts
        BY <1>3 DEF ResourceOK
    <2>3. f = [b \in DOMAIN old.clusters |->
                  IF b \in here THEN f[b] ELSE old.clusters[b]]
        BY <1>2
    <2> QED
        BY <2>1, <2>2, <2>3
<1>5. /\ \A b \in Names : at[b] \in {"none", call[t].at[b]}
      /\ at \in [Names -> {"none", "list", "lock", "lookup", "ask",
                           "unsent"}]
      /\ call' = [call EXCEPT ![t].at = at]
    <2>1. call[t] \in CallOK
        BY PlacedCall
    <2> QED
        BY <1>1, <2>1 DEF CallOK
<1>6. \E b \in Names : call[t].at[b] = "list"
    OBVIOUS
<1> QED
    BY <1>4, <1>5, <1>6, AnswerKeeps

LEMMA ResolveKeeps ==
    ASSUME Placed, NEW t \in Callers, NEW u, Resolve(t, u)
    PROVE  Placed'
<1>1. PICK here : here = {b \in Names : call[t].at[b] = "list"
                                        /\ Url(call[t], b) = u}
    OBVIOUS
<1>2. PICK f : f = [b \in DOMAIN resource[call[t].gen].clusters |->
                       IF b \in here THEN Listed(b)
                       ELSE resource[call[t].gen].clusters[b]]
    OBVIOUS
<1>3. /\ here # {}
      /\ call' = [call EXCEPT ![t].at =
             [b \in Names |-> IF b \in here THEN "none"
                              ELSE call[t].at[b]]]
      /\ resource' = [resource EXCEPT ![call[t].gen].clusters = f]
      /\ UNCHANGED <<world, later, client, ids, held, view>>
    BY <1>1, <1>2 DEF Resolve, Answered
<1>4. here \subseteq {b \in Names : call[t].at[b] = "list"}
    BY <1>1
<1>5. \A b \in here : f[b] = Listed(b) /\ f[b] \in Facts
    <2>1. ASSUME NEW b \in here
          PROVE  /\ b \in DOMAIN resource[call[t].gen].clusters
                 /\ Listed(b) \in Facts
        <3>1. /\ b \in Names /\ call[t].gen = generation
              /\ generation \in 1..generation /\ b \in Clusters(generation)
              /\ ResourceOK(resource[generation])
            BY <1>4, ListingCall
        <3> QED
            BY <3>1, ListedIsTyped DEF ResourceOK, Clusters
    <2> QED
        BY <1>2, <2>1
<1>6. f = [b \in DOMAIN resource[call[t].gen].clusters |->
              IF b \in here THEN f[b]
              ELSE resource[call[t].gen].clusters[b]]
    BY <1>2
<1>7. \A b \in here : f[b] \in Facts
    BY <1>5
<1> QED
    BY <1>3, <1>4, <1>6, <1>7, AnswersFit

LEMMA FailToResolveKeeps ==
    ASSUME Placed, NEW t \in Callers, NEW u, FailToResolve(t, u)
    PROVE  Placed'
<1>1. PICK here : here = {b \in Names : call[t].at[b] = "list"
                                        /\ Url(call[t], b) = u}
    OBVIOUS
<1>2. PICK f : f = [b \in DOMAIN resource[call[t].gen].clusters |->
                       IF b \in here THEN Unavailable(Cluster)
                       ELSE resource[call[t].gen].clusters[b]]
    OBVIOUS
<1>3. /\ here # {}
      /\ call' = [call EXCEPT ![t].at =
             [b \in Names |-> IF b \in here THEN "none"
                              ELSE call[t].at[b]]]
      /\ resource' = [resource EXCEPT ![call[t].gen].clusters = f]
      /\ UNCHANGED <<world, later, client, ids, held, view>>
    BY <1>1, <1>2 DEF FailToResolve, Answered
<1>4. here \subseteq {b \in Names : call[t].at[b] = "list"}
    BY <1>1
<1>5. \A b \in here : f[b] \in Facts
    <2>1. Unavailable(Cluster) \in Facts
        BY DEF Unavailable, Cluster, Facts
    <2>2. ASSUME NEW b \in here
          PROVE  b \in DOMAIN resource[call[t].gen].clusters
        <3>1. /\ b \in Names /\ call[t].gen = generation
              /\ b \in Clusters(generation)
              /\ ResourceOK(resource[generation])
            BY <1>4, ListingCall
        <3> QED
            BY <3>1 DEF ResourceOK, Clusters
    <2> QED
        BY <1>2, <2>1, <2>2
<1>6. f = [b \in DOMAIN resource[call[t].gen].clusters |->
              IF b \in here THEN f[b]
              ELSE resource[call[t].gen].clusters[b]]
    BY <1>2
<1> QED
    BY <1>3, <1>4, <1>5, <1>6, AnswersFit

\* Where a coroutine starts that needs the project id.
LEMMA EnterFits ==
    ASSUME NEW c, NEW b
    PROVE  /\ Proceed(c) \in {"none", "ask", "unsent"}
           /\ Proceed(c) = "ask" => c.op # "submit"
           /\ Enter(c, b) \in {"none", "lock", "ask", "unsent"}
           /\ Enter(c, b) = "ask" =>
                  c.op # "submit" /\ Known(c, b).project # None
<1>1. Send(c, "ask") \in {"ask", "unsent"}
    BY DEF Send
<1> QED
    BY <1>1 DEF Proceed, Enter

\* The calls that load machine info of every cluster with a node type.
LEMMA LoadAllFits ==
    ASSUME NEW t \in Callers, NEW c \in CallOK, NEW k, k = LoadAll(c),
           c.gen \in 1..generation,
           c.op = "connect" => ConnectFits(c) /\ c.phase = "resolve",
           c.op \in {"connect", "refresh"},
           c.op = "refresh" => c.epoch <= closed
    PROVE  /\ k \in CallOK /\ Fits(t, k) /\ k.op = c.op /\ k.gen = c.gen
           /\ k.via = c.via /\ k.epoch = c.epoch /\ k.phase = "fetch"
           /\ \A b \in Names : ~Looks(k, b)
<1>1. PICK at : at = [b \in Names |->
                         IF b \in Clusters(c.gen) /\ Known(c, b).type
                         THEN Enter(c, b) ELSE "none"]
    OBVIOUS
<1>2. k = [c EXCEPT !.phase = "fetch", !.at = at]
    BY <1>1 DEF LoadAll
<1>3. at \in [Names -> {"none", "lock", "ask", "unsent"}]
    BY <1>1, EnterFits
<1>4. /\ k \in CallOK /\ k.op = c.op /\ k.gen = c.gen /\ k.via = c.via
      /\ k.epoch = c.epoch /\ k.phase = "fetch" /\ k.at = at
    <2>1. at \in [Names -> {"none", "list", "lock", "lookup", "ask",
                            "unsent"}]
        BY <1>3
    <2> QED
        BY <1>2, <2>1 DEF CallOK
<1>5. \A b \in Names : at[b] # "none" =>
          /\ b \in Clusters(c.gen) /\ Known(c, b).type
          /\ at[b] = Enter(c, b)
    BY <1>1
<1>6. \A b \in Names : k.at[b] # "none" => CoroutineFits(t, k, b)
    <2> SUFFICES ASSUME NEW b \in Names, k.at[b] # "none"
                 PROVE  CoroutineFits(t, k, b)
        OBVIOUS
    <2>1. k.at[b] \in {"lock", "ask", "unsent"}
        BY <1>3, <1>4
    <2>2. b \in Clusters(c.gen) /\ Known(c, b).type
          /\ k.at[b] = Enter(c, b)
        BY <1>4, <1>5
    <2>3. k.at[b] = "ask" => c.op # "submit" /\ Known(c, b).project # None
        BY <2>2, EnterFits
    <2> QED
        BY <1>4, <2>1, <2>2, <2>3 DEF CoroutineFits, Known
<1>7. k.op = "connect" => ConnectFits(k)
    BY <1>4 DEF ConnectFits
<1>8. \A b \in Names : ~Looks(k, b)
    BY <1>3, <1>4 DEF Looks
<1> QED
    BY <1>4, <1>6, <1>7, <1>8 DEF Fits

LEMMA LoadKeeps ==
    ASSUME Placed, NEW t \in Callers, Load(t)
    PROVE  Placed'
<1>1. PICK c : c = call[t]
    OBVIOUS
<1>2. c \in CallOK /\ Fits(t, c)
    BY <1>1, PlacedCall
<1>3. c.phase = "resolve" /\ c.op = "connect"
    BY <1>1, <1>2 DEF Load, Fits, Idle
<1>4. /\ ConnectFits(c) /\ c.gen = generation /\ c.gen \in 1..generation
      /\ \A b \in Names : c.at[b] = "none"
    BY <1>1, <1>2, <1>3 DEF Load, Fits, ConnectFits, Waits
<1>5. PICK k : k = IF World.lazy THEN [c EXCEPT !.phase = "fetch"]
                   ELSE LoadAll(c)
    OBVIOUS
<1>6. /\ call' = [call EXCEPT ![t] = k]
      /\ UNCHANGED <<world, later, authenticated, generation, closed,
                     knowledge>>
      /\ active' \in Names \cup {None} /\ UNCHANGED view
    BY <1>1, <1>5 DEF Load, client, Placed, Types, ClientOK
<1>7. /\ k \in CallOK /\ Fits(t, k) /\ k.op = c.op /\ k.gen = c.gen
      /\ \A b \in Names : ~Looks(k, b)
    <2>1. CASE World.lazy
        <3>1. /\ k \in CallOK /\ k.op = c.op /\ k.gen = c.gen /\ k.at = c.at
              /\ k.via = c.via /\ k.epoch = c.epoch /\ k.phase = "fetch"
            BY <1>2, <1>5, <2>1 DEF CallOK
        <3>2. ConnectFits(k)
            BY <1>3, <1>4, <3>1 DEF ConnectFits
        <3> QED
            BY <1>3, <1>4, <3>1, <3>2 DEF Fits, Looks
    <2>2. CASE ~World.lazy
        BY <1>2, <1>3, <1>4, <1>5, <2>2, LoadAllFits
    <2> QED
        BY <2>1, <2>2
<1>8. Apart(t, k) /\ Follows(call[t], k)
    BY <1>1, <1>3, <1>7 DEF Apart, Follows, Resolves
<1>9. k.op = "connect" /\ ~Connecting => closed < World.connects
    BY <1>1, <1>3 DEF Connecting
<1> QED
    BY <1>6, <1>7, <1>8, <1>9, CallOnlyKeeps

LEMMA ConnectedKeeps ==
    ASSUME Placed, NEW t \in Callers, Connected(t)
    PROVE  Placed'
<1>1. PICK c : c = call[t]
    OBVIOUS
<1>2. /\ c.op = "connect" /\ c.phase = "fetch"
      /\ Fits(t, c) /\ \A g \in 1..generation : ResourceOK(resource[g])
    BY <1>1, PlacedCall DEF Connected
<1>3. Clusters(generation) \subseteq Names
    BY <1>2 DEF Fits, ConnectFits, ResourceOK, Clusters
<1>4. active' \in Names \cup {None}
    <2>1. ASSUME Cardinality(Clusters(generation)) = 1
          PROVE  \E b : b \in Clusters(generation)
        <3>1. IsFiniteSet(Clusters(generation))
            BY <1>3, DiscoveryAssumption, FS_Subset
        <3> QED
            BY <2>1, <3>1, FS_EmptySet
    <2>2. active \in Names \cup {None}
        BY DEF Placed, Types, ClientOK
    <2> QED
        BY <1>3, <2>1, <2>2 DEF Connected
<1>5. /\ call' = [call EXCEPT ![t] = Idle] /\ UNCHANGED view
      /\ UNCHANGED <<world, later, authenticated, generation, closed,
                     knowledge>>
    BY DEF Connected
<1> QED
    BY <1>4, <1>5, EndKeeps

-----------------------------------------------------------------------------
(***************************************************************************)
(* The other operations.                                                   *)
(***************************************************************************)
LEMMA OperationFits ==
    ASSUME Placed, NEW t \in Callers, NEW via \in {"client", "view"},
           NEW op \in {"backend", "bind", "refresh", "submit"},
           NEW a \in Names, Begins(t, via, a),
           NEW b \in {a, None}, NEW c, c = Operation(t, via, op, b)
    PROVE  /\ c \in CallOK /\ c.op = op /\ c.phase = "fetch" /\ c.via = via
           /\ c.backend = b /\ c.gen \in 1..generation /\ c.epoch <= closed
           /\ c.gen = IF via = "client" THEN generation ELSE view.gen
           /\ c.epoch = IF via = "client" THEN closed ELSE view.epoch
           /\ a \in Clusters(c.gen)
           /\ c.at = [d \in Names |-> "none"]
           /\ c.asked = [d \in Names |-> None]
           /\ ~Connecting
<1>1. /\ ClientOK /\ generation \in Nat /\ closed \in Nat
      /\ \A g \in 1..generation : ResourceOK(resource[g])
    BY PlacedCall DEF Placed, Types
<1>2. PICK gen : gen = IF via = "client" THEN generation ELSE view.gen
    OBVIOUS
<1>3. PICK epoch : epoch = IF via = "client" THEN closed ELSE view.epoch
    OBVIOUS
<1>4. a \in Clusters(gen) /\ ~Connecting
      /\ (IF via = "client" THEN authenticated ELSE view # None)
    BY <1>2 DEF Begins
<1>5. epoch \in 0..closed /\ epoch \in 0..MaxConnects
    BY <1>1, <1>3, <1>4, DiscoveryAssumption DEF ClientOK
<1>6. c = [Idle EXCEPT !.op = op, !.phase = "fetch", !.via = via,
                       !.backend = b, !.gen = gen, !.epoch = epoch]
    BY <1>2, <1>3 DEF Operation
<1>7. gen \in 1..generation /\ gen \in 0..MaxConnects
    <2>1. Clusters(0) = {}
        BY DEF Clusters, NoResource, Placed, Types, ResourcesOK
    <2>2. gen \in 0..generation
        BY <1>1, <1>2, <1>4 DEF ClientOK
    <2>3. gen # 0
        BY <1>4, <2>1
    <2> QED
        BY <1>1, <2>2, <2>3, DiscoveryAssumption DEF ClientOK
<1>8. /\ c.op = op /\ c.phase = "fetch" /\ c.via = via /\ c.backend = b
      /\ c.gen = gen /\ c.epoch = epoch
      /\ c.at = [d \in Names |-> "none"]
      /\ c.asked = [d \in Names |-> None]
    BY <1>6 DEF Idle
<1>9. c \in CallOK
    <2>1. Idle \in CallOK /\ b \in Names \cup {None}
        BY IdleFits
    <2>2. /\ op \in {"none", "connect", "backend", "bind", "refresh",
                     "submit"}
          /\ via \in {"client", "view"}
        OBVIOUS
    <2> QED
        BY <1>5, <1>6, <1>7, <2>1, <2>2 DEF CallOK
<1> QED
    BY <1>1, <1>2, <1>3, <1>4, <1>5, <1>7, <1>8, <1>9

\* A call that begins has looked nothing up.
LEMMA BeginsKeeps ==
    ASSUME Placed, NEW t \in Callers, NEW k \in CallOK,
           call' = [call EXCEPT ![t] = k], ~Connecting, Fits(t, k),
           k.op # "connect", \A b \in Names : ~Looks(k, b),
           UNCHANGED <<world, later, client, knowledge, view>>
    PROVE  Placed'
<1>1. Apart(t, k) /\ Follows(call[t], k)
    BY DEF Apart, Follows
<1>2. /\ UNCHANGED <<world, later, authenticated, generation, closed,
                     knowledge>>
      /\ active' \in Names \cup {None} /\ UNCHANGED view
    BY DEF client, Placed, Types, ClientOK
<1> QED
    BY <1>1, <1>2, CallOnlyKeeps

\* A coroutine for one cluster.
LEMMA FetchingFits ==
    ASSUME NEW t \in Callers, NEW c \in CallOK, c.phase = "fetch",
           c.op \in {"backend", "bind", "refresh", "submit"},
           c.gen \in 1..generation, c.epoch <= closed,
           c.backend \in Names, c.backend \in Clusters(c.gen),
           c.op \in {"backend", "bind"} => c.via = "client",
           c.op # "submit" => Known(c, c.backend).type,
           \A b \in Names : c.at[b] = "none",
           NEW k, k = [c EXCEPT !.at[c.backend] = Enter(c, c.backend)]
    PROVE  /\ k \in CallOK /\ Fits(t, k) /\ k.op = c.op
           /\ k.via = c.via /\ k.gen = c.gen /\ k.epoch = c.epoch
           /\ \A b \in Names : ~Looks(k, b)
<1>1. PICK w : w = Enter(c, c.backend)
    OBVIOUS
<1>2. /\ w \in {"none", "lock", "ask", "unsent"}
      /\ w = "ask" => c.op # "submit" /\ Known(c, c.backend).project # None
    BY <1>1, EnterFits
<1>3. PICK at : at = [c.at EXCEPT ![c.backend] = w]
    OBVIOUS
<1>4. /\ at \in [Names -> {"none", "list", "lock", "lookup", "ask",
                           "unsent"}]
      /\ \A b \in Names : at[b] = IF b = c.backend THEN w ELSE "none"
    BY <1>2, <1>3 DEF CallOK
<1>5. k = [c EXCEPT !.at = at]
    BY <1>1, <1>3
<1>6. /\ k \in CallOK /\ k.op = c.op /\ k.gen = c.gen /\ k.via = c.via
      /\ k.epoch = c.epoch /\ k.phase = c.phase /\ k.at = at
      /\ k.backend = c.backend
    BY <1>4, <1>5 DEF CallOK
<1>7. \A b \in Names : k.at[b] # "none" => CoroutineFits(t, k, b)
    BY <1>2, <1>4, <1>6 DEF CoroutineFits, Known
<1> QED
    BY <1>2, <1>4, <1>6, <1>7 DEF Fits, Looks

LEMMA FetchingKeeps ==
    ASSUME Placed, NEW t \in Callers, NEW via \in {"client", "view"},
           NEW op \in {"backend", "bind", "refresh", "submit"},
           NEW b \in Names, Begins(t, via, b),
           op \in {"backend", "bind"} => via = "client",
           NEW c, c = Operation(t, via, op, b), Fetching(t, c),
           op # "submit" => Known(c, b).type,
           UNCHANGED <<world, later, client, knowledge, view>>
    PROVE  Placed'
<1>1. /\ c \in CallOK /\ c.op = op /\ c.phase = "fetch" /\ c.via = via
      /\ c.backend = b /\ c.gen \in 1..generation /\ c.epoch <= closed
      /\ b \in Clusters(c.gen) /\ ~Connecting
      /\ \A a \in Names : c.at[a] = "none"
    BY OperationFits
<1>2. PICK k : k = [c EXCEPT !.at[c.backend] = Enter(c, c.backend)]
    OBVIOUS
<1>3. /\ k \in CallOK /\ Fits(t, k) /\ k.op = c.op
      /\ \A a \in Names : ~Looks(k, a)
    BY <1>1, <1>2, FetchingFits
<1>4. call' = [call EXCEPT ![t] = k]
    BY <1>2 DEF Fetching
<1>5. k.op # "connect"
    BY <1>1, <1>3
<1> QED
    BY <1>1, <1>3, <1>4, <1>5, BeginsKeeps

\* The end of a validation.
LEMMA SettleKeeps ==
    ASSUME Placed, NEW t \in Callers, NEW c \in CallOK, Settle(t, c),
           c.op \in {"backend", "bind"}, c.via = "client",
           c.gen \in 1..generation, c.epoch <= closed,
           c.backend \in Names, c.backend \in Clusters(c.gen),
           \A b \in Names : c.at[b] = "none",
           ~Connecting \/ c = call[t],
           UNCHANGED <<world, later, authenticated, generation, closed,
                       knowledge>>
    PROVE  Placed'
<1>1. /\ ClientOK /\ generation \in Nat /\ closed \in Nat
      /\ c.epoch \in 0..closed
    BY PlacedCall DEF Placed, Types, CallOK
<1>2. active' \in Names \cup {None}
    BY <1>1 DEF Settle, ClientOK
<1>3. \/ UNCHANGED view
      \/ \E e \in 0..closed :
          view' = [backend |-> c.backend, gen |-> generation, epoch |-> e]
    <2>1. PICK e : e = IF Send(c, "any") = "unsent" THEN c.epoch ELSE closed
        OBVIOUS
    <2>2. e \in 0..closed
        BY <1>1, <2>1
    <2>3. \/ UNCHANGED view
          \/ view' = [backend |-> c.backend, gen |-> generation,
                      epoch |-> e]
        BY <2>1, Zenon DEF Settle
    <2> QED
        BY <2>2, <2>3
<1>4. ClientOK'
    BY <1>1, <1>2, <1>3 DEF ClientOK
<1>5. CASE call' = [call EXCEPT ![t] = Idle]
    BY <1>2, <1>4, <1>5, EndKeeps
<1>6. CASE call' = [call EXCEPT ![t] = [c EXCEPT !.phase = "meta"]]
    <2>1. PICK k : k = [c EXCEPT !.phase = "meta"]
        OBVIOUS
    <2>2. /\ k \in CallOK /\ k.op = c.op /\ k.gen = c.gen /\ k.via = c.via
          /\ k.epoch = c.epoch /\ k.phase = "meta" /\ k.at = c.at
          /\ k.backend = c.backend
        BY <2>1 DEF CallOK
    <2>3. /\ Fits(t, k) /\ Apart(t, k) /\ Follows(call[t], k)
          /\ k.op = "connect" /\ ~Connecting => closed < World.connects
          /\ call' = [call EXCEPT ![t] = k]
        BY <1>6, <2>1, <2>2 DEF Fits, Apart, Looks, Follows, Resolves
    <2> QED
        BY <1>2, <1>4, <2>2, <2>3, CallOnlyKeeps
<1> QED
    BY <1>5, <1>6, Zenon DEF Settle

LEMMA ValidateKeeps ==
    ASSUME Placed, NEW t \in Callers, NEW op \in {"backend", "bind"},
           NEW b \in Names, Validate(t, op, b)
    PROVE  Placed'
<1>1. PICK c : c = Operation(t, "client", op, b)
    OBVIOUS
<1>2. /\ Begins(t, "client", b)
      /\ \/ Known(c, b).info /\ Settle(t, c)
         \/ /\ ~Known(c, b).info /\ Known(c, b).type /\ Fetching(t, c)
            /\ UNCHANGED <<active, view>>
      /\ UNCHANGED <<world, later, authenticated, generation, closed,
                     knowledge, faults, ghosts>>
    BY <1>1 DEF Validate
<1>3. /\ c \in CallOK /\ c.op = op /\ c.phase = "fetch" /\ c.via = "client"
      /\ c.backend = b /\ c.gen \in 1..generation /\ c.epoch <= closed
      /\ b \in Clusters(c.gen) /\ ~Connecting
      /\ \A a \in Names : c.at[a] = "none"
    BY <1>1, <1>2, OperationFits
<1>4. CASE Known(c, b).info /\ Settle(t, c)
    BY <1>2, <1>3, <1>4, SettleKeeps
<1>5. CASE /\ Known(c, b).type /\ Fetching(t, c)
           /\ UNCHANGED <<active, view>>
    <2>1. UNCHANGED <<world, later, client, knowledge, view>>
        BY <1>2, <1>5 DEF client
    <2> QED
        BY <1>1, <1>2, <1>5, <2>1, FetchingKeeps
<1> QED
    BY <1>2, <1>4, <1>5

LEMMA ValidatedKeeps ==
    ASSUME Placed, NEW t \in Callers, Validated(t)
    PROVE  Placed'
<1>1. PICK c : c = call[t]
    OBVIOUS
<1>2. /\ c.op \in {"backend", "bind"} /\ c.phase = "fetch" /\ ~Waits(c)
      /\ Settle(t, c)
      /\ UNCHANGED <<world, later, authenticated, generation, closed,
                     knowledge>>
    BY <1>1 DEF Validated
<1>3. /\ c \in CallOK /\ Fits(t, c)
      /\ \A g \in 1..generation : ResourceOK(resource[g])
    BY <1>1, PlacedCall
<1>4. /\ c.gen \in 1..generation /\ c.epoch <= closed /\ c.via = "client"
      /\ c.backend \in Clusters(c.gen) /\ c.backend \in Names
    BY <1>2, <1>3 DEF Fits, ResourceOK, Clusters
<1>5. \A b \in Names : c.at[b] = "none"
    BY <1>2 DEF Waits
<1> QED
    BY <1>1, <1>2, <1>3, <1>4, <1>5, SettleKeeps

LEMMA RefreshKeeps ==
    ASSUME Placed, NEW t \in Callers, NEW via \in {"client", "view"},
           NEW b \in Names, Refresh(t, via, b)
    PROVE  Placed'
BY FetchingKeeps DEF Refresh

LEMMA SubmitKeeps ==
    ASSUME Placed, NEW t \in Callers, NEW via \in {"client", "view"},
           NEW b \in Names, Submit(t, via, b)
    PROVE  Placed'
BY FetchingKeeps DEF Submit

LEMMA RefreshAllKeeps ==
    ASSUME Placed, NEW t \in Callers, NEW via \in {"client", "view"},
           RefreshAll(t, via)
    PROVE  Placed'
<1>1. PICK a \in Names : Begins(t, via, a)
    BY DEF RefreshAll
<1>2. PICK c : c = Operation(t, via, "refresh", None)
    OBVIOUS
<1>3. PICK k : k = LoadAll(c)
    OBVIOUS
<1>4. /\ c \in CallOK /\ c.op = "refresh" /\ c.gen \in 1..generation
      /\ c.epoch <= closed /\ ~Connecting
    BY <1>1, <1>2, OperationFits
<1>5. /\ k \in CallOK /\ Fits(t, k) /\ k.op = c.op
      /\ \A b \in Names : ~Looks(k, b)
    BY <1>3, <1>4, LoadAllFits
<1>6. /\ call' = [call EXCEPT ![t] = k] /\ k.op # "connect"
      /\ UNCHANGED <<world, later, client, knowledge, view>>
    BY <1>2, <1>3, <1>4, <1>5 DEF RefreshAll
<1> QED
    BY <1>4, <1>5, <1>6, BeginsKeeps

LEMMA FinishKeeps ==
    ASSUME Placed, NEW t \in Callers, Finish(t)
    PROVE  Placed'
<1>1. /\ call' = [call EXCEPT ![t] = Idle] /\ UNCHANGED view
      /\ UNCHANGED <<world, later, authenticated, generation, closed,
                     knowledge>>
      /\ active' \in Names \cup {None}
    BY DEF Finish, client, Placed, Types, ClientOK
<1> QED
    BY <1>1, EndKeeps

-----------------------------------------------------------------------------
(***************************************************************************)
(* Coroutines that need a project id, or the machine info.                 *)
(***************************************************************************)

\* What is stored for one cluster.
LEMMA PutGrows ==
    ASSUME ResourcesOK, generation \in Nat, NEW c, NEW b, NEW x \in Facts,
           c.gen \in 1..generation, generation \in 0..MaxConnects,
           b \in Clusters(c.gen), Put(c, b, x), UNCHANGED generation,
           Known(c, b).type => x.type,
           Known(c, b).project # None => x.project # None
    PROVE  /\ ResourcesOK' /\ \A g \in 1..generation : Grows(g)
           /\ resource'[c.gen].clusters[b] = x
           /\ \A g \in 1..generation : \A a \in Clusters(g) :
                  \/ g = c.gen /\ a = b
                  \/ resource'[g].clusters[a] = resource[g].clusters[a]
<1>1. PICK old : old = resource[c.gen]
    OBVIOUS
<1>2. PICK f : f = [old.clusters EXCEPT ![b] = x]
    OBVIOUS
<1>3. PICK new : new = [old EXCEPT !.clusters = f]
    OBVIOUS
<1>4. ResourceOK(old) /\ b \in DOMAIN old.url /\ c.gen \in DOMAIN resource
    BY <1>1, DiscoveryAssumption DEF ResourcesOK, Clusters
<1>5. /\ f \in [DOMAIN old.url -> Facts] /\ f[b] = x
      /\ \A a \in DOMAIN old.url : a # b => f[a] = old.clusters[a]
    BY <1>2, <1>4 DEF ResourceOK
<1>6. /\ new.name = old.name /\ new.url = old.url /\ new.clusters = f
      /\ ResourceOK(new)
    BY <1>3, <1>4, <1>5 DEF ResourceOK
<1>7. resource' = [resource EXCEPT ![c.gen] = new]
    BY <1>1, <1>2, <1>3 DEF Put
<1>8. /\ resource'[c.gen] = new
      /\ \A g \in DOMAIN resource : g # c.gen => resource'[g] = resource[g]
      /\ DOMAIN resource' = DOMAIN resource
    BY <1>4, <1>7
<1>9. ResourcesOK'
    <2>1. resource'[0] = resource[0]
        BY <1>8, DiscoveryAssumption DEF ResourcesOK
    <2> QED
        BY <1>6, <1>8, <2>1, DiscoveryAssumption DEF ResourcesOK
<1>10. ASSUME NEW g \in 1..generation
       PROVE  Grows(g) /\ \A a \in Clusters(g) :
                  \/ g = c.gen /\ a = b
                  \/ resource'[g].clusters[a] = resource[g].clusters[a]
    <2>1. CASE g = c.gen
        <3>1. /\ DOMAIN new.clusters = DOMAIN old.clusters
              /\ Known(c, b) = old.clusters[b]
            BY <1>1, <1>4, <1>5, <1>6 DEF ResourceOK, Known
        <3>2. \A a \in DOMAIN old.url :
                  /\ old.clusters[a].type => f[a].type
                  /\ old.clusters[a].project # None => f[a].project # None
            BY <1>5, <3>1
        <3>3. resource[g] = old /\ resource'[g] = new
              /\ Clusters(g) = DOMAIN old.url
            BY <1>1, <1>8, <2>1 DEF Clusters
        <3> QED
            BY <1>5, <1>6, <2>1, <3>1, <3>2, <3>3 DEF Grows
    <2>2. CASE g # c.gen
        <3>1. g \in DOMAIN resource
            BY DiscoveryAssumption DEF ResourcesOK
        <3>2. resource'[g] = resource[g]
            BY <1>8, <2>2, <3>1
        <3> QED
            BY <3>2 DEF Grows
    <2> QED
        BY <2>1, <2>2
<1> QED
    BY <1>5, <1>6, <1>8, <1>9, <1>10

\* A coroutine that holds or needs a lock, and the cluster it works on.
LEMMA AskingCall ==
    ASSUME Placed, NEW t \in Callers, NEW c, c = call[t],
           NEW b \in Names, c.at[b] \in Asking
    PROVE  /\ c \in CallOK /\ Fits(t, c) /\ CoroutineFits(t, c, b)
           /\ c.gen \in 1..generation /\ b \in Clusters(c.gen)
           /\ ResourceOK(resource[c.gen]) /\ Url(c, b) \in Urls
           /\ Known(c, b) \in Facts
           /\ generation \in Nat /\ generation \in 0..MaxConnects
           /\ closed \in 0..MaxConnects /\ CacheOf(c) \in 0..MaxConnects
           /\ c.phase # "resolve" /\ c.op # "none"
           /\ c.at[b] \in {"lock", "lookup", "ask", "unsent"}
<1>1. /\ c \in CallOK /\ Fits(t, c) /\ generation \in Nat
      /\ generation \in 0..MaxConnects /\ closed \in 0..MaxConnects
      /\ \A g \in 1..generation : ResourceOK(resource[g])
    BY PlacedCall
<1>2. CoroutineFits(t, c, b) /\ c.at[b] \notin {"none", "list"}
    BY <1>1 DEF Fits, Asking
<1>3. /\ c.gen \in 1..generation /\ b \in Clusters(c.gen)
      /\ ResourceOK(resource[c.gen]) /\ c.phase # "resolve"
    BY <1>1, <1>2 DEF CoroutineFits
<1>4. Url(c, b) \in Urls /\ Known(c, b) \in Facts
    BY <1>3 DEF ResourceOK, Url, Known, Clusters
<1>5. CacheOf(c) \in 0..MaxConnects
    BY <1>1 DEF CacheOf, CallOK
<1>6. c.op # "none"
    BY <1>1, <1>2 DEF Fits, Idle
<1>7. c.at[b] \in {"lock", "lookup", "ask", "unsent"}
    BY DEF Asking
<1> QED
    BY <1>1, <1>2, <1>3, <1>4, <1>5, <1>6, <1>7

\* All locks that are needed are held, but perhaps that of one coroutine.
HeldBut(t, b) ==
    \A s \in Callers : \A a \in Names :
        Looks(call[s], a) /\ ~(s = t /\ a = b) =>
            <<World.loop[s], Url(call[s], a)>> \in held'

\* The locks that are held when that of one coroutine is released.
LEMMA ReleaseHolds ==
    ASSUME Placed, NEW t \in Callers, NEW b \in Names,
           Looks(call[t], b),
           held' = held \ {<<World.loop[t], Url(call[t], b)>>}
    PROVE  HeldBut(t, b)
<1> SUFFICES ASSUME NEW s \in Callers, NEW a \in Names,
                    Looks(call[s], a), ~(s = t /\ a = b)
             PROVE  <<World.loop[s], Url(call[s], a)>> \in held'
    BY DEF HeldBut
<1>1. <<World.loop[s], Url(call[s], a)>> \in held
    BY DEF Placed, CallsFit, Fits, CoroutineFits, Looks
<1>2. ~(World.loop[s] = World.loop[t] /\ Url(call[s], a) = Url(call[t], b))
    BY DEF Placed, Owned, Looks
<1> QED
    BY <1>1, <1>2

\* A call whose coroutine for one cluster moves.
Becomes(c, k, b, w) ==
    /\ k \in CallOK
    /\ k.op = c.op /\ k.phase = c.phase /\ k.via = c.via /\ k.gen = c.gen
    /\ k.epoch = c.epoch /\ k.backend = c.backend
    /\ k.at = [c.at EXCEPT ![b] = w]
    /\ \A a \in Names \ {b} : k.asked[a] = c.asked[a]

\* A coroutine that goes on, or waits for the lookup with a lock taken.
LEMMA CoroutineKeeps ==
    ASSUME Placed, NEW t \in Callers, NEW b \in Names,
           call[t].at[b] \in Asking,
           NEW k, call' = [call EXCEPT ![t] = k],
           NEW w \in {"none", "lookup", "ask", "unsent"},
           Becomes(call[t], k, b, w),
           w = "lookup" => /\ k.asked[b] \in ResourceNames
                           /\ <<World.loop[t], Url(call[t], b)>> \notin held
                           /\ <<World.loop[t], Url(call[t], b)>> \in held',
           w = "ask" => k.op # "submit" /\ Known(k, b)'.project # None,
           ResourcesOK', IdsOK', LocksOK',
           \A g \in 1..generation : Grows(g), HeldBut(t, b),
           UNCHANGED <<world, later, client, view>>
    PROVE  Placed'
<1> USE DEF Becomes, HeldBut
<1>1. PICK c : c = call[t]
    OBVIOUS
<1>2. /\ c \in CallOK /\ Fits(t, c) /\ CoroutineFits(t, c, b)
      /\ c.gen \in 1..generation /\ b \in Clusters(c.gen)
      /\ c.phase # "resolve"
    BY <1>1, AskingCall
<1>3. \A a \in Names : k.at[a] = IF a = b THEN w ELSE c.at[a]
    BY <1>1, <1>2 DEF CallOK
<1>4. /\ resource'[c.gen].url = resource[c.gen].url
      /\ Clusters(c.gen)' = Clusters(c.gen)
      /\ \A a \in Clusters(c.gen) :
          /\ Known(c, a).type => Known(c, a)'.type
          /\ Known(c, a).project # None => Known(c, a)'.project # None
    BY <1>2 DEF Grows, Clusters, Known
<1>5. ASSUME NEW a \in Names, k.at[a] # "none"
      PROVE  CoroutineFits(t, k, a)'
    <2>1. CASE a = b
        <3>1. /\ k.gen \in 1..generation' /\ b \in Clusters(k.gen)'
              /\ k.at[b] = w /\ w # "list" /\ k.phase # "resolve"
            BY <1>1, <1>2, <1>3, <1>4, <2>1 DEF client
        <3>2. w \in Asking /\ k.op # "submit" => Known(k, b)'.type
            BY <1>1, <1>2, <1>4 DEF CoroutineFits, Known
        <3>3. w = "lookup" =>
                  <<World.loop[t], Url(k, b)>>' \in held'
            BY <1>1, <1>2, <1>4 DEF Url, World
        <3> QED
            BY <2>1, <3>1, <3>2, <3>3 DEF CoroutineFits
    <2>2. CASE a # b
        <3>1. CoroutineFits(t, c, a) /\ k.at[a] = c.at[a]
            BY <1>2, <1>3, <1>5, <2>2 DEF Fits
        <3>2. k.asked[a] = c.asked[a]
            BY <1>1, <2>2
        <3>3. k.at[a] = "lookup" =>
                  <<World.loop[t], Url(k, a)>>' \in held'
            BY <1>1, <1>2, <1>4, <2>2, <3>1 DEF Url, World, Looks
        <3>4. k.gen \in 1..generation' /\ a \in Clusters(k.gen)'
            BY <1>1, <1>4, <3>1 DEF CoroutineFits, client
        <3>5. /\ Known(c, a).type => Known(k, a)'.type
              /\ Known(c, a).project # None => Known(k, a)'.project # None
            <4>1. a \in Clusters(c.gen)
                BY <3>1 DEF CoroutineFits
            <4>2. Known(k, a) = Known(c, a) /\ Known(k, a)' = Known(c, a)'
                BY <1>1 DEF Known
            <4> QED
                BY <1>4, <4>1, <4>2
        <3> QED
            BY <1>1, <3>1, <3>2, <3>3, <3>4, <3>5 DEF CoroutineFits
    <2> QED
        BY <2>1, <2>2
<1>6. Fits(t, k)'
    <2>1. c.op # "none"
        BY <1>1, AskingCall
    <2>2. k.op = "connect" => ConnectFits(k)'
        <3>1. ASSUME k.op = "connect"
              PROVE  ConnectFits(c) /\ c.phase \notin {"token", "resource"}
            BY <1>1, <1>2, <3>1 DEF Fits, ConnectFits, Asking
        <3> QED
            BY <1>1, <3>1 DEF ConnectFits, client
    <2>3. k.op \notin {"none", "connect"} =>
              /\ k.phase \in {"fetch", "meta"}
              /\ k.gen \in 1..generation' /\ k.epoch <= closed'
        BY <1>1, <1>2 DEF Fits, client
    <2>4. k.op \in {"backend", "bind"} =>
              k.via = "client" /\ k.backend \in Clusters(k.gen)'
        BY <1>1, <1>2, <1>4 DEF Fits
    <2> QED
        BY <1>1, <1>5, <2>1, <2>2, <2>3, <2>4 DEF Fits
<1>7. Apart(t, k)
    <2>1. \A a \in Names : Looks(k, a) =>
              \/ a = b /\ w = "lookup"
              \/ a # b /\ Looks(c, a)
        BY <1>3 DEF Looks
    <2>2. \A a \in Names : Url(k, a) = Url(c, a)
        BY <1>1 DEF Url
    <2>3. \A s \in Callers : \A a \in Names : Looks(call[s], a) =>
              <<World.loop[s], Url(call[s], a)>> \in held
        BY DEF Placed, CallsFit, Fits, CoroutineFits, Looks
    <2>4. ASSUME NEW a \in Names, NEW d \in Names,
                 Looks(k, a), Looks(k, d), Url(k, a) = Url(k, d)
          PROVE  a = d
        BY <1>1, <2>1, <2>2, <2>3, <2>4 DEF Placed, Owned, Looks
    <2>5. ASSUME NEW s \in Callers \ {t}, NEW a \in Names, NEW d \in Names,
                 Looks(call[s], a), Looks(k, d),
                 World.loop[s] = World.loop[t]
          PROVE  Url(call[s], a) # Url(k, d)
        BY <1>1, <2>1, <2>2, <2>3, <2>5 DEF Placed, Owned, Looks
    <2> QED
        BY <2>4, <2>5 DEF Apart
<1>8. Follows(call[t], k) /\ OthersHold(t)
    BY DEF Follows, Resolves, OthersHold
<1>9. /\ \A s \in Callers \ {t} : Grows(call[s].gen)
      /\ \A a \in Names : Looks(k, a) =>
             resource'[k.gen].url = resource[k.gen].url
    BY <1>1, <1>4 DEF Grows
<1>10. ClientOK' /\ Frame
    BY DEF client, Placed, Types, ClientOK, Frame
<1>11. k.op = "connect" /\ ~Connecting => closed < World.connects
    BY DEF Connecting
<1> QED
    BY <1>6, <1>7, <1>8, <1>9, <1>10, <1>11, CallKeeps

LEMMA MovedOnly ==
    ASSUME NEW c \in CallOK, NEW b \in Names,
           NEW w \in {"none", "lookup", "ask", "unsent"},
           NEW at, at = [c.at EXCEPT ![b] = w],
           NEW k, k = [c EXCEPT !.at = at]
    PROVE  Becomes(c, k, b, w)
<1>1. at \in [Names -> {"none", "list", "lock", "lookup", "ask", "unsent"}]
    BY DEF CallOK
<1> QED
    BY <1>1 DEF CallOK, Becomes

LEMMA AskedOnly ==
    ASSUME NEW c, NEW b \in Names, NEW w, NEW d, Becomes(c, d, b, w),
           NEW q \in ResourceNames \cup {None},
           NEW asked, asked = [d.asked EXCEPT ![b] = q],
           NEW k, k = [d EXCEPT !.asked = asked]
    PROVE  Becomes(c, k, b, w)
<1>1. d \in CallOK
    BY DEF Becomes
<1>2. /\ asked \in [Names -> ResourceNames \cup {None}]
      /\ asked[b] = q /\ \A a \in Names \ {b} : asked[a] = d.asked[a]
    BY <1>1 DEF CallOK
<1>3. /\ k \in CallOK /\ k.asked = asked
      /\ k.op = d.op /\ k.phase = d.phase /\ k.via = d.via
      /\ k.gen = d.gen /\ k.epoch = d.epoch /\ k.backend = d.backend
      /\ k.at = d.at
    BY <1>1, <1>2 DEF CallOK
<1> QED
    BY <1>2, <1>3 DEF Becomes

\* How a step that moves a coroutine changes calls.
LEMMA MoveBecomes ==
    ASSUME CallsOK, NEW t \in Callers, NEW b \in Names,
           NEW w \in {"none", "lookup", "ask", "unsent"},
           Move(t, b, w)
    PROVE  \E k : call' = [call EXCEPT ![t] = k] /\ Becomes(call[t], k, b, w)
<1>1. PICK c : c = call[t]
    OBVIOUS
<1>2. PICK at : at = [c.at EXCEPT ![b] = w]
    OBVIOUS
<1>3. PICK k : k = [c EXCEPT !.at = at]
    OBVIOUS
<1>4. call' = [call EXCEPT ![t] = k]
    BY <1>1, <1>2, <1>3 DEF Move
<1>5. c \in CallOK
    BY <1>1 DEF CallsOK
<1>6. Becomes(c, k, b, w)
    BY <1>2, <1>3, <1>5, MovedOnly
<1> QED
    BY <1>1, <1>4, <1>6

MovesAsking(t, b, w, q) ==
    call' = [call EXCEPT ![t].at[b] = w, ![t].asked[b] = q]

LEMMA MoveAskingBecomes ==
    ASSUME CallsOK, NEW t \in Callers, NEW b \in Names,
           NEW w \in {"none", "lookup", "ask", "unsent"},
           NEW q \in ResourceNames \cup {None},
           MovesAsking(t, b, w, q)
    PROVE  \E k : /\ call' = [call EXCEPT ![t] = k]
                  /\ Becomes(call[t], k, b, w) /\ k.asked[b] = q
<1>1. PICK c : c = call[t]
    OBVIOUS
<1>2. PICK at : at = [c.at EXCEPT ![b] = w]
    OBVIOUS
<1>3. PICK asked : asked = [c.asked EXCEPT ![b] = q]
    OBVIOUS
<1>4. PICK d : d = [c EXCEPT !.at = at]
    OBVIOUS
<1>5. PICK k : k = [d EXCEPT !.asked = asked]
    OBVIOUS
<1>6. c \in CallOK
    BY <1>1 DEF CallsOK
<1>7. call' = [call EXCEPT ![t] = k]
    <2>1. PICK one : one = [call EXCEPT ![t] = d]
        OBVIOUS
    <2>2. one[t] = d /\ d.asked = c.asked
        BY <1>4, <1>6, <2>1 DEF CallsOK, CallOK
    <2>3. call' = [one EXCEPT ![t].asked[b] = q]
        BY <1>1, <1>2, <1>4, <2>1 DEF MovesAsking
    <2>4. call' = [one EXCEPT ![t] = k]
        BY <1>3, <1>5, <2>2, <2>3
    <2> QED
        BY <2>1, <2>4
<1>8. Becomes(c, d, b, w)
    BY <1>2, <1>4, <1>6, MovedOnly
<1>9. asked = [d.asked EXCEPT ![b] = q]
    BY <1>3, <1>4, <1>6 DEF CallOK
<1>10. Becomes(c, k, b, w) /\ k.asked[b] = q
    <2>1. Becomes(c, k, b, w)
        BY <1>5, <1>8, <1>9, AskedOnly
    <2>2. asked[b] = q
        BY <1>3, <1>6 DEF CallOK
    <2>3. k.asked = asked
        BY <1>5, <1>8 DEF Becomes, CallOK
    <2> QED
        BY <2>1, <2>2, <2>3
<1> QED
    BY <1>1, <1>7, <1>10

LEMMA LearnMachineKeeps ==
    ASSUME Placed, NEW t \in Callers, NEW b \in Names, LearnMachine(t, b)
    PROVE  Placed'
<1>1. PICK c : c = call[t]
    OBVIOUS
<1>2. c.at[b] \in Asking
    BY <1>1 DEF LearnMachine, Asking
<1>3. /\ c \in CallOK /\ c.gen \in 1..generation /\ b \in Clusters(c.gen)
      /\ Known(c, b) \in Facts
      /\ generation \in Nat /\ generation \in 0..MaxConnects
    BY <1>1, <1>2, AskingCall
<1>4. PICK x : x = [Known(c, b) EXCEPT !.info = TRUE, !.available = TRUE,
                                       !.error = FALSE]
    OBVIOUS
<1>5. x \in Facts /\ x.type = Known(c, b).type
      /\ x.project = Known(c, b).project
    BY <1>3, <1>4 DEF Facts
<1>6. Put(c, b, x) /\ UNCHANGED generation
    BY <1>1, <1>4 DEF LearnMachine, client
<1>7. ResourcesOK' /\ \A g \in 1..generation : Grows(g)
    BY <1>3, <1>5, <1>6, PutGrows DEF Placed, Types
<1>8. PICK w \in {"none", "lookup", "ask", "unsent"} : w = "none"
    OBVIOUS
<1>9. Move(t, b, w)
    BY <1>8 DEF LearnMachine
<1>10. PICK k : call' = [call EXCEPT ![t] = k] /\ Becomes(call[t], k, b, w)
    BY <1>9, MoveBecomes DEF Placed, Types
<1>11. IdsOK' /\ LocksOK' /\ held' = held
       /\ UNCHANGED <<world, later, client, view>>
    BY DEF LearnMachine, Placed, Types, IdsOK, LocksOK, World
<1>12. HeldBut(t, b)
    BY <1>11 DEF HeldBut, Placed, CallsFit, Fits, CoroutineFits, Looks
<1>13. call[t].at[b] \in Asking
    BY <1>1, <1>2
<1> QED
    BY <1>7, <1>8, <1>10, <1>11, <1>12, <1>13, CoroutineKeeps

\* A lookup or a fetch that fails, the lock of a lookup being released.
LEMMA MissKeeps ==
    ASSUME Placed, NEW t \in Callers, NEW b \in Names,
           call[t].at[b] \in Asking, Miss(t, b),
           held' = IF call[t].at[b] = "lookup"
                   THEN held \ {<<World.loop[t], Url(call[t], b)>>}
                   ELSE held,
           UNCHANGED <<world, later, client, ids, view>>
    PROVE  Placed'
<1>1. PICK c : c = call[t]
    OBVIOUS
<1>2. /\ c \in CallOK /\ Fits(t, c) /\ c.gen \in 1..generation
      /\ b \in Clusters(c.gen) /\ Known(c, b) \in Facts
      /\ generation \in Nat /\ generation \in 0..MaxConnects
    BY <1>1, AskingCall
<1>3. HeldBut(t, b)
    <2>1. CASE Looks(call[t], b)
        <3>1. held' = held \ {<<World.loop[t], Url(call[t], b)>>}
            BY <2>1 DEF Looks
        <3> QED
            BY <2>1, <3>1, ReleaseHolds
    <2>2. CASE ~Looks(call[t], b)
        BY <2>2 DEF HeldBut, Placed, CallsFit, Fits, CoroutineFits,
           Looks
    <2> QED
        BY <2>1, <2>2
<1>4. IdsOK' /\ LocksOK'
    BY DEF Placed, Types, IdsOK, LocksOK, World
<1>5. CASE c.op = "submit"
    <2>1. call' = [call EXCEPT ![t] = Idle] /\ UNCHANGED resource
        BY <1>1, <1>5 DEF Miss
    <2>2. PICK k : k = Idle
        OBVIOUS
    <2>3. /\ k \in CallOK /\ k.op = "none" /\ \A a \in Names : ~Looks(k, a)
          /\ call' = [call EXCEPT ![t] = k]
        BY <2>1, <2>2, IdleFits
    <2>4. Apart(t, k) /\ Follows(call[t], k) /\ OthersHold(t)
        BY <1>3, <2>3 DEF Apart, Follows, OthersHold, HeldBut
    <2>5. Fits(t, k)'
        BY <2>2 DEF Fits, Idle
    <2>6. ClientOK' /\ ResourcesOK' /\ Frame
        BY <2>1 DEF client, Placed, Types, ClientOK, ResourcesOK, Frame
    <2>7. /\ \A s \in Callers \ {t} : Grows(call[s].gen)
          /\ \A a \in Names : Looks(k, a) =>
                 resource'[k.gen].url = resource[k.gen].url
          /\ k.op = "connect" /\ ~Connecting => closed < World.connects
        BY <2>1, <2>3 DEF Grows
    <2> QED
        BY <1>4, <2>3, <2>4, <2>5, <2>6, <2>7, CallKeeps
<1>6. CASE c.op # "submit"
    <2>1. PICK x : x = Unavailable(Known(c, b))
        OBVIOUS
    <2>2. x \in Facts /\ x.type = Known(c, b).type
          /\ x.project = Known(c, b).project
        BY <1>2, <2>1 DEF Facts, Unavailable
    <2>3. Put(c, b, x) /\ UNCHANGED generation
        BY <1>1, <1>6, <2>1 DEF Miss, client
    <2>4. ResourcesOK' /\ \A g \in 1..generation : Grows(g)
        BY <1>2, <2>2, <2>3, PutGrows DEF Placed, Types
    <2>5. PICK w \in {"none", "lookup", "ask", "unsent"} : w = "none"
        OBVIOUS
    <2>6. PICK q \in ResourceNames \cup {None} : q = None
        OBVIOUS
    <2>7. MovesAsking(t, b, w, q)
        BY <1>1, <1>6, <2>5, <2>6 DEF Miss, MovesAsking
    <2>8. PICK k : /\ call' = [call EXCEPT ![t] = k]
                   /\ Becomes(call[t], k, b, w)
        <3>1. CallsOK
            BY DEF Placed, Types
        <3> QED
            BY <2>7, <3>1, MoveAskingBecomes
    <2> QED
        BY <1>3, <1>4, <2>4, <2>5, <2>8, CoroutineKeeps
<1> QED
    BY <1>5, <1>6

LEMMA FailToFindProjectKeeps ==
    ASSUME Placed, NEW t \in Callers, NEW b \in Names,
           FailToFindProject(t, b)
    PROVE  Placed'
<1>1. call[t].at[b] \in Asking
    BY DEF FailToFindProject, Asking
<1>2. held' = IF call[t].at[b] = "lookup"
              THEN held \ {<<World.loop[t], Url(call[t], b)>>}
              ELSE held
    BY DEF FailToFindProject, Release
<1>3. Miss(t, b) /\ UNCHANGED <<world, later, client, ids, view>>
    BY DEF FailToFindProject
<1> QED
    BY <1>1, <1>2, <1>3, MissKeeps

LEMMA FailToLearnKeeps ==
    ASSUME Placed, NEW t \in Callers, NEW b \in Names, FailToLearn(t, b)
    PROVE  Placed'
<1>1. call[t].at[b] \in {"ask", "unsent"}
    BY DEF FailToLearn
<1>2. call[t].at[b] \in Asking
    BY <1>1 DEF Asking
<1>3. held' = IF call[t].at[b] = "lookup"
              THEN held \ {<<World.loop[t], Url(call[t], b)>>}
              ELSE held
    BY <1>1 DEF FailToLearn
<1>4. Miss(t, b) /\ UNCHANGED <<world, later, client, ids, view>>
    BY DEF FailToLearn
<1> QED
    BY <1>2, <1>3, <1>4, MissKeeps

LEMMA TakeLockKeeps ==
    ASSUME Placed, NEW t \in Callers, NEW b \in Names, TakeLock(t, b)
    PROVE  Placed'
<1>1. PICK c : c = call[t]
    OBVIOUS
<1>2. PICK u : u = Url(c, b)
    OBVIOUS
<1>3. PICK cache : cache = ids[CacheOf(c)]
    OBVIOUS
<1>4. c.at[b] = "lock" /\ call[t].at[b] \in Asking
    BY <1>1 DEF TakeLock, Asking
<1>5. /\ c \in CallOK /\ CoroutineFits(t, c, b) /\ c.gen \in 1..generation
      /\ b \in Clusters(c.gen) /\ Known(c, b) \in Facts /\ u \in Urls
      /\ generation \in Nat /\ generation \in 0..MaxConnects
      /\ CacheOf(c) \in 0..MaxConnects
      /\ \A g \in 1..generation : ResourceOK(resource[g])
    BY <1>1, <1>2, <1>4, AskingCall, PlacedCall
<1>6. Types /\ CallsOK
    BY DEF Placed, Types
<1>7. UNCHANGED <<world, later, client, view, ids>> /\ IdsOK'
    BY <1>6 DEF TakeLock, Types, IdsOK
<1>8. held \subseteq held' => HeldBut(t, b)
    BY DEF HeldBut, Placed, CallsFit, Fits, CoroutineFits, Looks
<1>9. CASE /\ u \in DOMAIN cache /\ UNCHANGED held
           /\ Put(c, b, [Known(c, b) EXCEPT !.project = cache[u]])
           /\ Move(t, b, Proceed(c))
    <2>1. PICK x : x = [Known(c, b) EXCEPT !.project = cache[u]]
        OBVIOUS
    <2>2. cache[u] \in Projects /\ cache[u] # None
        <3>1. cache[u] \in Projects
            BY <1>3, <1>5, <1>6, <1>9 DEF Types, IdsOK
        <3> QED
            BY <3>1, DiscoveryAssumption DEF Projects, Project
    <2>3. /\ x \in Facts /\ x.type = Known(c, b).type
          /\ x.project # None
        BY <1>5, <2>1, <2>2 DEF Facts
    <2>4. Put(c, b, x) /\ UNCHANGED generation
        BY <1>7, <1>9, <2>1 DEF client
    <2>5. /\ ResourcesOK' /\ \A g \in 1..generation : Grows(g)
          /\ resource'[c.gen].clusters[b] = x
        BY <1>5, <1>6, <2>3, <2>4, PutGrows DEF Types
    <2>6. PICK w : w = Proceed(c)
        OBVIOUS
    <2>7. /\ w \in {"none", "lookup", "ask", "unsent"} /\ w # "lookup"
          /\ w = "ask" => c.op # "submit"
        BY <2>6, EnterFits
    <2>8. Move(t, b, w)
        BY <1>9, <2>6
    <2>9. PICK k : call' = [call EXCEPT ![t] = k] /\ Becomes(call[t], k, b, w)
        BY <1>6, <2>7, <2>8, MoveBecomes
    <2>10. w = "ask" => k.op # "submit" /\ Known(k, b)'.project # None
        BY <1>1, <2>3, <2>5, <2>7, <2>9 DEF Becomes, Known
    <2>11. LocksOK' /\ HeldBut(t, b)
        BY <1>6, <1>7, <1>8, <1>9 DEF Types, LocksOK, World
    <2> QED
        BY <1>4, <1>7, <2>5, <2>7, <2>9, <2>10, <2>11, CoroutineKeeps
<1>10. CASE Move(t, b, "unsent") /\ UNCHANGED <<held, resource>>
    <2>1. PICK w \in {"none", "lookup", "ask", "unsent"} : w = "unsent"
        OBVIOUS
    <2>2. Move(t, b, w)
        BY <1>10, <2>1
    <2>3. PICK k : call' = [call EXCEPT ![t] = k] /\ Becomes(call[t], k, b, w)
        BY <1>6, <2>2, MoveBecomes
    <2>4. LocksOK' /\ HeldBut(t, b) /\ ResourcesOK'
        BY <1>6, <1>7, <1>8, <1>10
           DEF Types, LocksOK, World, ResourcesOK, client
    <2>5. \A g \in 1..generation : Grows(g)
        BY <1>10 DEF Grows
    <2> QED
        BY <1>4, <1>7, <2>1, <2>3, <2>4, <2>5, CoroutineKeeps
<1>11. CASE /\ <<World.loop[t], u>> \notin held /\ UNCHANGED resource
            /\ held' = held \cup {<<World.loop[t], u>>}
            /\ call' = [call EXCEPT ![t].at[b] = "lookup",
                   ![t].asked[b] = resource[IF c.via = "client"
                                            THEN generation ELSE c.gen].name]
    <2>1. PICK w \in {"none", "lookup", "ask", "unsent"} : w = "lookup"
        OBVIOUS
    <2>2. PICK q : q = resource[IF c.via = "client"
                                THEN generation ELSE c.gen].name
        OBVIOUS
    <2>3. q \in ResourceNames
        <3>1. generation \in 1..generation
            BY <1>5
        <3> QED
            BY <1>5, <2>2, <3>1 DEF ResourceOK
    <2>4. q \in ResourceNames \cup {None}
        BY <2>3
    <2>5. MovesAsking(t, b, w, q)
        BY <1>11, <2>1, <2>2 DEF MovesAsking
    <2>6. PICK k : /\ call' = [call EXCEPT ![t] = k]
                   /\ Becomes(call[t], k, b, w) /\ k.asked[b] = q
        BY <1>6, <2>4, <2>5, MoveAskingBecomes
    <2>7. w = "lookup" => /\ k.asked[b] \in ResourceNames
                          /\ <<World.loop[t], Url(call[t], b)>> \notin held
                          /\ <<World.loop[t], Url(call[t], b)>> \in held'
        BY <1>1, <1>2, <1>11, <2>3, <2>6
    <2>8. HeldBut(t, b) /\ ResourcesOK'
        BY <1>6, <1>7, <1>8, <1>11 DEF Types, ResourcesOK, client
    <2>9. LocksOK'
        <3>1. World.loop[t] \in Range(World.loop)
            BY <1>6, WorldIsTyped DEF Range, Types, ClientOK
        <3> QED
            BY <1>5, <1>6, <1>7, <1>11, <3>1 DEF Types, LocksOK, World
    <2>10. \A g \in 1..generation : Grows(g)
        BY <1>11 DEF Grows
    <2> QED
        BY <1>4, <1>7, <2>1, <2>6, <2>7, <2>8, <2>9, <2>10, CoroutineKeeps
<1> QED
    BY <1>1, <1>2, <1>3, <1>9, <1>10, <1>11 DEF TakeLock

LEMMA FindProjectKeeps ==
    ASSUME Placed, NEW t \in Callers, NEW b \in Names, FindProject(t, b)
    PROVE  Placed'
<1>1. PICK c : c = call[t]
    OBVIOUS
<1>2. PICK u : u = Url(c, b)
    OBVIOUS
<1>3. PICK r : r = c.asked[b]
    OBVIOUS
<1>4. PICK now : now = CacheOf(c)
    OBVIOUS
<1>5. c.at[b] = "lookup" /\ call[t].at[b] \in Asking
    BY <1>1 DEF FindProject, Asking
<1>6. /\ c \in CallOK /\ CoroutineFits(t, c, b) /\ c.gen \in 1..generation
      /\ b \in Clusters(c.gen) /\ Known(c, b) \in Facts /\ u \in Urls
      /\ generation \in Nat /\ generation \in 0..MaxConnects
      /\ now \in 0..MaxConnects
    BY <1>1, <1>2, <1>4, <1>5, AskingCall
<1>7. Types /\ CallsOK
    BY DEF Placed, Types
<1>8. Project(r, u) \in Projects /\ Project(r, u) # None
    <2>1. r \in ResourceNames
        BY <1>3, <1>5, <1>6 DEF CoroutineFits
    <2> QED
        BY <1>6, <2>1, DiscoveryAssumption DEF Projects, Project
<1>9. PICK x : x = [Known(c, b) EXCEPT !.project = Project(r, u)]
    OBVIOUS
<1>10. x \in Facts /\ x.type = Known(c, b).type /\ x.project # None
    BY <1>6, <1>8, <1>9 DEF Facts
<1>11. Put(c, b, x) /\ UNCHANGED generation
    BY <1>1, <1>2, <1>3, <1>9 DEF FindProject, client
<1>12. /\ ResourcesOK' /\ \A g \in 1..generation : Grows(g)
       /\ resource'[c.gen].clusters[b] = x
    BY <1>6, <1>7, <1>10, <1>11, PutGrows DEF Types
<1>13. IdsOK'
    <2>1. PICK old : old = ids[now]
        OBVIOUS
    <2>2. PICK new : new = [v \in DOMAIN old \cup {u} |->
                              IF v = u THEN Project(r, u) ELSE old[v]]
        OBVIOUS
    <2>3. ids' = [ids EXCEPT ![now] = new]
        BY <1>1, <1>2, <1>3, <1>4, <2>1, <2>2 DEF FindProject
    <2>4. old \in [DOMAIN old -> Projects] /\ DOMAIN old \subseteq Urls
        BY <1>6, <1>7, <2>1 DEF Types, IdsOK
    <2>5. new \in [DOMAIN new -> Projects] /\ DOMAIN new \subseteq Urls
        BY <1>6, <1>8, <2>2, <2>4
    <2> QED
        BY <1>6, <1>7, <2>3, <2>5 DEF Types, IdsOK
<1>14. PICK w : w = Proceed(c)
    OBVIOUS
<1>15. /\ w \in {"none", "lookup", "ask", "unsent"} /\ w # "lookup"
       /\ w = "ask" => c.op # "submit"
    BY <1>14, EnterFits
<1>16. PICK q \in ResourceNames \cup {None} : q = None
    OBVIOUS
<1>17. MovesAsking(t, b, w, q)
    BY <1>1, <1>14, <1>16 DEF FindProject, MovesAsking
<1>18. PICK k : /\ call' = [call EXCEPT ![t] = k]
                /\ Becomes(call[t], k, b, w)
    BY <1>7, <1>15, <1>17, MoveAskingBecomes
<1>19. w = "ask" => k.op # "submit" /\ Known(k, b)'.project # None
    BY <1>1, <1>10, <1>12, <1>15, <1>18 DEF Becomes, Known
<1>20. HeldBut(t, b)
    <2>1. /\ Looks(call[t], b)
          /\ held' = held \ {<<World.loop[t], Url(call[t], b)>>}
        BY DEF FindProject, Release, Looks
    <2> QED
        BY <2>1, ReleaseHolds
<1>21. UNCHANGED <<world, later, client, view>>
    BY DEF FindProject
<1>22. LocksOK'
    BY <1>7, <1>21 DEF FindProject, Release, Types, LocksOK, World
<1> QED
    BY <1>5, <1>12, <1>13, <1>15, <1>18, <1>19, <1>20, <1>21, <1>22,
       CoroutineKeeps

-----------------------------------------------------------------------------
LEMMA InitIsPlaced ==
    Init => Placed
<1> SUFFICES ASSUME Init PROVE Placed
    OBVIOUS
<1>1. 0 \in 0..MaxConnects /\ 1..0 = {}
    BY DiscoveryAssumption
<1>2. ClientOK
    BY <1>1 DEF Init, ClientOK
<1>3. ResourcesOK /\ IdsOK /\ LocksOK
    BY <1>1 DEF Init, ResourcesOK, IdsOK, LocksOK
<1>4. /\ \A t \in Callers : call[t] = Idle
      /\ call \in [Callers -> CallOK]
    BY IdleFits DEF Init
<1>5. \A t \in Callers : call[t].op = "none" /\ call[t].gen = 0
                         /\ \A b \in Names : call[t].at[b] = "none"
    BY <1>4 DEF Idle
<1>6. Counts
    BY <1>5 DEF Init, Counts, Connecting
<1>7. CallsFit
    BY <1>4, IdleFits DEF CallsFit
<1>8. Alone /\ Owned
    BY <1>5 DEF Alone, Owned
<1> QED
    BY <1>2, <1>3, <1>4, <1>6, <1>7, <1>8 DEF Placed, Types, CallsOK

LEMMA NextKeepsPlaced ==
    Placed /\ [Next]_vars => Placed'
<1> SUFFICES ASSUME Placed, [Next]_vars PROVE Placed'
    OBVIOUS
<1>1. CASE Reassign
    BY <1>1, ReassignKeeps
<1>2. ASSUME NEW t \in Callers, Start(t)
      PROVE  Placed'
    <2>1. CASE Connect(t)
        BY <2>1, ConnectKeeps
    <2>2. ASSUME NEW via \in {"client", "view"},
                 \/ Close(t, via) \/ RefreshAll(t, via)
                 \/ \E b \in Names : Refresh(t, via, b) \/ Submit(t, via, b)
          PROVE  Placed'
        BY <2>2, CloseKeeps, RefreshAllKeeps, RefreshKeeps, SubmitKeeps
    <2>3. ASSUME NEW op \in {"backend", "bind"}, NEW b \in Names,
                 Validate(t, op, b)
          PROVE  Placed'
        BY <2>3, ValidateKeeps
    <2> QED
        BY <1>2, <2>1, <2>2, <2>3 DEF Start
<1>3. ASSUME NEW t \in Callers, Step(t)
      PROVE  Placed'
    <2>1. CASE Authenticate(t) \/ Authorize(t) \/ Refuse(t)
        BY <2>1, AuthenticateKeeps, AuthorizeKeeps, RefuseKeeps
    <2>2. ASSUME NEW u \in Urls, Resolve(t, u) \/ FailToResolve(t, u)
          PROVE  Placed'
        BY <2>2, ResolveKeeps, FailToResolveKeeps
    <2>3. CASE Load(t) \/ Connected(t)
        BY <2>3, LoadKeeps, ConnectedKeeps
    <2>4. ASSUME NEW b \in Names, Fetch(t, b)
          PROVE  Placed'
        BY <2>4, TakeLockKeeps, FindProjectKeeps, FailToFindProjectKeeps,
           LearnMachineKeeps, FailToLearnKeeps DEF Fetch
    <2>5. CASE Validated(t) \/ Finish(t)
        BY <2>5, ValidatedKeeps, FinishKeeps
    <2> QED
        BY <1>3, <2>1, <2>2, <2>3, <2>4, <2>5 DEF Step
<1>4. CASE UNCHANGED vars
    <2>1. Types' /\ Counts'
        BY <1>4 DEF vars, Placed, Types, ClientOK, ResourcesOK, IdsOK,
           LocksOK, CallsOK, Counts, Connecting, World
    <2>2. \A t \in Callers, b \in Names :
              CoroutineFits(t, call[t], b) => CoroutineFits(t, call[t], b)'
        BY <1>4 DEF vars, CoroutineFits, Clusters, Known, Url, World
    <2>3. CallsFit'
        BY <1>4, <2>2 DEF vars, Placed, CallsFit, Fits, ConnectFits,
           Clusters
    <2>4. Alone' /\ Owned'
        BY <1>4 DEF vars, Placed, Alone, Resolves, Owned, Looks, Url, World
    <2> QED
        BY <2>1, <2>3, <2>4 DEF Placed
<1> QED
    BY <1>1, <1>2, <1>3, <1>4 DEF Next

THEOREM PlacedAlways == Spec => []Placed
<1>1. Init => Placed
    BY InitIsPlaced
<1>2. Placed /\ [Next]_vars => Placed'
    BY NextKeepsPlaced
<1> QED
    BY <1>1, <1>2, PTL DEF Spec

\* Whatever the callers do at the same time, and whatever LEXIS and HEAppE
\* answer: every connection has its own resource and cache, a view is of an
\* opened resource, and the locks taken are those of known loops.
THEOREM TypesAlwaysHold == Spec => []DiscoveryTypeOK
<1>1. Placed => DiscoveryTypeOK
    <2> SUFFICES ASSUME Placed PROVE DiscoveryTypeOK
        OBVIOUS
    <2>1. ClientOK /\ ResourcesOK /\ IdsOK /\ LocksOK /\ CallsOK
        BY DEF Placed, Types
    <2>2. \A g \in 1..generation :
            /\ resource[g].name \in ResourceNames
            /\ Clusters(g) \subseteq Names
            /\ resource[g].url \in [Clusters(g) -> Urls]
            /\ resource[g].clusters \in [Clusters(g) -> Facts]
        BY <2>1 DEF ResourcesOK, ResourceOK, Clusters
    <2>3. \A t \in Callers : call[t].at \in
            [Names -> {"none", "list", "lock", "lookup", "ask", "unsent"}]
        BY <2>1 DEF CallsOK, CallOK
    <2>4. \A d \in 0..MaxConnects :
            \A u \in DOMAIN ids[d] : u \in Urls /\ ids[d][u] \in Projects
        BY <2>1 DEF IdsOK
    <2> QED
        BY <2>1, <2>2, <2>3, <2>4 DEF DiscoveryTypeOK, ClientOK, LocksOK
<1> QED
    BY <1>1, PlacedAlways, PTL

-----------------------------------------------------------------------------
(***************************************************************************)
(* What is known of a cluster, and why a backend is not available.         *)
(***************************************************************************)

\* HEAppE does not know the cluster, or a request at its instance failed.
Excused(g, b) ==
    \/ World.heappe[b] \in {"absent", "bare"}
    \/ <<g, resource[g].url[b]>> \in failed

\* A connect() has yet to list the cluster, or to load its machine info.
Listing(c, g, b) == c.op = "connect" /\ c.gen = g /\ c.at[b] = "list"
Pending(c, g, b) ==
    /\ c.op = "connect" /\ c.gen = g
    /\ c.phase = "resolve" \/ c.at[b] # "none"

ClusterExplained(g, b) ==
    LET k == resource[g].clusters[b]
    IN  /\ k.available => /\ k.id /\ k.type /\ k.info /\ ~k.error
                          /\ k.project # None
        /\ k.info => k.available \/ k.error
        /\ k.type => k.id
        /\ \/ k.type
           \/ \E t \in Callers : Listing(call[t], g, b)
           \/ k.error /\ Excused(g, b)
        /\ \/ k.available
           \/ World.lazy
           \/ \E t \in Callers : Pending(call[t], g, b)
           \/ k.error /\ Excused(g, b)

Explained ==
    \A g \in 1..generation : \A b \in Clusters(g) : ClusterExplained(g, b)

\* A cluster of which nothing new is known, but perhaps its project.
LEMMA ClusterStays ==
    ASSUME NEW g, NEW b, ClusterExplained(g, b), UNCHANGED world,
           failed \subseteq failed',
           resource'[g].url[b] = resource[g].url[b],
           NEW x, x = resource[g].clusters[b],
           NEW y, y = resource'[g].clusters[b],
           y = x \/ /\ y.id = x.id /\ y.type = x.type /\ y.info = x.info
                    /\ y.available = x.available /\ y.error = x.error
                    /\ x.project # None => y.project # None,
           \/ x.type \/ (x.error /\ Excused(g, b))
           \/ \A t \in Callers : Listing(call[t], g, b) =>
                  Listing(call'[t], g, b),
           \/ x.available \/ World.lazy \/ (x.error /\ Excused(g, b))
           \/ \A t \in Callers : Pending(call[t], g, b) =>
                  Pending(call'[t], g, b)
    PROVE  ClusterExplained(g, b)'
<1>1. Excused(g, b) => Excused(g, b)'
    BY DEF Excused, World
<1>2. World' = World
    BY DEF World
<1>3. /\ y.available => /\ y.id /\ y.type /\ y.info /\ ~y.error
                        /\ y.project # None
      /\ y.info => y.available \/ y.error
      /\ y.type => y.id
    BY DEF ClusterExplained
<1>4. \/ y.type
      \/ \E t \in Callers : Listing(call'[t], g, b)
      \/ y.error /\ Excused(g, b)'
    BY <1>1 DEF ClusterExplained
<1>5. \/ y.available
      \/ World.lazy
      \/ \E t \in Callers : Pending(call'[t], g, b)
      \/ y.error /\ Excused(g, b)'
    BY <1>1 DEF ClusterExplained
<1> QED
    BY <1>2, <1>3, <1>4, <1>5 DEF ClusterExplained, Listing, Pending

\* A call that has not opened the resource, or needs nothing more of it.
Uninvolved(c) ==
    c.op = "connect" => \/ c.phase \in {"token", "resource"}
                        \/ c.phase = "fetch" /\ ~Waits(c)

LEMMA UninvolvedCall ==
    ASSUME Placed, NEW t \in Callers, Uninvolved(call[t]), NEW g,
           NEW b \in Names
    PROVE  ~Listing(call[t], g, b) /\ ~Pending(call[t], g, b)
BY DEF Placed, CallsFit, Fits, ConnectFits, Uninvolved, Listing, Pending,
   Waits

LEMMA QuietExplains ==
    ASSUME Placed, Explained,
           \A t \in Callers : call'[t] = call[t] \/ Uninvolved(call[t]),
           UNCHANGED <<world, resource, generation>>,
           failed \subseteq failed'
    PROVE  Explained'
<1> SUFFICES ASSUME NEW g \in 1..generation, NEW b \in Clusters(g)
             PROVE  ClusterExplained(g, b)'
    BY DEF Explained, Clusters
<1>1. b \in Names /\ ClusterExplained(g, b)
    BY DEF Placed, Types, ResourcesOK, ResourceOK, Clusters, Explained
<1>2. \A t \in Callers :
          /\ Listing(call[t], g, b) => Listing(call'[t], g, b)
          /\ Pending(call[t], g, b) => Pending(call'[t], g, b)
    BY <1>1, UninvolvedCall
<1>3. PICK x : x = resource[g].clusters[b]
    OBVIOUS
<1>4. /\ x = resource'[g].clusters[b]
      /\ resource'[g].url[b] = resource[g].url[b]
    BY <1>3
<1> QED
    BY <1>1, <1>2, <1>3, <1>4, ClusterStays

LEMMA AuthorizeExplains ==
    ASSUME Placed, Explained, NEW t \in Callers, Authorize(t)
    PROVE  Explained'
<1>1. PICK i \in Choice : LET r == Lexis.resources[i]
                              url == InstanceOf(r)
       IN  /\ resource' = [resource EXCEPT ![generation + 1] =
                  [name |-> r.name, url |-> url,
                   clusters |-> [b \in DOMAIN url |-> Cluster]]]
           /\ call' = [call EXCEPT ![t].phase = "resolve", ![t].at =
                  [b \in Names |-> IF b \in DOMAIN url THEN "list"
                                                       ELSE "none"]]
    BY DEF Authorize
<1>2. PICK url : url = InstanceOf(Lexis.resources[i])
    OBVIOUS
<1>3. PICK at : at = [b \in Names |-> IF b \in DOMAIN url THEN "list"
                                                          ELSE "none"]
    OBVIOUS
<1> DEFINE new == [name |-> Lexis.resources[i].name, url |-> url,
                   clusters |-> [b \in DOMAIN url |-> Cluster]]
<1>4. /\ resource' = [resource EXCEPT ![generation + 1] = new]
      /\ new.url = url
      /\ new.clusters = [b \in DOMAIN url |-> Cluster]
    BY <1>1, <1>2
<1> HIDE DEF new
<1>5. /\ call[t] \in CallOK /\ Fits(t, call[t]) /\ CallsOK /\ ResourcesOK
      /\ generation \in Nat /\ MaxConnects \in Nat
    BY PlacedCall, DiscoveryAssumption DEF Placed, Types
<1>6. /\ call[t].phase = "resource" /\ call[t].op = "connect"
      /\ call[t].gen = generation + 1
    BY <1>5 DEF Authorize, Fits, Idle, ConnectFits
<1>7. /\ generation + 1 \in DOMAIN resource
      /\ generation' = generation + 1 /\ UNCHANGED <<world, failed>>
    BY <1>5, <1>6 DEF CallOK, ResourcesOK, Authorize, ghosts
<1>8. /\ resource'[generation + 1] = new
      /\ \A g \in 1..generation : resource'[g] = resource[g]
    BY <1>4, <1>5, <1>7
<1>9. /\ \A s \in Callers \ {t} : call'[s] = call[s]
      /\ call'[t].phase = "resolve" /\ call'[t].at = at
      /\ call'[t].op = "connect" /\ call'[t].gen = generation + 1
    BY <1>1, <1>2, <1>3, <1>5, <1>6 DEF CallsOK, CallOK
<1>10. ASSUME NEW g \in 1..generation, NEW b \in Clusters(g)
       PROVE  ClusterExplained(g, b)'
    <2>1. b \in Names /\ ClusterExplained(g, b)
        BY DEF Placed, Types, ResourcesOK, ResourceOK, Clusters, Explained
    <2>2. \A s \in Callers :
              /\ Listing(call[s], g, b) => Listing(call'[s], g, b)
              /\ Pending(call[s], g, b) => Pending(call'[s], g, b)
        BY <1>6, <1>9, <2>1, UninvolvedCall DEF Uninvolved
    <2>3. PICK x : x = resource[g].clusters[b]
        OBVIOUS
    <2>4. /\ x = resource'[g].clusters[b]
          /\ resource'[g].url[b] = resource[g].url[b]
        BY <1>8, <2>3
    <2> QED
        BY <1>7, <2>1, <2>2, <2>3, <2>4, ClusterStays
<1>11. ASSUME NEW n, n = generation + 1, NEW b \in DOMAIN url
       PROVE  ClusterExplained(n, b)'
    <2>1. resource'[n].clusters[b] = Cluster
        BY <1>4, <1>8, <1>11
    <2>2. b \in Names
        BY <1>2 DEF InstanceOf
    <2>3. /\ Listing(call'[t], n, b)
          /\ Pending(call'[t], n, b)
        BY <1>3, <1>9, <1>11, <2>2 DEF Listing, Pending
    <2>4. PICK k : k = resource'[n].clusters[b]
        OBVIOUS
    <2>5. ~k.available /\ ~k.info /\ ~k.type
        BY <2>1, <2>4 DEF Cluster
    <2>6. /\ \E s \in Callers : Listing(call'[s], n, b)
          /\ \E s \in Callers : Pending(call'[s], n, b)
        BY <2>3
    <2> QED
        BY <2>4, <2>5, <2>6 DEF ClusterExplained, Listing, Pending
<1>12. \A g \in 1..generation' : \/ g \in 1..generation /\
                                    Clusters(g)' = Clusters(g)
                                 \/ g = generation + 1 /\
                                    Clusters(g)' = DOMAIN url
    BY <1>4, <1>5, <1>7, <1>8 DEF Clusters
<1>13. ASSUME NEW g \in 1..generation', NEW b \in Clusters(g)'
       PROVE  ClusterExplained(g, b)'
    <2>1. CASE g \in 1..generation /\ Clusters(g)' = Clusters(g)
        BY <1>10, <1>13, <2>1
    <2>2. CASE g = generation + 1 /\ Clusters(g)' = DOMAIN url
        BY <1>11, <1>13, <2>2
    <2> QED
        BY <1>12, <2>1, <2>2
<1> QED
    BY <1>13 DEF Explained

\* One request has answered for all clusters of an instance.
AnswersWith(t, u, here, f) ==
    /\ here = {b \in Names : call[t].at[b] = "list" /\ Url(call[t], b) = u}
    /\ here # {}
    /\ f = [b \in DOMAIN resource[call[t].gen].clusters |->
              IF b \in here THEN f[b] ELSE resource[call[t].gen].clusters[b]]
    /\ call' = [call EXCEPT ![t].at =
           [b \in Names |-> IF b \in here THEN "none" ELSE call[t].at[b]]]
    /\ resource' = [resource EXCEPT ![call[t].gen].clusters = f]

\* What was learnt explains why there is no node type, if there is none.
Explains(k, b, g, u) ==
    /\ ~k.available /\ ~k.info
    /\ k.type => k.id
    /\ \/ k.type
       \/ k.error /\ \/ World.heappe[b] \in {"absent", "bare"}
                     \/ <<g, u>> \in failed'

LEMMA AnswersExplain ==
    ASSUME Placed, Explained, NEW t \in Callers, NEW u, NEW here, NEW f,
           AnswersWith(t, u, here, f),
           \A b \in here : Explains(f[b], b, call[t].gen, u),
           UNCHANGED <<world, generation>>, failed \subseteq failed'
    PROVE  Explained'
<1>1. PICK c : c = call[t]
    OBVIOUS
<1>2. PICK at : at = [b \in Names |-> IF b \in here THEN "none"
                                      ELSE c.at[b]]
    OBVIOUS
<1>3. /\ c.op = "connect" /\ c.phase = "resolve"
      /\ c.gen = generation /\ generation \in 1..generation
      /\ ResourceOK(resource[generation])
      /\ here \subseteq Clusters(generation)
    BY <1>1, ListingCall DEF AnswersWith
<1>4. /\ \A s \in Callers \ {t} : call'[s] = call[s]
      /\ call'[t].op = "connect" /\ call'[t].phase = "resolve"
      /\ call'[t].gen = generation /\ call'[t].at = at
    <2>1. PICK k : k = [c EXCEPT !.at = at]
        OBVIOUS
    <2>2. call' = [call EXCEPT ![t] = k]
        BY <1>1, <1>2, <2>1 DEF AnswersWith
    <2>3. c \in CallOK /\ CallsOK
        BY <1>1, PlacedCall DEF Placed, Types
    <2>4. k.at = at /\ k.op = c.op /\ k.phase = c.phase /\ k.gen = c.gen
        BY <2>1, <2>3 DEF CallOK
    <2>5. call'[t] = k /\ \A s \in Callers \ {t} : call'[s] = call[s]
        BY <2>2, <2>3 DEF CallsOK
    <2> QED
        BY <1>3, <2>4, <2>5
<1>5. /\ resource'[generation].url = resource[generation].url
      /\ resource'[generation].clusters = f
      /\ \A g \in 1..generation :
          g # generation => resource'[g] = resource[g]
    <2>1. PICK new : new = [resource[generation] EXCEPT !.clusters = f]
        OBVIOUS
    <2>2. resource' = [resource EXCEPT ![generation] = new]
        BY <1>1, <1>3, <2>1 DEF AnswersWith
    <2>3. new.url = resource[generation].url /\ new.clusters = f
        BY <1>3, <2>1 DEF ResourceOK
    <2>4. \A g \in 1..generation : g \in DOMAIN resource
        <3>1. /\ generation \in 0..MaxConnects /\ MaxConnects \in Nat
              /\ DOMAIN resource = 0..MaxConnects
            BY DiscoveryAssumption
               DEF Placed, Types, ClientOK, ResourcesOK
        <3> QED
            BY <3>1
    <2> QED
        BY <1>3, <2>2, <2>3, <2>4
<1>6. ASSUME NEW g \in 1..generation, NEW b \in Clusters(g),
             ~(g = generation /\ b \in here)
      PROVE  ClusterExplained(g, b)'
    <2>1. b \in Names /\ ClusterExplained(g, b)
        BY DEF Placed, Types, ResourcesOK, ResourceOK, Clusters, Explained
    <2>2. \A s \in Callers :
              /\ Listing(call[s], g, b) => Listing(call'[s], g, b)
              /\ Pending(call[s], g, b) => Pending(call'[s], g, b)
        BY <1>1, <1>2, <1>3, <1>4, <1>6, <2>1 DEF Listing, Pending
    <2>3. PICK x : x = resource[g].clusters[b]
        OBVIOUS
    <2>4. /\ x = resource'[g].clusters[b]
          /\ resource'[g].url[b] = resource[g].url[b]
        BY <1>1, <1>3, <1>5, <1>6, <2>3
           DEF AnswersWith, ResourceOK, Clusters
    <2> QED
        BY <2>1, <2>2, <2>3, <2>4, ClusterStays
<1>7. ASSUME NEW n, n = generation, NEW b \in here
      PROVE  ClusterExplained(n, b)'
    <2>1. resource'[n].clusters[b] = f[b] /\ b \in Names
        BY <1>5, <1>7 DEF AnswersWith
    <2>2. resource'[n].url[b] = u /\ World' = World
        BY <1>1, <1>3, <1>5, <1>7 DEF AnswersWith, Url, World
    <2>3. Pending(call'[t], n, b)
        BY <1>4, <1>7 DEF Pending
    <2>4. PICK k : k = f[b]
        OBVIOUS
    <2>5. Explains(k, b, n, u)
        BY <1>1, <1>3, <1>7, <2>4
    <2>6. k.type \/ (k.error /\ Excused(n, b)')
        BY <2>2, <2>5 DEF Excused, Explains
    <2>7. \E s \in Callers : Pending(call'[s], n, b)
        BY <2>3
    <2> QED
        BY <2>1, <2>4, <2>5, <2>6, <2>7
           DEF Explains, ClusterExplained, Listing, Pending
<1>8. \A g \in 1..generation : Clusters(g)' = Clusters(g)
    BY <1>5 DEF Clusters
<1>9. ASSUME NEW g \in 1..generation, NEW b \in Clusters(g)
      PROVE  ClusterExplained(g, b)'
    BY <1>6, <1>7
<1> QED
    BY <1>8, <1>9 DEF Explained

LEMMA ResolveExplains ==
    ASSUME Placed, Explained, NEW t \in Callers, NEW u, Resolve(t, u)
    PROVE  Explained'
<1>1. PICK here : here = {b \in Names : call[t].at[b] = "list"
                                        /\ Url(call[t], b) = u}
    OBVIOUS
<1>2. PICK f : f = [b \in DOMAIN resource[call[t].gen].clusters |->
                       IF b \in here THEN Listed(b)
                       ELSE resource[call[t].gen].clusters[b]]
    OBVIOUS
<1>3. /\ AnswersWith(t, u, here, f)
      /\ UNCHANGED <<world, generation>> /\ failed \subseteq failed'
    BY <1>1, <1>2 DEF AnswersWith, Resolve, Answered, client, ghosts
<1>4. \A b \in here : Explains(f[b], b, call[t].gen, u)
    <2> SUFFICES ASSUME NEW b \in here, NEW k, k = f[b]
                 PROVE  Explains(k, b, call[t].gen, u)
        OBVIOUS
    <2>1. /\ b \in Names /\ call[t].gen = generation
          /\ b \in Clusters(generation)
          /\ ResourceOK(resource[generation])
        BY <1>1, ListingCall
    <2>2. k = Listed(b)
        BY <1>2, <2>1 DEF ResourceOK, Clusters
    <2>3. PICK how : how = World.heappe[b]
        OBVIOUS
    <2>4. how \in {"absent", "bare", "hidden", "listed"}
        BY <2>1, <2>3, WorldIsTyped DEF Placed, Types, ClientOK
    <2>5. /\ ~k.available /\ ~k.info /\ (k.id <=> how # "absent")
          /\ k.type <=> how \in {"hidden", "listed"}
          /\ k.error <=> how \in {"absent", "bare"}
        BY <2>2, <2>3 DEF Listed, Cluster
    <2> QED
        BY <2>3, <2>4, <2>5 DEF Explains
<1> QED
    BY <1>3, <1>4, AnswersExplain

LEMMA FailToResolveExplains ==
    ASSUME Placed, Explained, NEW t \in Callers, NEW u, FailToResolve(t, u)
    PROVE  Explained'
<1>1. PICK here : here = {b \in Names : call[t].at[b] = "list"
                                        /\ Url(call[t], b) = u}
    OBVIOUS
<1>2. PICK f : f = [b \in DOMAIN resource[call[t].gen].clusters |->
                       IF b \in here THEN Unavailable(Cluster)
                       ELSE resource[call[t].gen].clusters[b]]
    OBVIOUS
<1>3. /\ AnswersWith(t, u, here, f)
      /\ UNCHANGED <<world, generation>> /\ failed \subseteq failed'
      /\ <<call[t].gen, u>> \in failed'
    BY <1>1, <1>2 DEF AnswersWith, FailToResolve, Answered, client
<1>4. \A b \in here : Explains(f[b], b, call[t].gen, u)
    <2> SUFFICES ASSUME NEW b \in here, NEW k, k = f[b]
                 PROVE  Explains(k, b, call[t].gen, u)
        OBVIOUS
    <2>1. /\ b \in Names /\ call[t].gen = generation
          /\ b \in Clusters(generation)
          /\ ResourceOK(resource[generation])
        BY <1>1, ListingCall
    <2>2. k = Unavailable(Cluster)
        BY <1>2, <2>1 DEF ResourceOK, Clusters
    <2> QED
        BY <1>3, <2>2 DEF Unavailable, Cluster, Explains
<1> QED
    BY <1>3, <1>4, AnswersExplain

LEMMA LoadExplains ==
    ASSUME Placed, Explained, NEW t \in Callers, Load(t)
    PROVE  Explained'
<1>1. PICK c : c = call[t]
    OBVIOUS
<1>2. c \in CallOK /\ Fits(t, c) /\ CallsOK
    BY <1>1, PlacedCall DEF Placed, Types
<1>3. c.phase = "resolve" /\ c.op = "connect"
    BY <1>1, <1>2 DEF Load, Fits, Idle
<1>4. /\ c.gen = generation /\ c.gen \in 1..generation
      /\ \A b \in Names : c.at[b] = "none"
    BY <1>1, <1>2, <1>3 DEF Load, Fits, ConnectFits, Waits
<1>5. /\ UNCHANGED <<world, resource, generation, failed>>
      /\ \A s \in Callers \ {t} : call'[s] = call[s]
      /\ ~World.lazy => call'[t] = LoadAll(c)
    BY <1>1, <1>2 DEF Load, client, knowledge, ghosts, CallsOK
<1>6. ASSUME NEW g \in 1..generation, NEW b \in Clusters(g)
      PROVE  ClusterExplained(g, b)'
    <2>1. b \in Names /\ ClusterExplained(g, b)
        BY DEF Placed, Types, ResourcesOK, ResourceOK, Clusters, Explained
    <2>2. PICK x : x = resource[g].clusters[b]
        OBVIOUS
    <2>3. /\ x = resource'[g].clusters[b]
          /\ resource'[g].url[b] = resource[g].url[b]
        BY <1>5, <2>2
    <2>4. \A s \in Callers :
              Listing(call[s], g, b) => Listing(call'[s], g, b)
        BY <1>1, <1>4, <1>5, <2>1 DEF Listing
    <2>5. \/ World.lazy \/ (x.error /\ Excused(g, b))
          \/ \A s \in Callers :
              Pending(call[s], g, b) => Pending(call'[s], g, b)
        <3>1. CASE World.lazy
            BY <3>1
        <3>2. CASE g # generation
            BY <1>1, <1>4, <1>5, <3>2 DEF Pending
        <3>3. CASE ~World.lazy /\ x.type /\ g = generation
            <4>1. Enter(c, b) # "none"
                BY <1>3 DEF Enter, Proceed, Send
            <4>2. /\ call'[t].op = "connect" /\ call'[t].gen = generation
                  /\ call'[t].at[b] = Enter(c, b)
                <5>1. PICK at : at = [a \in Names |->
                          IF a \in Clusters(c.gen) /\ Known(c, a).type
                          THEN Enter(c, a) ELSE "none"]
                    OBVIOUS
                <5>2. PICK k : k = [c EXCEPT !.phase = "fetch", !.at = at]
                    OBVIOUS
                <5>3. call'[t] = k
                    BY <1>5, <3>3, <5>1, <5>2 DEF LoadAll
                <5>4. k.op = c.op /\ k.gen = c.gen /\ k.at = at
                    BY <1>2, <5>2 DEF CallOK
                <5>5. Known(c, b).type /\ b \in Clusters(c.gen)
                    BY <1>4, <2>2, <3>3 DEF Known
                <5> QED
                    BY <1>3, <1>4, <2>1, <5>1, <5>3, <5>4, <5>5
            <4> QED
                BY <1>5, <3>3, <4>1, <4>2 DEF Pending
        <3>4. CASE ~x.type
            <4>1. \A s \in Callers : ~Listing(call[s], g, b)
                BY <1>1, <1>3, <1>4, <2>1 DEF Listing, Placed, Alone
            <4> QED
                BY <2>1, <2>2, <3>4, <4>1 DEF ClusterExplained
        <3> QED
            BY <3>1, <3>2, <3>3, <3>4
    <2>6. failed \subseteq failed' /\ UNCHANGED world
        BY <1>5
    <2> QED
        BY <2>1, <2>2, <2>3, <2>4, <2>5, <2>6, ClusterStays
<1>7. \A g \in 1..generation : Clusters(g)' = Clusters(g)
    BY <1>5 DEF Clusters
<1> QED
    BY <1>5, <1>6, <1>7 DEF Explained

\* A step that moves one coroutine, seen from every call.
CoroutineMoves(t, b, w) ==
    /\ \A s \in Callers \ {t} : call'[s] = call[s]
    /\ \A a \in Names : call'[t].at[a] = IF a = b THEN w ELSE call[t].at[a]
    /\ \A a \in Names \ {b} : call'[t].asked[a] = call[t].asked[a]
    /\ call'[t].op = call[t].op /\ call'[t].phase = call[t].phase
    /\ call'[t].via = call[t].via /\ call'[t].gen = call[t].gen
    /\ call'[t].epoch = call[t].epoch

LEMMA BecomesMoves ==
    ASSUME Placed, NEW t \in Callers, NEW b \in Names, NEW w, NEW k,
           call' = [call EXCEPT ![t] = k], Becomes(call[t], k, b, w)
    PROVE  CoroutineMoves(t, b, w)
<1>1. CallsOK /\ call[t] \in CallOK
    BY DEF Placed, Types, CallsOK
<1>2. call'[t] = k /\ \A s \in Callers \ {t} : call'[s] = call[s]
    BY <1>1 DEF CallsOK
<1>3. \A a \in Names : k.at[a] = IF a = b THEN w ELSE call[t].at[a]
    BY <1>1 DEF CallOK, Becomes
<1> QED
    BY <1>2, <1>3 DEF Becomes, CoroutineMoves

LEMMA MoveMoves ==
    ASSUME Placed, NEW t \in Callers, NEW b \in Names,
           NEW w \in {"none", "lookup", "ask", "unsent"},
           Move(t, b, w)
    PROVE  CoroutineMoves(t, b, w)
<1>1. CallsOK
    BY DEF Placed, Types
<1>2. PICK k : call' = [call EXCEPT ![t] = k] /\ Becomes(call[t], k, b, w)
    BY <1>1, MoveBecomes
<1> QED
    BY <1>2, BecomesMoves

LEMMA MoveAskingMoves ==
    ASSUME Placed, NEW t \in Callers, NEW b \in Names,
           NEW w \in {"none", "lookup", "ask", "unsent"},
           NEW q \in ResourceNames \cup {None}, MovesAsking(t, b, w, q)
    PROVE  CoroutineMoves(t, b, w) /\ call'[t].asked[b] = q
<1>1. CallsOK
    BY DEF Placed, Types
<1>2. PICK k : /\ call' = [call EXCEPT ![t] = k]
               /\ Becomes(call[t], k, b, w) /\ k.asked[b] = q
    BY <1>1, MoveAskingBecomes
<1>3. call'[t] = k
    BY <1>1, <1>2 DEF CallsOK
<1> QED
    BY <1>2, <1>3, BecomesMoves

\* What a coroutine learns of its cluster: nothing but perhaps its project,
\* all that there is, or that it is not available.
Learns(c, x, y, w, g, u) ==
    \/ /\ y.id = x.id /\ y.type = x.type /\ y.info = x.info
       /\ y.available = x.available /\ y.error = x.error
       /\ x.project # None => y.project # None
       /\ c.op = "connect" => w # "none"
    \/ /\ y.id /\ y.type /\ y.info /\ y.available /\ ~y.error
       /\ y.project # None
    \/ /\ ~y.available /\ y.error /\ y.type = x.type /\ y.id = x.id
       /\ <<g, u>> \in failed'

LEMMA FetchExplains ==
    ASSUME Placed, Explained, NEW t \in Callers, NEW b \in Names,
           call[t].at[b] \in Asking,
           NEW w, CoroutineMoves(t, b, w), NEW y,
           Learns(call[t], Known(call[t], b), y, w,
                  call[t].gen, Url(call[t], b)),
           resource'[call[t].gen].clusters[b] = y,
           \A g \in 1..generation : Grows(g),
           \A g \in 1..generation : \A a \in Clusters(g) :
               \/ g = call[t].gen /\ a = b
               \/ resource'[g].clusters[a] = resource[g].clusters[a],
           UNCHANGED <<world, generation>>, failed \subseteq failed'
    PROVE  Explained'
<1>1. PICK c : c = call[t]
    OBVIOUS
<1>2. /\ Fits(t, c) /\ CoroutineFits(t, c, b) /\ c.phase # "resolve"
      /\ c.gen \in 1..generation /\ b \in Clusters(c.gen)
      /\ c.at[b] # "list"
    BY <1>1, AskingCall
<1>3. ASSUME NEW g \in 1..generation, NEW a \in Clusters(g),
             ~(g = c.gen /\ a = b)
      PROVE  ClusterExplained(g, a)'
    <2>1. a \in Names /\ ClusterExplained(g, a)
        BY DEF Placed, Types, ResourcesOK, ResourceOK, Clusters, Explained
    <2>2. \A s \in Callers :
              /\ Listing(call[s], g, a) => Listing(call'[s], g, a)
              /\ Pending(call[s], g, a) => Pending(call'[s], g, a)
        BY <1>1, <1>3, <2>1 DEF Listing, Pending, CoroutineMoves
    <2>3. PICK x : x = resource[g].clusters[a]
        OBVIOUS
    <2>4. /\ x = resource'[g].clusters[a]
          /\ resource'[g].url[a] = resource[g].url[a]
        BY <1>1, <1>3, <2>3 DEF Grows
    <2> QED
        BY <2>1, <2>2, <2>3, <2>4, ClusterStays
<1>4. ASSUME NEW g, g = c.gen
      PROVE  ClusterExplained(g, b)'
    <2>1. g \in 1..generation /\ ClusterExplained(g, b)
        BY <1>2, <1>4 DEF Explained
    <2>2. PICK x : x = resource[g].clusters[b] /\ x = Known(c, b)
        BY <1>1, <1>4 DEF Known
    <2>3. /\ y = resource'[g].clusters[b]
          /\ resource'[g].url[b] = resource[g].url[b]
        BY <1>1, <1>4, <2>1 DEF Grows
    <2>4. \A s \in Callers : Listing(call[s], g, b) =>
              Listing(call'[s], g, b)
        BY <1>1, <1>2 DEF Listing, CoroutineMoves
    <2>5. CASE /\ y.id = x.id /\ y.type = x.type /\ y.info = x.info
               /\ y.available = x.available /\ y.error = x.error
               /\ x.project # None => y.project # None
               /\ c.op = "connect" => w # "none"
        <3>1. \A s \in Callers : Pending(call[s], g, b) =>
                  Pending(call'[s], g, b)
            BY <1>1, <2>5 DEF Pending, CoroutineMoves
        <3>2. y = x \/ /\ y.id = x.id /\ y.type = x.type /\ y.info = x.info
                       /\ y.available = x.available /\ y.error = x.error
                       /\ x.project # None => y.project # None
            BY <2>5
        <3>3. x = resource[g].clusters[b]
            BY <2>2
        <3> QED
            BY <2>1, <2>2, <2>3, <2>4, <3>1, <3>2, <3>3, ClusterStays
    <2>6. CASE /\ y.id /\ y.type /\ y.info /\ y.available /\ ~y.error
               /\ y.project # None
        BY <2>3, <2>6 DEF ClusterExplained
    <2>7. CASE /\ ~y.available /\ y.error /\ y.type = x.type
               /\ y.id = x.id /\ <<g, Url(c, b)>> \in failed'
        <3>1. Excused(g, b)'
            BY <1>4, <2>3, <2>7 DEF Excused, Url
        <3>2. x.type => x.id
            BY <2>1, <2>2 DEF ClusterExplained
        <3> QED
            BY <2>3, <2>7, <3>1, <3>2 DEF ClusterExplained
    <2> QED
        BY <1>1, <1>4, <2>2, <2>5, <2>6, <2>7 DEF Learns
<1>5. \A g \in 1..generation : Clusters(g)' = Clusters(g)
    BY DEF Grows, Clusters
<1>6. ASSUME NEW g \in 1..generation, NEW a \in Clusters(g)
      PROVE  ClusterExplained(g, a)'
    BY <1>3, <1>4
<1> QED
    BY <1>5, <1>6 DEF Explained

\* Putting what was learnt into the cluster of a coroutine.
LEMMA PutKnown ==
    ASSUME Placed, NEW t \in Callers, NEW b \in Names,
           call[t].at[b] \in Asking, NEW c, c = call[t],
           NEW x \in Facts, Put(c, b, x), UNCHANGED generation,
           Known(c, b).type => x.type,
           Known(c, b).project # None => x.project # None
    PROVE  /\ \A g \in 1..generation : Grows(g)
           /\ resource'[c.gen].clusters[b] = x
           /\ \A g \in 1..generation : \A a \in Clusters(g) :
                  \/ g = c.gen /\ a = b
                  \/ resource'[g].clusters[a] = resource[g].clusters[a]
<1>1. /\ c.gen \in 1..generation /\ b \in Clusters(c.gen)
      /\ generation \in Nat /\ generation \in 0..MaxConnects
      /\ ResourcesOK
    BY AskingCall DEF Placed, Types
<1> QED
    BY <1>1, PutGrows

LEMMA NothingPut ==
    ASSUME Placed, UNCHANGED <<resource, generation>>
    PROVE  /\ \A g \in 1..generation : Grows(g)
           /\ \A g \in 1..generation : \A a \in Clusters(g) :
                  resource'[g].clusters[a] = resource[g].clusters[a]
BY DEF Grows

LEMMA TakeLockExplains ==
    ASSUME Placed, Explained, NEW t \in Callers, NEW b \in Names,
           TakeLock(t, b)
    PROVE  Explained'
<1>1. PICK c : c = call[t]
    OBVIOUS
<1>2. PICK u : u = Url(c, b)
    OBVIOUS
<1>3. PICK cache : cache = ids[CacheOf(c)]
    OBVIOUS
<1>4. c.at[b] = "lock" /\ call[t].at[b] \in Asking
    BY <1>1 DEF TakeLock, Asking
<1>5. /\ Known(c, b) \in Facts /\ CacheOf(c) \in 0..MaxConnects
      /\ u \in Urls
    BY <1>1, <1>2, <1>4, AskingCall
<1>6. UNCHANGED <<world, generation>> /\ failed \subseteq failed'
    BY DEF TakeLock, client, ghosts
<1>7. CASE /\ u \in DOMAIN cache
           /\ Put(c, b, [Known(c, b) EXCEPT !.project = cache[u]])
           /\ Move(t, b, Proceed(c))
    <2>1. PICK x : x = [Known(c, b) EXCEPT !.project = cache[u]]
        OBVIOUS
    <2>2. cache[u] \in Projects /\ cache[u] # None
        <3>1. cache[u] \in Projects
            BY <1>3, <1>5, <1>7 DEF Placed, Types, IdsOK
        <3> QED
            BY <3>1, DiscoveryAssumption DEF Projects, Project
    <2>3. /\ x \in Facts /\ x.type = Known(c, b).type
          /\ x.project # None
          /\ x.id = Known(c, b).id /\ x.info = Known(c, b).info
          /\ x.available = Known(c, b).available
          /\ x.error = Known(c, b).error
        BY <1>5, <2>1, <2>2 DEF Facts
    <2>4. Put(c, b, x) /\ UNCHANGED generation
        BY <1>6, <1>7, <2>1
    <2>5. /\ \A g \in 1..generation : Grows(g)
          /\ resource'[c.gen].clusters[b] = x
          /\ \A g \in 1..generation : \A a \in Clusters(g) :
                 \/ g = c.gen /\ a = b
                 \/ resource'[g].clusters[a] = resource[g].clusters[a]
        BY <1>1, <1>4, <2>3, <2>4, PutKnown
    <2>6. PICK w : w = Proceed(c)
        OBVIOUS
    <2>7. w \in {"none", "lookup", "ask", "unsent"}
          /\ (c.op = "connect" => w # "none")
        BY <2>6, EnterFits DEF Proceed, Send
    <2>8. CoroutineMoves(t, b, w)
        <3>1. Move(t, b, w)
            BY <1>7, <2>6
        <3> QED
            BY <2>7, <3>1, MoveMoves
    <2>9. Learns(c, Known(c, b), x, w, c.gen, Url(c, b))
        BY <2>3, <2>7 DEF Learns
    <2> QED
        BY <1>1, <1>4, <1>6, <2>5, <2>8, <2>9, FetchExplains
<1>8. ASSUME NEW w, CoroutineMoves(t, b, w), w # "none",
             UNCHANGED resource
      PROVE  Explained'
    <2>1. PICK x : x = Known(c, b)
        OBVIOUS
    <2>2. Learns(c, Known(c, b), x, w, c.gen, Url(c, b))
        BY <1>8, <2>1 DEF Learns
    <2>3. /\ \A g \in 1..generation : Grows(g)
          /\ resource'[c.gen].clusters[b] = x
          /\ \A g \in 1..generation : \A a \in Clusters(g) :
                 \/ g = c.gen /\ a = b
                 \/ resource'[g].clusters[a] = resource[g].clusters[a]
        BY <1>6, <1>8, <2>1, NothingPut DEF Known
    <2> QED
        BY <1>1, <1>4, <1>6, <1>8, <2>2, <2>3, FetchExplains
<1>9. CASE Move(t, b, "unsent") /\ UNCHANGED resource
    <2>1. PICK w \in {"none", "lookup", "ask", "unsent"} : w = "unsent"
        OBVIOUS
    <2>2. Move(t, b, w)
        BY <1>9, <2>1
    <2> QED
        BY <1>8, <1>9, <2>1, <2>2, MoveMoves
<1>10. CASE /\ UNCHANGED resource
            /\ call' = [call EXCEPT ![t].at[b] = "lookup",
                   ![t].asked[b] = resource[IF c.via = "client"
                                            THEN generation ELSE c.gen].name]
    <2>1. PICK w \in {"none", "lookup", "ask", "unsent"} : w = "lookup"
        OBVIOUS
    <2>2. PICK q : q = resource[IF c.via = "client"
                                THEN generation ELSE c.gen].name
        OBVIOUS
    <2>3. q \in ResourceNames \cup {None}
        <3>1. /\ generation \in 1..generation /\ c.gen \in 1..generation
              /\ \A g \in 1..generation : ResourceOK(resource[g])
            BY <1>1, <1>4, AskingCall, PlacedCall
        <3> QED
            BY <2>2, <3>1 DEF ResourceOK
    <2>4. MovesAsking(t, b, w, q)
        BY <1>10, <2>1, <2>2 DEF MovesAsking
    <2> QED
        BY <1>8, <1>10, <2>1, <2>3, <2>4, MoveAskingMoves
<1> QED
    BY <1>1, <1>2, <1>3, <1>7, <1>9, <1>10 DEF TakeLock

LEMMA FindProjectExplains ==
    ASSUME Placed, Explained, NEW t \in Callers, NEW b \in Names,
           FindProject(t, b)
    PROVE  Explained'
<1>1. PICK c : c = call[t]
    OBVIOUS
<1>2. PICK p : p = Project(c.asked[b], Url(c, b))
    OBVIOUS
<1>3. c.at[b] = "lookup" /\ call[t].at[b] \in Asking
    BY <1>1 DEF FindProject, Asking
<1>4. Known(c, b) \in Facts /\ Url(c, b) \in Urls
      /\ CoroutineFits(t, c, b)
    BY <1>1, <1>3, AskingCall
<1>5. p \in Projects /\ p # None
    <2>1. c.asked[b] \in ResourceNames
        BY <1>3, <1>4 DEF CoroutineFits
    <2> QED
        BY <1>2, <1>4, <2>1, DiscoveryAssumption DEF Projects, Project
<1>6. PICK x : x = [Known(c, b) EXCEPT !.project = p]
    OBVIOUS
<1>7. /\ x \in Facts /\ x.type = Known(c, b).type
      /\ x.project # None
      /\ x.id = Known(c, b).id /\ x.info = Known(c, b).info
      /\ x.available = Known(c, b).available
      /\ x.error = Known(c, b).error
    BY <1>4, <1>5, <1>6 DEF Facts
<1>8. UNCHANGED <<world, generation>> /\ failed \subseteq failed'
    BY DEF FindProject, client
<1>9. Put(c, b, x)
    BY <1>1, <1>2, <1>6 DEF FindProject
<1>10. /\ \A g \in 1..generation : Grows(g)
       /\ resource'[c.gen].clusters[b] = x
       /\ \A g \in 1..generation : \A a \in Clusters(g) :
              \/ g = c.gen /\ a = b
              \/ resource'[g].clusters[a] = resource[g].clusters[a]
    BY <1>1, <1>3, <1>7, <1>8, <1>9, PutKnown
<1>11. PICK w : w = Proceed(c)
    OBVIOUS
<1>12. w \in {"none", "lookup", "ask", "unsent"}
       /\ (c.op = "connect" => w # "none")
    BY <1>11, EnterFits DEF Proceed, Send
<1>13. PICK q \in ResourceNames \cup {None} : q = None
    OBVIOUS
<1>14. MovesAsking(t, b, w, q)
    BY <1>1, <1>11, <1>13 DEF FindProject, MovesAsking
<1>15. CoroutineMoves(t, b, w)
    BY <1>12, <1>14, MoveAskingMoves
<1>16. Learns(c, Known(c, b), x, w, c.gen, Url(c, b))
    BY <1>7, <1>12 DEF Learns
<1> QED
    BY <1>1, <1>3, <1>8, <1>10, <1>15, <1>16, FetchExplains

LEMMA LearnMachineExplains ==
    ASSUME Placed, Explained, NEW t \in Callers, NEW b \in Names,
           LearnMachine(t, b)
    PROVE  Explained'
<1>1. PICK c : c = call[t]
    OBVIOUS
<1>2. c.at[b] = "ask" /\ call[t].at[b] \in Asking
    BY <1>1 DEF LearnMachine, Asking
<1>3. /\ Known(c, b) \in Facts /\ CoroutineFits(t, c, b)
      /\ c.gen \in 1..generation /\ b \in Clusters(c.gen)
    BY <1>1, <1>2, AskingCall
<1>4. Known(c, b).type /\ Known(c, b).project # None
    BY <1>2, <1>3 DEF CoroutineFits, Asking
<1>5. Known(c, b).id
    BY <1>3, <1>4 DEF Explained, ClusterExplained, Known
<1>6. PICK x : x = [Known(c, b) EXCEPT !.info = TRUE, !.available = TRUE,
                                       !.error = FALSE]
    OBVIOUS
<1>7. /\ x \in Facts /\ x.type /\ x.project # None /\ x.id /\ x.info
      /\ x.available /\ ~x.error
    BY <1>3, <1>4, <1>5, <1>6 DEF Facts
<1>8. UNCHANGED <<world, generation>> /\ failed \subseteq failed'
    BY DEF LearnMachine, client, ghosts
<1>9. Put(c, b, x)
    BY <1>1, <1>6 DEF LearnMachine
<1>10. /\ \A g \in 1..generation : Grows(g)
       /\ resource'[c.gen].clusters[b] = x
       /\ \A g \in 1..generation : \A a \in Clusters(g) :
              \/ g = c.gen /\ a = b
              \/ resource'[g].clusters[a] = resource[g].clusters[a]
    BY <1>1, <1>2, <1>7, <1>8, <1>9, PutKnown
<1>11. PICK w \in {"none", "lookup", "ask", "unsent"} : w = "none"
    OBVIOUS
<1>12. Move(t, b, w)
    BY <1>11 DEF LearnMachine
<1>13. CoroutineMoves(t, b, w)
    BY <1>12, MoveMoves
<1>14. Learns(c, Known(c, b), x, w, c.gen, Url(c, b))
    BY <1>7 DEF Learns
<1> QED
    BY <1>1, <1>2, <1>8, <1>10, <1>13, <1>14, FetchExplains

LEMMA MissExplains ==
    ASSUME Placed, Explained, NEW t \in Callers, NEW b \in Names,
           call[t].at[b] \in Asking, Miss(t, b),
           UNCHANGED <<world, client>>,
           failed' = failed \cup {<<call[t].gen, Url(call[t], b)>>}
    PROVE  Explained'
<1>1. PICK c : c = call[t]
    OBVIOUS
<1>2. Known(c, b) \in Facts
    BY <1>1, AskingCall
<1>3. /\ UNCHANGED <<world, generation>> /\ failed \subseteq failed'
      /\ <<c.gen, Url(c, b)>> \in failed'
    BY <1>1 DEF client
<1>4. CASE c.op = "submit"
    <2>1. call' = [call EXCEPT ![t] = Idle] /\ UNCHANGED resource
        BY <1>1, <1>4 DEF Miss
    <2>2. \A s \in Callers : call'[s] = call[s] \/ Uninvolved(call[s])
        BY <1>1, <1>4, <2>1 DEF Uninvolved, Placed, Types, CallsOK
    <2> QED
        BY <1>3, <2>1, <2>2, QuietExplains
<1>5. CASE c.op # "submit"
    <2>1. PICK x : x = Unavailable(Known(c, b))
        OBVIOUS
    <2>2. /\ x \in Facts /\ x.type = Known(c, b).type
          /\ x.project = Known(c, b).project /\ x.id = Known(c, b).id
          /\ ~x.available /\ x.error
        BY <1>2, <2>1 DEF Facts, Unavailable
    <2>3. Put(c, b, x)
        BY <1>1, <1>5, <2>1 DEF Miss
    <2>4. /\ \A g \in 1..generation : Grows(g)
          /\ resource'[c.gen].clusters[b] = x
          /\ \A g \in 1..generation : \A a \in Clusters(g) :
                 \/ g = c.gen /\ a = b
                 \/ resource'[g].clusters[a] = resource[g].clusters[a]
        BY <1>1, <1>3, <2>2, <2>3, PutKnown
    <2>5. PICK w \in {"none", "lookup", "ask", "unsent"} : w = "none"
        OBVIOUS
    <2>6. PICK q \in ResourceNames \cup {None} : q = None
        OBVIOUS
    <2>7. MovesAsking(t, b, w, q)
        BY <1>1, <1>5, <2>5, <2>6 DEF Miss, MovesAsking
    <2>8. CoroutineMoves(t, b, w)
        BY <2>7, MoveAskingMoves
    <2>9. Learns(c, Known(c, b), x, w, c.gen, Url(c, b))
        BY <1>3, <2>2 DEF Learns
    <2> QED
        BY <1>1, <1>3, <2>4, <2>8, <2>9, FetchExplains
<1> QED
    BY <1>4, <1>5

\* The other steps are of calls that do not resolve a resource, and learn
\* nothing of a cluster.
Quietly(t) ==
    /\ \E k : call' = [call EXCEPT ![t] = k] \/ UNCHANGED call
    /\ UNCHANGED <<world, resource, generation, failed>>

LEMMA QuietCallExplains ==
    ASSUME Placed, Explained, NEW t \in Callers, Uninvolved(call[t]),
           Quietly(t)
    PROVE  Explained'
<1>1. \A s \in Callers : call'[s] = call[s] \/ Uninvolved(call[s])
    BY DEF Quietly, Placed, Types, CallsOK
<1> QED
    BY <1>1, QuietExplains DEF Quietly

LEMMA StartExplains ==
    ASSUME Placed, Explained, NEW t \in Callers, Start(t)
    PROVE  Explained'
<1>1. call[t] = Idle /\ Quietly(t)
    <2>1. CASE Connect(t)
        <3>1. PICK k : k = [call[t] EXCEPT !.op = "connect",
                               !.phase = "token", !.gen = generation + 1,
                               !.epoch = closed]
            OBVIOUS
        <3>2. call' = [call EXCEPT ![t] = k]
            BY <2>1, <3>1 DEF Connect
        <3> QED
            BY <2>1, <3>2 DEF Quietly, Connect, client, knowledge, ghosts
    <2>2. ASSUME NEW via \in {"client", "view"}, Close(t, via)
          PROVE  call[t] = Idle /\ Quietly(t)
        BY <2>2 DEF Quietly, Close, Disconnect, client, knowledge, ghosts
    <2>3. ASSUME NEW via \in {"client", "view"}, RefreshAll(t, via)
          PROVE  call[t] = Idle /\ Quietly(t)
        BY <2>3 DEF Quietly, RefreshAll, Begins, client, knowledge, ghosts
    <2>4. ASSUME NEW via \in {"client", "view"}, NEW b \in Names,
                 Refresh(t, via, b) \/ Submit(t, via, b)
          PROVE  call[t] = Idle /\ Quietly(t)
        BY <2>4 DEF Quietly, Refresh, Submit, Begins, Fetching, client,
           knowledge, ghosts
    <2>5. ASSUME NEW op \in {"backend", "bind"}, NEW b \in Names,
                 Validate(t, op, b)
          PROVE  call[t] = Idle /\ Quietly(t)
        BY <2>5 DEF Quietly, Validate, Begins, Fetching, Settle, knowledge,
           ghosts
    <2> QED
        BY <2>1, <2>2, <2>3, <2>4, <2>5 DEF Start
<1>2. Uninvolved(call[t])
    BY <1>1 DEF Uninvolved, Idle
<1> QED
    BY <1>1, <1>2, QuietCallExplains

LEMMA OtherStepExplains ==
    ASSUME Placed, Explained, NEW t \in Callers,
           \/ Authenticate(t) \/ Refuse(t) \/ Connected(t)
           \/ Validated(t) \/ Finish(t)
    PROVE  Explained'
<1>1. Fits(t, call[t])
    BY DEF Placed, CallsFit
<1>2. Uninvolved(call[t])
    BY <1>1 DEF Authenticate, Refuse, Connected, Validated, Finish,
       Uninvolved, Fits, ConnectFits
<1>3. Quietly(t)
    <2>1. CASE Authenticate(t)
        <3>1. PICK k : k = [call[t] EXCEPT !.phase = "resource"]
            OBVIOUS
        <3>2. call' = [call EXCEPT ![t] = k]
            BY <2>1, <3>1 DEF Authenticate
        <3> QED
            BY <2>1, <3>2 DEF Quietly, Authenticate, client, knowledge, ghosts
    <2>2. CASE Refuse(t)
        BY <2>2 DEF Quietly, Refuse, Disconnect, knowledge, ghosts
    <2>3. CASE Connected(t)
        BY <2>3 DEF Quietly, Connected, knowledge, ghosts
    <2>4. CASE Validated(t)
        BY <2>4 DEF Quietly, Validated, Settle, knowledge
    <2>5. CASE Finish(t)
        BY <2>5 DEF Quietly, Finish, client, knowledge, ghosts
    <2> QED
        BY <2>1, <2>2, <2>3, <2>4, <2>5
<1> QED
    BY <1>2, <1>3, QuietCallExplains

LEMMA NextKeepsExplained ==
    Placed /\ Explained /\ [Next]_vars => Explained'
<1> SUFFICES ASSUME Placed, Explained, [Next]_vars PROVE Explained'
    OBVIOUS
<1>1. CASE Reassign \/ UNCHANGED vars
    <2>1. UNCHANGED <<world, resource, generation, failed, call>>
        BY <1>1 DEF Reassign, vars, client, knowledge, ghosts
    <2> QED
        BY <2>1, QuietExplains
<1>2. ASSUME NEW t \in Callers, Start(t)
      PROVE  Explained'
    BY <1>2, StartExplains
<1>3. ASSUME NEW t \in Callers, Step(t)
      PROVE  Explained'
    <2>1. CASE Authenticate(t) \/ Refuse(t) \/ Connected(t)
               \/ Validated(t) \/ Finish(t)
        BY <2>1, OtherStepExplains
    <2>2. CASE Authorize(t)
        BY <2>2, AuthorizeExplains
    <2>3. ASSUME NEW u \in Urls, Resolve(t, u) \/ FailToResolve(t, u)
          PROVE  Explained'
        BY <2>3, ResolveExplains, FailToResolveExplains
    <2>4. CASE Load(t)
        BY <2>4, LoadExplains
    <2>5. ASSUME NEW b \in Names, Fetch(t, b)
          PROVE  Explained'
        <3>1. CASE TakeLock(t, b)
            BY <3>1, TakeLockExplains
        <3>2. CASE FindProject(t, b)
            BY <3>2, FindProjectExplains
        <3>3. CASE LearnMachine(t, b)
            BY <3>3, LearnMachineExplains
        <3>4. CASE FailToFindProject(t, b) \/ FailToLearn(t, b)
            <4>1. /\ call[t].at[b] \in Asking /\ Miss(t, b)
                  /\ UNCHANGED <<world, client>>
                  /\ failed' = failed \cup
                         {<<call[t].gen, Url(call[t], b)>>}
                BY <3>4 DEF FailToFindProject, FailToLearn, Asking
            <4> QED
                BY <4>1, MissExplains
        <3> QED
            BY <2>5, <3>1, <3>2, <3>3, <3>4 DEF Fetch
    <2> QED
        BY <1>3, <2>1, <2>2, <2>3, <2>4, <2>5 DEF Step
<1> QED
    BY <1>1, <1>2, <1>3 DEF Next

LEMMA ExplainedAlways == Spec => [](Placed /\ Explained)
<1>1. Init => Explained
    BY DEF Init, Explained
<1>2. Explained /\ Placed /\ [Next]_vars => Explained'
    BY NextKeepsExplained
<1> QED
    BY <1>1, <1>2, PlacedAlways, PTL DEF Spec

\* With the connection open and no connect() under way, no cluster waits to
\* be listed or loaded.
LEMMA NothingIsPending ==
    ASSUME Complete, NEW g, NEW b
    PROVE  \A t \in Callers :
               ~Listing(call[t], g, b) /\ ~Pending(call[t], g, b)
BY DEF Complete, Connecting, Listing, Pending

\* A backend shown as available is resolved, its machine is known, and no
\* error of an earlier attempt is left; one that is not available says why,
\* however the refreshes, submissions and reconnects of all callers
\* interleave.
THEOREM AvailabilityIsAlwaysExplained == Spec => []AvailabilityIsExplained
<1>1. Placed /\ Explained => AvailabilityIsExplained
    <2> SUFFICES ASSUME Placed, Explained,
                        NEW g \in 1..generation, NEW b \in Clusters(g),
                        NEW x, x = resource[g].clusters[b]
                 PROVE  /\ x.available =>
                              x.id /\ x.type /\ x.info /\ ~x.error
                        /\ x.available => x.project # None
                        /\ Complete /\ ~x.available /\ ~x.error =>
                              x.type /\ ~x.info /\ World.lazy
        BY DEF AvailabilityIsExplained
    <2>1. ClusterExplained(g, b)
        BY DEF Explained
    <2>2. /\ x.available => /\ x.id /\ x.type /\ x.info /\ ~x.error
                            /\ x.project # None
          /\ x.info => x.available \/ x.error
          /\ \/ x.type \/ x.error
             \/ \E t \in Callers : Listing(call[t], g, b)
          /\ \/ x.available \/ World.lazy \/ x.error
             \/ \E t \in Callers : Pending(call[t], g, b)
        BY <2>1 DEF ClusterExplained
    <2> QED
        BY <2>2, NothingIsPending
<1> QED
    BY <1>1, ExplainedAlways, PTL

\* Unless machine info is loaded lazily, a backend of a connected client is
\* available but for a failure at its own HEAppE instance or a cluster that
\* HEAppE does not know: `_load_machine_info_all' lets no failure of one
\* instance keep the others from being loaded.
THEOREM FailuresAreAlwaysIsolated == Spec => []FailuresAreIsolated
<1>1. Placed /\ Explained => FailuresAreIsolated
    <2> SUFFICES ASSUME Placed, Explained, Complete, ~World.lazy,
                        NEW b \in Clusters(generation)
                 PROVE  \/ resource[generation].clusters[b].available
                        \/ Excused(generation, b)
        BY DEF FailuresAreIsolated, Excused
    <2>1. generation \in 1..generation
        BY DEF Placed, Types, ClientOK, ResourcesOK, NoResource, Clusters
    <2>2. ClusterExplained(generation, b)
        BY <2>1 DEF Explained
    <2> QED
        BY <2>2, NothingIsPending DEF ClusterExplained
<1> QED
    BY <1>1, ExplainedAlways, PTL

-----------------------------------------------------------------------------
(***************************************************************************)
(* How calls go on from step to step: what a coroutine asked for, and the  *)
(* connection that its call belongs to.                                    *)
(***************************************************************************)

\* A call that goes on and asks for no further project.
Goes(c, k) ==
    /\ k.op = c.op /\ k.via = c.via /\ k.gen = c.gen /\ k.epoch = c.epoch
    /\ \A b \in Names : Looks(k, b) => Looks(c, b) /\ k.asked[b] = c.asked[b]

\* A call that begins.
Begun(k) ==
    /\ \A b \in Names : ~Looks(k, b)
    /\ \/ /\ k.op = "connect" /\ k.via = "client" /\ ~authenticated
          /\ k.gen = generation + 1 /\ k.epoch = closed
       \/ /\ k.via = "client" /\ authenticated /\ ~Connecting
          /\ k.gen = generation /\ k.epoch = closed
       \/ /\ k.via = "view" /\ view # None
          /\ k.gen = view.gen /\ k.epoch = view.epoch

\* A call whose coroutine asks for a project that its cache does not have.
Asks(c, k, b) ==
    /\ Looks(k, b) /\ Url(c, b) \notin DOMAIN ids[CacheOf(c)]
    /\ k.asked[b] = resource[IF c.via = "client" THEN generation
                                                 ELSE c.gen].name
    /\ k.op = c.op /\ k.via = c.via /\ k.gen = c.gen /\ k.epoch = c.epoch
    /\ \A a \in Names \ {b} :
        Looks(k, a) => Looks(c, a) /\ k.asked[a] = c.asked[a]
    /\ UNCHANGED <<world, client, ids, lookups>>

Moved(c, k) ==
    k = Idle \/ Goes(c, k) \/ Begun(k) \/ \E b \in Names : Asks(c, k, b)

CallsMove == \A s \in Callers : Moved(call[s], call'[s])

\* The clusters of a resource and their instances never change.
SameResource(g) ==
    /\ resource'[g].name = resource[g].name
    /\ resource'[g].url = resource[g].url

LEMMA OneCallMoves ==
    ASSUME Placed, NEW t \in Callers, NEW k, Moved(call[t], k),
           call' = [call EXCEPT ![t] = k]
    PROVE  CallsMove
<1>1. \A s \in Callers : Goes(call[s], call[s])
    BY DEF Goes
<1> QED
    BY <1>1 DEF CallsMove, Moved, Placed, Types, CallsOK

LEMMA NoCallMoves ==
    ASSUME UNCHANGED call
    PROVE  CallsMove
BY DEF CallsMove, Moved, Goes

LEMMA FetchingMoves ==
    ASSUME Placed, NEW t \in Callers, NEW via \in {"client", "view"},
           NEW op \in {"backend", "bind", "refresh", "submit"},
           NEW b \in Names, Begins(t, via, b),
           op \in {"backend", "bind"} => via = "client",
           NEW c, c = Operation(t, via, op, b), Fetching(t, c),
           op # "submit" => Known(c, b).type
    PROVE  CallsMove
<1>1. /\ c \in CallOK /\ c.op = op /\ c.phase = "fetch" /\ c.via = via
      /\ c.backend = b /\ c.gen \in 1..generation /\ c.epoch <= closed
      /\ b \in Clusters(c.gen) /\ ~Connecting
      /\ c.gen = IF via = "client" THEN generation ELSE view.gen
      /\ c.epoch = IF via = "client" THEN closed ELSE view.epoch
      /\ \A a \in Names : c.at[a] = "none"
    BY OperationFits
<1>2. PICK k : k = [c EXCEPT !.at[c.backend] = Enter(c, c.backend)]
    OBVIOUS
<1>3. /\ k.via = c.via /\ k.gen = c.gen /\ k.epoch = c.epoch
      /\ \A a \in Names : ~Looks(k, a)
    BY <1>1, <1>2, FetchingFits
<1>4. call' = [call EXCEPT ![t] = k]
    BY <1>2 DEF Fetching
<1>5. Begun(k)
    BY <1>1, <1>3 DEF Begun, Begins
<1> QED
    BY <1>4, <1>5, OneCallMoves DEF Moved

LEMMA SettleMoves ==
    ASSUME Placed, NEW t \in Callers, NEW c \in CallOK, Settle(t, c),
           \A b \in Names : ~Looks(c, b), Goes(call[t], c) \/ Begun(c)
    PROVE  CallsMove
<1>1. CASE call' = [call EXCEPT ![t] = Idle]
    BY <1>1, OneCallMoves DEF Moved
<1>2. CASE call' = [call EXCEPT ![t] = [c EXCEPT !.phase = "meta"]]
    <2>1. PICK k : k = [c EXCEPT !.phase = "meta"]
        OBVIOUS
    <2>2. /\ k.op = c.op /\ k.gen = c.gen /\ k.via = c.via
          /\ k.epoch = c.epoch /\ k.at = c.at /\ k.asked = c.asked
          /\ call' = [call EXCEPT ![t] = k]
        BY <1>2, <2>1 DEF CallOK
    <2>3. Goes(call[t], k) \/ Begun(k)
        BY <2>2 DEF Goes, Begun, Looks
    <2> QED
        BY <2>2, <2>3, OneCallMoves DEF Moved
<1> QED
    BY <1>1, <1>2, Zenon DEF Settle

LEMMA StartMoves ==
    ASSUME Placed, NEW t \in Callers, Start(t)
    PROVE  CallsMove
<1>1. CASE Connect(t)
    <2>1. PICK k : k = [Idle EXCEPT !.op = "connect", !.phase = "token",
                           !.gen = generation + 1, !.epoch = closed]
        OBVIOUS
    <2>2. call' = [call EXCEPT ![t] = k]
        BY <1>1, <2>1 DEF Connect
    <2>3. Begun(k)
        BY <1>1, <2>1 DEF Begun, Idle, Looks, Connect
    <2> QED
        BY <2>2, <2>3, OneCallMoves DEF Moved
<1>2. ASSUME NEW via \in {"client", "view"}, Close(t, via)
      PROVE  CallsMove
    BY <1>2, NoCallMoves DEF Close
<1>3. ASSUME NEW via \in {"client", "view"}, RefreshAll(t, via)
      PROVE  CallsMove
    <2>1. PICK a \in Names : Begins(t, via, a)
        BY <1>3 DEF RefreshAll
    <2>2. PICK c : c = Operation(t, via, "refresh", None)
        OBVIOUS
    <2>3. PICK k : k = LoadAll(c)
        OBVIOUS
    <2>4. /\ c \in CallOK /\ c.op = "refresh" /\ c.via = via
          /\ c.gen \in 1..generation
          /\ c.epoch <= closed /\ ~Connecting
          /\ c.gen = IF via = "client" THEN generation ELSE view.gen
          /\ c.epoch = IF via = "client" THEN closed ELSE view.epoch
        BY <2>1, <2>2, OperationFits
    <2>5. /\ k.via = c.via /\ k.gen = c.gen /\ k.epoch = c.epoch
          /\ \A b \in Names : ~Looks(k, b)
        BY <2>3, <2>4, LoadAllFits
    <2>6. Begun(k)
        BY <2>1, <2>4, <2>5 DEF Begun, Begins
    <2>7. call' = [call EXCEPT ![t] = k]
        BY <1>3, <2>2, <2>3 DEF RefreshAll
    <2> QED
        BY <2>6, <2>7, OneCallMoves DEF Moved
<1>4. ASSUME NEW via \in {"client", "view"}, NEW b \in Names,
             Refresh(t, via, b) \/ Submit(t, via, b)
      PROVE  CallsMove
    BY <1>4, FetchingMoves DEF Refresh, Submit
<1>5. ASSUME NEW op \in {"backend", "bind"}, NEW b \in Names,
             Validate(t, op, b)
      PROVE  CallsMove
    <2>1. PICK c : c = Operation(t, "client", op, b)
        OBVIOUS
    <2>2. /\ Begins(t, "client", b)
          /\ \/ Known(c, b).info /\ Settle(t, c)
             \/ Known(c, b).type /\ Fetching(t, c)
        BY <1>5, <2>1 DEF Validate
    <2>3. /\ c \in CallOK /\ c.via = "client" /\ c.gen = generation
          /\ c.epoch = closed /\ ~Connecting
          /\ \A a \in Names : c.at[a] = "none"
        BY <2>1, <2>2, OperationFits
    <2>4. Begun(c)
        BY <2>2, <2>3 DEF Begun, Begins, Looks
    <2>5. \A a \in Names : ~Looks(c, a)
        BY <2>4 DEF Begun
    <2>6. CASE Settle(t, c)
        BY <2>3, <2>4, <2>5, <2>6, SettleMoves
    <2>7. CASE Known(c, b).type /\ Fetching(t, c)
        BY <2>1, <2>2, <2>7, FetchingMoves
    <2> QED
        BY <2>2, <2>6, <2>7
<1> QED
    BY <1>1, <1>2, <1>3, <1>4, <1>5 DEF Start

LEMMA AuthorizeMoves ==
    ASSUME Placed, NEW t \in Callers, Authorize(t)
    PROVE  CallsMove
<1>1. PICK i \in Choice :
        call' = [call EXCEPT ![t].phase = "resolve", ![t].at =
            [b \in Names |-> IF b \in DOMAIN InstanceOf(Lexis.resources[i])
                             THEN "list" ELSE "none"]]
    BY DEF Authorize
<1>2. PICK at : at =
        [b \in Names |-> IF b \in DOMAIN InstanceOf(Lexis.resources[i])
                         THEN "list" ELSE "none"]
    OBVIOUS
<1>3. PICK c : c = [call[t] EXCEPT !.phase = "resolve"]
    OBVIOUS
<1>4. PICK k : k = [c EXCEPT !.at = at]
    OBVIOUS
<1>5. call' = [call EXCEPT ![t] = k]
    BY <1>1, <1>2, <1>3, <1>4
<1>6. call[t] \in CallOK
    BY PlacedCall
<1>7. /\ k.op = call[t].op /\ k.via = call[t].via /\ k.gen = call[t].gen
      /\ k.epoch = call[t].epoch /\ k.at = at
    BY <1>3, <1>4, <1>6 DEF CallOK
<1>8. \A b \in Names : ~Looks(k, b)
    BY <1>2, <1>7 DEF Looks
<1>9. Goes(call[t], k)
    BY <1>7, <1>8 DEF Goes
<1> QED
    BY <1>5, <1>9, OneCallMoves DEF Moved

LEMMA AnswerMoves ==
    ASSUME Placed, NEW t \in Callers, NEW u,
           Resolve(t, u) \/ FailToResolve(t, u)
    PROVE  CallsMove
<1>1. PICK here : here = {b \in Names : call[t].at[b] = "list"
                                        /\ Url(call[t], b) = u}
    OBVIOUS
<1>2. PICK at : at =
        [b \in Names |-> IF b \in here THEN "none" ELSE call[t].at[b]]
    OBVIOUS
<1>3. PICK k : k = [call[t] EXCEPT !.at = at]
    OBVIOUS
<1>4. call' = [call EXCEPT ![t].at = at]
    BY <1>1, <1>2 DEF Resolve, FailToResolve, Answered
<1>5. call' = [call EXCEPT ![t] = k]
    BY <1>3, <1>4
<1>6. call[t] \in CallOK
    BY PlacedCall
<1>7. /\ k.op = call[t].op /\ k.via = call[t].via /\ k.gen = call[t].gen
      /\ k.epoch = call[t].epoch /\ k.at = at /\ k.asked = call[t].asked
    BY <1>3, <1>6 DEF CallOK
<1>8. Goes(call[t], k)
    BY <1>2, <1>7 DEF Goes, Looks
<1> QED
    BY <1>5, <1>8, OneCallMoves DEF Moved

LEMMA LoadMoves ==
    ASSUME Placed, NEW t \in Callers, Load(t)
    PROVE  CallsMove
<1>1. PICK c : c = call[t]
    OBVIOUS
<1>2. c \in CallOK /\ Fits(t, c)
    BY <1>1, PlacedCall
<1>3. c.phase = "resolve" /\ c.op = "connect"
    BY <1>1, <1>2 DEF Load, Fits, Idle
<1>4. ConnectFits(c) /\ c.gen \in 1..generation
    BY <1>2, <1>3 DEF Fits, ConnectFits
<1>5. CASE World.lazy
    <2>1. PICK k : k = [c EXCEPT !.phase = "fetch"]
        OBVIOUS
    <2>2. call' = [call EXCEPT ![t] = k]
        BY <1>1, <1>5, <2>1 DEF Load
    <2>3. Goes(c, k)
        BY <1>2, <2>1 DEF CallOK, Goes, Looks
    <2> QED
        BY <1>1, <2>2, <2>3, OneCallMoves DEF Moved
<1>6. CASE ~World.lazy
    <2>1. PICK k : k = LoadAll(c)
        OBVIOUS
    <2>2. call' = [call EXCEPT ![t] = k]
        BY <1>1, <1>6, <2>1 DEF Load
    <2>3. Goes(c, k)
        BY <1>2, <1>3, <1>4, <2>1, LoadAllFits DEF Goes
    <2> QED
        BY <1>1, <2>2, <2>3, OneCallMoves DEF Moved
<1> QED
    BY <1>5, <1>6

\* A coroutine that goes on without asking for a project.
LEMMA BecomesGoes ==
    ASSUME NEW c \in CallOK, NEW b \in Names, NEW k,
           NEW w \in {"none", "lookup", "ask", "unsent"},
           Becomes(c, k, b, w), w # "lookup"
    PROVE  Goes(c, k)
BY DEF CallOK, Becomes, Goes, Looks

LEMMA TakeLockMoves ==
    ASSUME Placed, NEW t \in Callers, NEW b \in Names, TakeLock(t, b)
    PROVE  CallsMove
<1>1. PICK c : c = call[t]
    OBVIOUS
<1>2. PICK u : u = Url(c, b)
    OBVIOUS
<1>3. PICK cache : cache = ids[CacheOf(c)]
    OBVIOUS
<1>4. c \in CallOK /\ CallsOK
    BY <1>1, PlacedCall DEF Placed, Types
<1>5. CASE \/ Move(t, b, Proceed(c))
           \/ Move(t, b, "unsent")
    <2>1. PICK w \in {"none", "lookup", "ask", "unsent"} :
              w # "lookup" /\ Move(t, b, w)
        <3>1. Proceed(c) \in {"none", "ask", "unsent"}
            BY EnterFits
        <3> QED
            BY <1>5, <3>1
    <2>2. Move(t, b, w)
        BY <2>1
    <2>3. PICK k : call' = [call EXCEPT ![t] = k] /\ Becomes(call[t], k, b, w)
        BY <1>4, <2>2, MoveBecomes
    <2>4. Goes(call[t], k)
        BY <1>1, <1>4, <2>1, <2>3, BecomesGoes
    <2> QED
        BY <2>3, <2>4, OneCallMoves DEF Moved
<1>6. CASE /\ u \notin DOMAIN cache
           /\ call' = [call EXCEPT ![t].at[b] = "lookup",
                  ![t].asked[b] = resource[IF c.via = "client"
                                           THEN generation ELSE c.gen].name]
    <2>1. PICK w \in {"none", "lookup", "ask", "unsent"} : w = "lookup"
        OBVIOUS
    <2>2. PICK q : q = resource[IF c.via = "client"
                                THEN generation ELSE c.gen].name
        OBVIOUS
    <2>3. q \in ResourceNames \cup {None}
        <3>1. c.at[b] = "lock" /\ call[t].at[b] \in Asking
            BY <1>1 DEF TakeLock, Asking
        <3>2. c.gen \in 1..generation /\ generation \in Nat
              /\ \A g \in 1..generation : ResourceOK(resource[g])
            BY <1>1, <3>1, AskingCall, PlacedCall
        <3>3. generation \in 1..generation
            BY <3>2
        <3> QED
            BY <2>2, <3>2, <3>3 DEF ResourceOK
    <2>4. MovesAsking(t, b, w, q)
        BY <1>6, <2>1, <2>2 DEF MovesAsking
    <2>5. PICK k : /\ call' = [call EXCEPT ![t] = k]
                   /\ Becomes(call[t], k, b, w) /\ k.asked[b] = q
        BY <1>4, <2>3, <2>4, MoveAskingBecomes
    <2>6. UNCHANGED <<world, client, ids, lookups>>
        BY DEF TakeLock, ghosts
    <2>7. /\ k.op = c.op /\ k.via = c.via /\ k.gen = c.gen
          /\ k.epoch = c.epoch /\ Looks(k, b)
          /\ \A a \in Names \ {b} :
                 Looks(k, a) => Looks(c, a) /\ k.asked[a] = c.asked[a]
        BY <1>1, <1>4, <2>1, <2>5 DEF CallOK, Becomes, Looks
    <2>8. Asks(c, k, b)
        BY <1>2, <1>3, <1>6, <2>2, <2>5, <2>6, <2>7 DEF Asks
    <2> QED
        BY <1>1, <2>5, <2>8, OneCallMoves DEF Moved
<1> QED
    BY <1>1, <1>2, <1>3, <1>5, <1>6 DEF TakeLock

LEMMA LookupMoves ==
    ASSUME Placed, NEW t \in Callers, NEW b \in Names,
           NEW w \in {"none", "lookup", "ask", "unsent"},
           NEW q \in ResourceNames \cup {None},
           MovesAsking(t, b, w, q), w # "lookup"
    PROVE  CallsMove
<1>1. CallsOK /\ call[t] \in CallOK
    BY PlacedCall DEF Placed, Types
<1>2. PICK k : call' = [call EXCEPT ![t] = k] /\ Becomes(call[t], k, b, w)
    BY <1>1, MoveAskingBecomes
<1>3. Goes(call[t], k)
    BY <1>1, <1>2, BecomesGoes
<1> QED
    BY <1>2, <1>3, OneCallMoves DEF Moved

LEMMA FetchMoves ==
    ASSUME Placed, NEW t \in Callers, NEW b \in Names, Fetch(t, b)
    PROVE  CallsMove
<1>1. PICK c : c = call[t]
    OBVIOUS
<1>2. CallsOK /\ c \in CallOK
    BY <1>1, PlacedCall DEF Placed, Types
<1>3. CASE TakeLock(t, b)
    BY <1>3, TakeLockMoves
<1>4. CASE FindProject(t, b)
    <2>1. PICK w \in {"none", "lookup", "ask", "unsent"} :
              w = Proceed(c) /\ w # "lookup"
        BY EnterFits
    <2>2. PICK q \in ResourceNames \cup {None} : q = None
        OBVIOUS
    <2>3. MovesAsking(t, b, w, q)
        BY <1>1, <1>4, <2>1, <2>2 DEF FindProject, MovesAsking
    <2> QED
        BY <2>1, <2>3, LookupMoves
<1>5. CASE LearnMachine(t, b)
    <2>1. PICK w \in {"none", "lookup", "ask", "unsent"} : w = "none"
        OBVIOUS
    <2>2. Move(t, b, w)
        BY <1>5, <2>1 DEF LearnMachine
    <2>3. PICK k : call' = [call EXCEPT ![t] = k] /\ Becomes(call[t], k, b, w)
        BY <1>2, <2>2, MoveBecomes
    <2>4. Goes(call[t], k)
        BY <1>1, <1>2, <2>1, <2>3, BecomesGoes
    <2> QED
        BY <2>3, <2>4, OneCallMoves DEF Moved
<1>6. CASE Miss(t, b)
    <2>1. CASE c.op = "submit"
        <3>1. call' = [call EXCEPT ![t] = Idle]
            BY <1>1, <1>6, <2>1 DEF Miss
        <3> QED
            BY <3>1, OneCallMoves DEF Moved
    <2>2. CASE c.op # "submit"
        <3>1. PICK w \in {"none", "lookup", "ask", "unsent"} : w = "none"
            OBVIOUS
        <3>2. PICK q \in ResourceNames \cup {None} : q = None
            OBVIOUS
        <3>3. MovesAsking(t, b, w, q)
            BY <1>1, <1>6, <2>2, <3>1, <3>2 DEF Miss, MovesAsking
        <3> QED
            BY <3>1, <3>3, LookupMoves
    <2> QED
        BY <2>1, <2>2
<1> QED
    BY <1>3, <1>4, <1>5, <1>6 DEF Fetch, FailToFindProject, FailToLearn

LEMMA EveryCallMoves ==
    ASSUME Placed, [Next]_vars
    PROVE  CallsMove
<1>1. CASE Reassign \/ UNCHANGED vars
    BY <1>1, NoCallMoves DEF Reassign, vars
<1>2. ASSUME NEW t \in Callers, Step(t)
      PROVE  CallsMove
    <2>1. PICK c : c = call[t]
        OBVIOUS
    <2>2. c \in CallOK
        BY <2>1, PlacedCall
    <2>3. CASE Authenticate(t)
        <3>1. PICK k : k = [c EXCEPT !.phase = "resource"]
            OBVIOUS
        <3>2. call' = [call EXCEPT ![t] = k]
            BY <2>1, <2>3, <3>1 DEF Authenticate
        <3>3. Goes(c, k)
            BY <2>2, <3>1 DEF CallOK, Goes, Looks
        <3> QED
            BY <2>1, <3>2, <3>3, OneCallMoves DEF Moved
    <2>4. CASE Refuse(t) \/ Connected(t) \/ Finish(t)
        <3>1. call' = [call EXCEPT ![t] = Idle]
            BY <2>4 DEF Refuse, Connected, Finish
        <3> QED
            BY <3>1, OneCallMoves DEF Moved
    <2>5. CASE Validated(t)
        <3>1. Settle(t, c) /\ \A b \in Names : ~Looks(c, b)
            BY <2>1, <2>5 DEF Validated, Waits, Looks
        <3>2. Goes(c, c)
            BY DEF Goes
        <3> QED
            BY <2>1, <2>2, <3>1, <3>2, SettleMoves
    <2> QED
        BY <1>2, <2>3, <2>4, <2>5, AuthorizeMoves, AnswerMoves, LoadMoves,
           FetchMoves DEF Step
<1> QED
    BY <1>1, <1>2, StartMoves DEF Next

LEMMA PutSame ==
    ASSUME Placed, NEW c, NEW b, NEW x, Put(c, b, x)
    PROVE  \A g \in 1..generation : SameResource(g)
<1> SUFFICES ASSUME NEW g \in 1..generation PROVE SameResource(g)
    OBVIOUS
<1>1. PICK f : f = [resource[c.gen].clusters EXCEPT ![b] = x]
    OBVIOUS
<1>2. resource' = [resource EXCEPT ![c.gen].clusters = f]
    BY <1>1 DEF Put
<1>3. ResourceOK(resource[g])
    BY DEF Placed, Types, ResourcesOK
<1> QED
    BY <1>2, <1>3 DEF SameResource, ResourceOK, Placed, Types, ResourcesOK

LEMMA EveryResourceStays ==
    ASSUME Placed, [Next]_vars
    PROVE  \A g \in 1..generation : SameResource(g)
<1>1. CASE UNCHANGED resource
    BY <1>1 DEF SameResource
<1>2. ASSUME NEW t \in Callers, Authorize(t)
      PROVE  \A g \in 1..generation : SameResource(g)
    <2>1. PICK r : resource' = [resource EXCEPT ![generation + 1] = r]
        BY <1>2 DEF Authorize
    <2>2. generation \in Nat /\ DOMAIN resource = 0..MaxConnects
        BY DiscoveryAssumption DEF Placed, Types, ClientOK, ResourcesOK
    <2>3. \A g \in 1..generation : g # generation + 1
        BY <2>2
    <2>4. \A g \in 1..generation : resource'[g] = resource[g]
        BY <2>1, <2>2, <2>3, DiscoveryAssumption
           DEF Placed, Types, ClientOK
    <2> QED
        BY <2>4 DEF SameResource
<1>3. ASSUME NEW t \in Callers, NEW u,
             Resolve(t, u) \/ FailToResolve(t, u)
      PROVE  \A g \in 1..generation : SameResource(g)
    <2>1. PICK f : resource' = [resource EXCEPT ![call[t].gen].clusters = f]
        BY <1>3 DEF Resolve, FailToResolve, Answered
    <2>2. \A g \in 1..generation : ResourceOK(resource[g])
        BY DEF Placed, Types, ResourcesOK
    <2> QED
        BY <2>1, <2>2 DEF SameResource, ResourceOK, Placed, Types,
           ResourcesOK
<1>4. ASSUME NEW t \in Callers, NEW b \in Names, Fetch(t, b)
      PROVE  \A g \in 1..generation : SameResource(g)
    <2>1. UNCHANGED resource \/ \E x : Put(call[t], b, x)
        BY <1>4, Zenon DEF Fetch, TakeLock, FindProject, FailToFindProject,
           LearnMachine, FailToLearn, Miss
    <2> QED
        BY <1>1, <2>1, PutSame
<1>5. ASSUME NEW t \in Callers, Start(t)
      PROVE  UNCHANGED resource
    BY <1>5 DEF Start, Connect, Close, RefreshAll, Refresh, Submit,
       Validate, knowledge
<1>6. ASSUME NEW t \in Callers,
             \/ Authenticate(t) \/ Refuse(t) \/ Load(t) \/ Connected(t)
             \/ Validated(t) \/ Finish(t)
      PROVE  UNCHANGED resource
    BY <1>6 DEF Authenticate, Refuse, Load, Connected, Validated, Finish,
       knowledge
<1>7. ASSUME NEW t \in Callers, Step(t)
      PROVE  \A g \in 1..generation : SameResource(g)
    BY <1>1, <1>2, <1>3, <1>4, <1>6, <1>7 DEF Step
<1>8. CASE Reassign \/ UNCHANGED vars
    BY <1>1, <1>8 DEF Reassign, vars, knowledge
<1> QED
    BY <1>1, <1>5, <1>7, <1>8 DEF Next

-----------------------------------------------------------------------------
(***************************************************************************)
(* How often a project is looked up.                                       *)
(***************************************************************************)

\* The coroutines that look a project up for a cache of ids.
Looking(c, b, d, u) == Looks(c, b) /\ Url(c, b) = u /\ CacheOf(c) = d

Askers(d, u) ==
    {p \in Callers \X Names : Looking(call[p[1]], p[2], d, u)}

LookupsOK ==
    /\ lookups \in [0..MaxConnects -> [Urls -> Nat]]
    /\ \A d \in 0..MaxConnects :
        /\ d > closed => DOMAIN ids[d] = {}
        /\ \A u \in Urls : /\ lookups[d][u] > 0 => u \in DOMAIN ids[d]
                           /\ lookups[d][u] + Cardinality(Askers(d, u))
                                <= Cardinality(Range(World.loop))

\* Coroutines that look the same project up hold the locks of different
\* loops.
Few ==
    \A d, u : /\ IsFiniteSet(Askers(d, u))
              /\ Cardinality(Askers(d, u)) \in Nat
              /\ Cardinality(Range(World.loop)) \in Nat
              /\ Cardinality(Askers(d, u)) <= Cardinality(Range(World.loop))

LEMMA AskersAreFew == Placed => Few
<1> SUFFICES ASSUME Placed, NEW d, NEW u
             PROVE  /\ IsFiniteSet(Askers(d, u))
                    /\ IsFiniteSet(Range(World.loop))
                    /\ Cardinality(Askers(d, u))
                            <= Cardinality(Range(World.loop))
    BY FS_CardinalityType DEF Few
<1>1. DOMAIN World.loop = Callers
    BY WorldIsTyped DEF Placed, Types, ClientOK
<1>2. IsFiniteSet(Callers) /\ IsFiniteSet(Names)
    BY DiscoveryAssumption
<1>3. IsFiniteSet(Range(World.loop))
    <2> DEFINE f == [t \in Callers |-> World.loop[t]]
    <2>1. f \in Surjection(Callers, Range(World.loop))
        BY <1>1 DEF Surjection, Range
    <2> QED
        BY <1>2, <2>1, FS_Surjection
<1>4. IsFiniteSet(Askers(d, u))
    <2>1. IsFiniteSet(Callers \X Names)
        BY <1>2, FS_Product
    <2>2. Askers(d, u) \in SUBSET (Callers \X Names)
        BY DEF Askers
    <2> QED
        BY <2>1, <2>2, FS_Subset
<1>5. Cardinality(Askers(d, u)) <= Cardinality(Range(World.loop))
    <2> DEFINE f == [p \in Askers(d, u) |-> World.loop[p[1]]]
    <2>1. \A p \in Askers(d, u) : f[p] \in Range(World.loop)
        BY <1>1 DEF Askers, Range
    <2>2. \A p, q \in Askers(d, u) : f[p] = f[q] => p = q
        BY DEF Askers, Looking, Looks, Placed, Owned
    <2>3. f \in Injection(Askers(d, u), Range(World.loop))
        BY <2>1, <2>2 DEF Injection, IsInjective
    <2> HIDE DEF f
    <2> QED
        BY <1>3, <2>3, FS_Injection
<1> QED
    BY <1>3, <1>4, <1>5

LEMMA AskersStayFew == Placed' => Few'
BY AskersAreFew, PTL

\* Nobody begins to look up what is known, or while an answer arrives.
LEMMA AskersFall ==
    ASSUME Placed, Placed', CallsMove, NEW d, NEW u, UNCHANGED world,
           \A g \in 1..generation : SameResource(g),
           generation \in Nat, closed \in Nat, closed' \in Nat, d \in Nat,
           closed' = closed \/ (d <= closed /\ closed <= closed'),
           u \in DOMAIN ids[d] \/ lookups' # lookups
    PROVE  Askers(d, u)' \subseteq Askers(d, u)
<1> SUFFICES ASSUME NEW s \in Callers, NEW b \in Names,
                    Looking(call[s], b, d, u)'
             PROVE  Looking(call[s], b, d, u)
    BY DEF Askers
<1>1. PICK c : c = call[s]
    OBVIOUS
<1>2. PICK k : k = call'[s]
    OBVIOUS
<1>3. Looks(k, b) /\ Url(k, b)' = u /\ CacheOf(k)' = d
    BY <1>2 DEF Looking, Looks
<1>4. Moved(c, k)
    BY <1>1, <1>2 DEF CallsMove
<1>5. k # Idle /\ ~Begun(k)
    BY <1>3, IdleFits DEF Begun
<1>6. CASE /\ k.via = c.via /\ k.gen = c.gen /\ k.epoch = c.epoch
           /\ Looks(c, b)
    <2>1. c.gen \in 1..generation
        BY <1>1, <1>6 DEF Placed, CallsFit, Fits, CoroutineFits, Looks
    <2>2. Url(c, b) = u
        BY <1>3, <1>6, <2>1 DEF SameResource, Url
    <2>3. CacheOf(c) = d
        BY <1>3, <1>6 DEF CacheOf
    <2> QED
        BY <1>1, <1>6, <2>2, <2>3 DEF Looking
<1>7. CASE Asks(c, k, b)
    <2>1. k.via = c.via /\ k.gen = c.gen /\ k.epoch = c.epoch
          /\ generation' = generation /\ closed' = closed
          /\ lookups' = lookups
          /\ Url(c, b) \notin DOMAIN ids[CacheOf(c)]
        BY <1>7 DEF Asks, client
    <2>2. k.gen \in 1..generation
        BY <1>2, <1>3, <2>1 DEF Placed, CallsFit, Fits, CoroutineFits, Looks
    <2>3. Url(c, b) = u
        BY <1>3, <2>1, <2>2 DEF SameResource, Url
    <2>4. CacheOf(c) = d
        BY <1>3, <2>1 DEF CacheOf
    <2> QED
        BY <2>1, <2>3, <2>4
<1> QED
    BY <1>3, <1>4, <1>5, <1>6, <1>7 DEF Moved, Goes, Asks

LEMMA LookupsStay ==
    ASSUME Placed, Placed', LookupsOK, CallsMove,
           \A g \in 1..generation : SameResource(g),
           UNCHANGED <<world, ids, lookups>>,
           closed' \in {closed, closed + 1}
    PROVE  LookupsOK'
<1>1. /\ generation \in Nat /\ closed \in Nat /\ closed' \in Nat
      /\ closed <= closed' /\ MaxConnects \in Nat
    BY DiscoveryAssumption DEF Placed, Types, ClientOK
<1>2. Range(World.loop)' = Range(World.loop)
    BY DEF World
<1>3. PICK n : n = Cardinality(Range(World.loop))
    OBVIOUS
<1>4. ASSUME NEW d \in 0..MaxConnects, NEW u \in Urls
      PROVE  lookups[d][u] + Cardinality(Askers(d, u)') <= n
    <2>1. /\ Cardinality(Askers(d, u)) \in Nat /\ n \in Nat
          /\ Cardinality(Askers(d, u)') \in Nat
          /\ IsFiniteSet(Askers(d, u))
          /\ Cardinality(Askers(d, u)') <= n
        <3>1. Cardinality(Range(World.loop)') = n
            BY <1>2, <1>3
        <3>2. /\ Cardinality(Askers(d, u)') \in Nat
              /\ Cardinality(Askers(d, u)') <= Cardinality(Range(World.loop)')
            BY AskersStayFew DEF Few
        <3> QED
            BY <1>3, <3>1, <3>2, AskersAreFew DEF Few
    <2>2. CASE lookups[d][u] = 0
        BY <2>1, <2>2
    <2>3. CASE lookups[d][u] # 0
        <3>1. lookups[d][u] \in Nat
            BY DEF LookupsOK
        <3>2. u \in DOMAIN ids[d] /\ d <= closed /\ d \in Nat
            BY <1>1, <2>3, <3>1 DEF LookupsOK
        <3>3. Askers(d, u)' \subseteq Askers(d, u)
            BY <1>1, <3>2, AskersFall
        <3>4. Cardinality(Askers(d, u)') <= Cardinality(Askers(d, u))
            BY <2>1, <3>3, FS_Subset
        <3>5. lookups[d][u] + Cardinality(Askers(d, u)) <= n
            BY <1>3 DEF LookupsOK
        <3> QED
            BY <2>1, <3>1, <3>4, <3>5
    <2> QED
        BY <2>2, <2>3
<1>5. \A d \in 0..MaxConnects : d > closed' => DOMAIN ids[d] = {}
    BY <1>1 DEF LookupsOK
<1> QED
    BY <1>2, <1>3, <1>4, <1>5 DEF LookupsOK

\* The project found is counted, and its lookup is over.
LEMMA FoundOnce ==
    ASSUME Placed, Placed', LookupsOK, CallsMove,
           \A g \in 1..generation : SameResource(g),
           NEW t \in Callers, NEW b \in Names, FindProject(t, b)
    PROVE  LookupsOK'
<1>1. PICK c : c = call[t]
    OBVIOUS
<1>2. PICK u : u = Url(c, b)
    OBVIOUS
<1>3. PICK now : now = CacheOf(c)
    OBVIOUS
<1>4. c.at[b] = "lookup" /\ call[t].at[b] \in Asking
    BY <1>1 DEF FindProject, Asking
<1>5. /\ u \in Urls /\ now \in 0..MaxConnects /\ c.epoch <= closed
      /\ c \in CallOK
    <2>1. /\ u \in Urls /\ now \in 0..MaxConnects /\ c \in CallOK
          /\ Fits(t, c) /\ c.op # "none"
        BY <1>1, <1>2, <1>3, <1>4, AskingCall
    <2>2. closed \in Nat
        BY DiscoveryAssumption DEF Placed, Types, ClientOK
    <2> QED
        BY <2>1, <2>2 DEF Fits, ConnectFits
<1>6. now <= closed
    BY <1>3, <1>5, DiscoveryAssumption DEF CacheOf, Placed, Types, ClientOK
<1>7. /\ UNCHANGED <<world, closed, generation>>
      /\ lookups' = [lookups EXCEPT ![now][u] = @ + 1]
      /\ ids' = [ids EXCEPT ![now] =
             [v \in DOMAIN @ \cup {u} |->
                 IF v = u THEN Project(c.asked[b], u) ELSE @[v]]]
    BY <1>1, <1>2, <1>3 DEF FindProject, client
<1>8. /\ lookups' \in [0..MaxConnects -> [Urls -> Nat]]
      /\ lookups'[now][u] = lookups[now][u] + 1
      /\ \A d \in 0..MaxConnects : \A v \in Urls :
            d # now \/ v # u => lookups'[d][v] = lookups[d][v]
    BY <1>5, <1>7 DEF LookupsOK
<1>9. /\ u \in DOMAIN ids'[now]
      /\ \A d \in 0..MaxConnects : DOMAIN ids[d] \subseteq DOMAIN ids'[d]
      /\ \A d \in 0..MaxConnects : d # now => ids'[d] = ids[d]
    BY <1>5, <1>7 DEF Placed, Types, IdsOK
<1>10. /\ generation \in Nat /\ closed \in Nat /\ closed' \in Nat
       /\ MaxConnects \in Nat
    BY DiscoveryAssumption DEF Placed, Types, ClientOK
<1>11. lookups' # lookups
    <2> SUFFICES ASSUME lookups' = lookups PROVE FALSE
        OBVIOUS
    <2>1. lookups[now][u] \in Nat
        BY <1>5 DEF LookupsOK
    <2>2. lookups[now][u] = lookups[now][u] + 1
        BY <1>8
    <2> QED
        BY <2>1, <2>2
<1>12. \A d \in 0..MaxConnects : \A v \in Urls :
           Askers(d, v)' \subseteq Askers(d, v)
    BY <1>7, <1>10, <1>11, AskersFall
<1>13. <<t, b>> \in Askers(now, u) /\ <<t, b>> \notin Askers(now, u)'
    <2>1. <<t, b>> \in Askers(now, u)
        BY <1>1, <1>2, <1>3, <1>4 DEF Askers, Looking, Looks
    <2>2. call'[t].at[b] = Proceed(c)
        <3>1. PICK w \in {"none", "lookup", "ask", "unsent"} :
                  w = Proceed(c)
            BY EnterFits
        <3>2. PICK q \in ResourceNames \cup {None} : q = None
            OBVIOUS
        <3>3. MovesAsking(t, b, w, q)
            BY <1>1, <3>1, <3>2 DEF FindProject, MovesAsking
        <3>4. CoroutineMoves(t, b, w)
            BY <3>3, MoveAskingMoves
        <3> QED
            BY <3>1, <3>4 DEF CoroutineMoves
    <2>3. Proceed(c) # "lookup"
        BY EnterFits
    <2> QED
        BY <2>1, <2>2, <2>3 DEF Askers, Looking, Looks
<1>14. PICK n : n = Cardinality(Range(World.loop))
    OBVIOUS
<1>15. n' = n /\ Cardinality(Range(World.loop)') = n
    BY <1>7, <1>14 DEF World
<1>16. ASSUME NEW d \in 0..MaxConnects, NEW v \in Urls
       PROVE  lookups'[d][v] + Cardinality(Askers(d, v)') <= n
    <2>1. /\ Cardinality(Askers(d, v)) \in Nat /\ n \in Nat
          /\ IsFiniteSet(Askers(d, v))
          /\ Cardinality(Askers(d, v)') \in Nat
        BY <1>14, AskersAreFew, AskersStayFew DEF Few
    <2>2. /\ lookups[d][v] \in Nat
          /\ lookups[d][v] + Cardinality(Askers(d, v)) <= n
        BY <1>14 DEF LookupsOK
    <2>3. CASE d # now \/ v # u
        <3>1. Cardinality(Askers(d, v)') <= Cardinality(Askers(d, v))
            BY <1>12, <2>1, FS_Subset
        <3> QED
            BY <1>8, <2>1, <2>2, <2>3, <3>1
    <2>4. CASE d = now /\ v = u
        <3>1. PICK p : p = <<t, b>>
            OBVIOUS
        <3>2. p \in Askers(d, v) /\ Askers(d, v)' \subseteq Askers(d, v) \ {p}
            BY <1>12, <1>13, <2>4, <3>1
        <3>3. /\ IsFiniteSet(Askers(d, v) \ {p})
              /\ Cardinality(Askers(d, v) \ {p})
                    = Cardinality(Askers(d, v)) - 1
            BY <2>1, <3>2, FS_RemoveElement
        <3>4. Cardinality(Askers(d, v)') <= Cardinality(Askers(d, v) \ {p})
            BY <3>2, <3>3, FS_Subset
        <3> QED
            BY <1>8, <2>1, <2>2, <2>4, <3>3, <3>4
    <2> QED
        BY <2>3, <2>4
<1>17. \A d \in 0..MaxConnects : d > closed' => DOMAIN ids'[d] = {}
    BY <1>5, <1>6, <1>7, <1>9, <1>10 DEF LookupsOK
<1>18. \A d \in 0..MaxConnects : \A v \in Urls :
           lookups'[d][v] > 0 => v \in DOMAIN ids'[d]
    BY <1>8, <1>9 DEF LookupsOK
<1> QED
    BY <1>8, <1>15, <1>16, <1>17, <1>18 DEF LookupsOK

LEMMA NextKeepsLookups ==
    Placed /\ LookupsOK /\ [Next]_vars => LookupsOK'
<1> SUFFICES ASSUME Placed, LookupsOK, [Next]_vars PROVE LookupsOK'
    OBVIOUS
<1>1. /\ Placed' /\ CallsMove
      /\ \A g \in 1..generation : SameResource(g)
    BY NextKeepsPlaced, EveryCallMoves, EveryResourceStays
<1>2. CASE \E t \in Callers, b \in Names : FindProject(t, b)
    BY <1>1, <1>2, FoundOnce
<1>3. CASE ~ \E t \in Callers, b \in Names : FindProject(t, b)
    <2>1. ASSUME NEW t \in Callers, Start(t)
          PROVE  /\ UNCHANGED <<world, ids, lookups>>
                 /\ closed' \in {closed, closed + 1}
        BY <2>1 DEF Start, Connect, Close, Disconnect, RefreshAll, Refresh,
           Submit, Validate, knowledge, client, ghosts
    <2>2. ASSUME NEW t \in Callers, Step(t)
          PROVE  /\ UNCHANGED <<world, ids, lookups>>
                 /\ closed' \in {closed, closed + 1}
        <3>1. CASE \/ Authenticate(t) \/ Authorize(t) \/ Refuse(t)
                   \/ Load(t) \/ Connected(t) \/ Validated(t) \/ Finish(t)
            BY <3>1 DEF Authenticate, Authorize, Refuse, Disconnect, Load,
               Connected, Validated, Finish, knowledge, client, ghosts
        <3>2. ASSUME NEW u \in Urls, Resolve(t, u) \/ FailToResolve(t, u)
              PROVE  UNCHANGED <<world, ids, lookups, closed>>
            BY <3>2 DEF Resolve, FailToResolve, client, ghosts
        <3>3. ASSUME NEW b \in Names, Fetch(t, b)
              PROVE  UNCHANGED <<world, ids, lookups, closed>>
            BY <1>3, <3>3 DEF Fetch, TakeLock, FailToFindProject,
               LearnMachine, FailToLearn, client, ghosts
        <3> QED
            BY <2>2, <3>1, <3>2, <3>3 DEF Step
    <2>3. ASSUME Reassign \/ UNCHANGED vars
          PROVE  UNCHANGED <<world, ids, lookups, closed>>
        BY <2>3 DEF Reassign, vars, client, knowledge, ghosts
    <2>4. /\ UNCHANGED <<world, ids, lookups>>
          /\ closed' \in {closed, closed + 1}
        BY <2>1, <2>2, <2>3 DEF Next
    <2> QED
        BY <1>1, <2>4, LookupsStay
<1> QED
    BY <1>2, <1>3

\* However many coroutines of however many callers need the project of an
\* instance at once: within a connection it is looked up once per event loop,
\* since the lock of `_project_id_for' is one of the loop and the instance,
\* and the cache is read again with the lock taken.
THEOREM ProjectIsAlwaysLookedUpOnce == Spec => []ProjectIsLookedUpOnce
<1>1. Init => LookupsOK
    <2> SUFFICES ASSUME Init PROVE LookupsOK
        OBVIOUS
    <2>1. \A d \in 0..MaxConnects :
              DOMAIN ids[d] = {} /\ \A u \in Urls : lookups[d][u] = 0
        BY DEF Init
    <2>2. \A d, u : Cardinality(Askers(d, u)) \in Nat
              /\ Cardinality(Askers(d, u)) <= Cardinality(Range(World.loop))
        BY InitIsPlaced, AskersAreFew DEF Few
    <2>3. lookups \in [0..MaxConnects -> [Urls -> Nat]]
        BY DEF Init
    <2>4. ASSUME NEW d \in 0..MaxConnects, NEW u \in Urls
          PROVE  /\ ~(lookups[d][u] > 0)
                 /\ lookups[d][u] + Cardinality(Askers(d, u))
                        <= Cardinality(Range(World.loop))
        <3>1. lookups[d][u] + Cardinality(Askers(d, u))
                  = Cardinality(Askers(d, u))
            BY <2>1, <2>2
        <3> QED
            BY <2>1, <2>2, <3>1
    <2> QED
        BY <2>1, <2>3, <2>4 DEF LookupsOK
<1>2. Placed /\ LookupsOK /\ [Next]_vars => LookupsOK'
    BY NextKeepsLookups
<1>3. LookupsOK => ProjectIsLookedUpOnce
    BY DEF LookupsOK, ProjectIsLookedUpOnce, Askers, Looking, Looks
<1> QED
    BY <1>1, <1>2, <1>3, PlacedAlways, PTL DEF Spec

-----------------------------------------------------------------------------
(***************************************************************************)
(* Which connection everything belongs to.  `e' gives, for every           *)
(* generation of the resource, how often the client had been closed when   *)
(* it was opened: the cache of ids that belongs to it.                     *)
(***************************************************************************)

\* A connect() that has not opened its resource yet.
Opening(c) == c.phase \in {"token", "resource"}

Opened == authenticated /\ \A t \in Callers : ~Opening(call[t])

InUse(e) ==
    /\ \A g, h \in 1..generation : g < h => e[g] < e[h]
    /\ Opened => generation \in 1..generation /\ e[generation] = closed
    /\ ~Opened => \A g \in 1..generation : e[g] < closed

Belongs(e, c) ==
    /\ c.op # "none" /\ c.gen \in 1..generation => e[c.gen] = c.epoch
    /\ \A b \in Names :
        Looks(c, b) /\ (c.via = "client" => c.epoch = closed) =>
            c.asked[b] = resource[c.gen].name

CallsBelong(e) == \A t \in Callers : Belongs(e, call[t])

CachesBelong(e) ==
    /\ \A d \in 0..MaxConnects :
        DOMAIN ids[d] # {} => \E g \in 1..generation : e[g] = d
    /\ \A g \in 1..generation : \A u \in DOMAIN ids[e[g]] :
        ids[e[g]][u] = Project(resource[g].name, u)

ViewBelongs(e) == view # None => e[view.gen] = view.epoch

SelectedBelongs(e) ==
    active # None => /\ generation \in 1..generation
                     /\ e[generation] = closed
                     /\ active \in Clusters(generation)

OwnProjects ==
    \A b \in Clusters(generation) :
        resource[generation].clusters[b].project \in
            {None, Project(resource[generation].name,
                           resource[generation].url[b])}

Linked(e) ==
    /\ InUse(e) /\ CallsBelong(e) /\ CachesBelong(e)
    /\ ViewBelongs(e) /\ SelectedBelongs(e) /\ OwnProjects

Linkage == outlived \/ \E e \in [1..generation -> 0..closed] : Linked(e)

LEMMA Numbers ==
    ASSUME Placed
    PROVE  /\ generation \in Nat /\ closed \in Nat /\ MaxConnects \in Nat
           /\ generation \in 0..MaxConnects /\ closed \in 0..MaxConnects
           /\ generation + 1 # generation
BY DiscoveryAssumption DEF Placed, Types, ClientOK

\* Only a connect() is in the phases before its resource is opened.
LEMMA OpeningCall ==
    ASSUME Placed, NEW t \in Callers
    PROVE  /\ Opening(call[t]) <=>
                 call[t].op = "connect" /\ call[t].gen = generation + 1
           /\ Opening(call[t]) => generation <= closed
           /\ Opening(call[t]) => \A b \in Names : call[t].at[b] = "none"
<1>1. Fits(t, call[t]) /\ call[t] \in CallOK
    BY PlacedCall
<1>2. generation + 1 # generation
    BY Numbers
<1> QED
    BY <1>1, <1>2 DEF Fits, ConnectFits, Opening, Idle

\* What belongs to the last close() belongs to the resource in use.
LEMMA CurrentGeneration ==
    ASSUME Placed, NEW e \in [1..generation -> 0..closed], InUse(e),
           NEW g \in 1..generation, e[g] = closed
    PROVE  g = generation /\ Opened
<1>1. generation \in Nat /\ closed \in Nat
    BY Numbers
<1>2. Opened
    BY <1>1 DEF InUse
<1>3. generation \in 1..generation /\ e[generation] = closed
    BY <1>2 DEF InUse
<1>4. ~(g < generation)
    BY <1>1, <1>3 DEF InUse
<1> QED
    BY <1>1, <1>2, <1>4

\* A client that may be used has opened its resource.
LEMMA OpenedIfUsed ==
    ASSUME Placed, authenticated, ~Connecting
    PROVE  Opened
BY OpeningCall DEF Opened, Connecting

LEMMA CallsStillBelong ==
    ASSUME Placed, Placed', CallsMove, NEW e \in [1..generation -> 0..closed],
           InUse(e), CallsBelong(e), ViewBelongs(e),
           \A g \in 1..generation : SameResource(g),
           UNCHANGED <<generation, closed>>
    PROVE  CallsBelong(e)'
<1> SUFFICES ASSUME NEW s \in Callers PROVE Belongs(e, call[s])'
    BY DEF CallsBelong
<1>1. PICK c : c = call[s]
    OBVIOUS
<1>2. PICK k : k = call'[s]
    OBVIOUS
<1>3. Belongs(e, c) /\ Moved(c, k)
    BY <1>1, <1>2 DEF CallsBelong, CallsMove
<1>4. /\ \A b \in Names : Looks(c, b) => c.gen \in 1..generation
      /\ \A b \in Names : Looks(k, b) =>
             k.gen \in 1..generation /\ k.op # "none"
    <2>1. Fits(s, c) /\ Fits(s, k)'
        BY <1>1, <1>2 DEF Placed, CallsFit
    <2>2. \A b \in Names : Looks(k, b) => k # Idle
        BY IdleFits
    <2> QED
        BY <2>1, <2>2 DEF Fits, CoroutineFits, Looks
<1>5. CASE k = Idle
    BY <1>2, <1>5, IdleFits DEF Belongs, Looks
<1>6. CASE Goes(c, k)
    BY <1>2, <1>3, <1>4, <1>6 DEF Goes, Belongs, SameResource, Looks
<1>7. CASE Begun(k)
    <2>1. k.op # "none" /\ k.gen \in 1..generation => e[k.gen] = k.epoch
        <3>1. generation \in Nat /\ generation + 1 \notin 1..generation
            BY Numbers
        <3>2. authenticated /\ ~Connecting => e[generation] = closed
            BY OpenedIfUsed DEF InUse
        <3> QED
            BY <1>7, <3>1, <3>2 DEF Begun, ViewBelongs
    <2> QED
        BY <1>2, <1>7, <2>1 DEF Begun, Belongs, Looks
<1>8. ASSUME NEW b \in Names, Asks(c, k, b)
      PROVE  Belongs(e, k)'
    <2>1. /\ k.op = c.op /\ k.via = c.via /\ k.gen = c.gen
          /\ k.epoch = c.epoch /\ c.gen \in 1..generation /\ c.op # "none"
          /\ e[c.gen] = c.epoch
        BY <1>3, <1>4, <1>8 DEF Asks, Belongs
    <2>2. k.via = "client" /\ k.epoch = closed => c.gen = generation
        BY <2>1, CurrentGeneration
    <2>3. (k.via = "client" => k.epoch = closed) =>
              k.asked[b] = resource[c.gen].name
        BY <1>8, <2>1, <2>2 DEF Asks
    <2>4. resource'[c.gen].name = resource[c.gen].name
        BY <2>1 DEF SameResource
    <2> QED
        BY <1>3, <1>8, <2>1, <2>3, <2>4 DEF Asks, Belongs, Looks
<1> QED
    BY <1>2, <1>3, <1>5, <1>6, <1>7, <1>8 DEF Moved

\* No other step than its own lets a connect() open its resource or give up.
LEMMA OpenedStays ==
    ASSUME Placed, Placed', CallsMove,
           UNCHANGED <<generation, authenticated>>,
           \A s \in Callers : Opening(call[s]) => call'[s] = call[s]
    PROVE  Opened' <=> Opened
<1> SUFFICES ASSUME authenticated, NEW s \in Callers, Opening(call'[s])
             PROVE  Opening(call[s])
    BY DEF Opened, Opening
<1>1. PICK c : c = call[s]
    OBVIOUS
<1>2. PICK k : k = call'[s]
    OBVIOUS
<1>3. k.op = "connect" /\ k.gen = generation + 1 /\ k.phase # "idle"
    <2>1. Fits(s, k)'
        BY <1>2 DEF Placed, CallsFit
    <2>2. generation + 1 # generation
        BY Numbers
    <2> QED
        BY <1>2, <2>1, <2>2 DEF Fits, ConnectFits, Opening, Idle
<1>4. Moved(c, k)
    BY <1>1, <1>2 DEF CallsMove
<1>5. c.op = k.op /\ c.gen = k.gen
    <2>1. k # Idle
        BY <1>3 DEF Idle
    <2>2. ~Begun(k)
        <3>1. view # None => view.gen \in 1..generation
            BY DEF Placed, Types, ClientOK
        <3>2. generation + 1 \notin 1..generation
              /\ generation + 1 # generation
            BY Numbers
        <3> QED
            BY <1>3, <3>1, <3>2 DEF Begun
    <2> QED
        BY <1>4, <2>1, <2>2 DEF Moved, Goes, Asks
<1> QED
    BY <1>1, <1>3, <1>5, OpeningCall

LEMMA LinkedStays ==
    ASSUME Placed, Placed', CallsMove, NEW e \in [1..generation -> 0..closed],
           Linked(e), \A g \in 1..generation : SameResource(g),
           UNCHANGED <<generation, closed, ids>>,
           Opened' <=> Opened,
           ViewBelongs(e)', SelectedBelongs(e)', OwnProjects'
    PROVE  Linked(e)'
<1>1. InUse(e)'
    BY DEF Linked, InUse
<1>2. CallsBelong(e)'
    BY CallsStillBelong DEF Linked
<1>3. CachesBelong(e)'
    BY DEF Linked, CachesBelong, SameResource
<1> QED
    BY <1>1, <1>2, <1>3 DEF Linked

\* Projects of the resource in use that are its own, or not known.
LEMMA ProjectsStay ==
    ASSUME Placed, Placed', OwnProjects, UNCHANGED generation,
           \A g \in 1..generation : SameResource(g),
           \A b \in Clusters(generation) :
               resource'[generation].clusters[b].project \in
                   {resource[generation].clusters[b].project, None,
                    Project(resource[generation].name,
                            resource[generation].url[b])}
    PROVE  OwnProjects'
<1>1. CASE generation = 0
    BY <1>1 DEF Placed, Types, ResourcesOK, NoResource, OwnProjects, Clusters
<1>2. CASE generation # 0
    <2>1. SameResource(generation)
        BY <1>2, Numbers
    <2> QED
        BY <2>1 DEF OwnProjects, SameResource, Clusters
<1> QED
    BY <1>1, <1>2

LEMMA SelectionStays ==
    ASSUME NEW e, SelectedBelongs(e), UNCHANGED <<active, generation, closed>>,
           \A g \in 1..generation : SameResource(g)
    PROVE  SelectedBelongs(e)'
BY DEF SelectedBelongs, SameResource, Clusters

\* A step that learns nothing, selects nothing, and opens or closes nothing.
LEMMA LinkedIfSame ==
    ASSUME Placed, Placed', CallsMove, NEW e \in [1..generation -> 0..closed],
           Linked(e), \A g \in 1..generation : SameResource(g),
           UNCHANGED <<generation, closed, ids, active, resource>>,
           view' \in {view, None}, Opened' <=> Opened
    PROVE  Linked(e)'
<1>1. ViewBelongs(e)'
    BY DEF Linked, ViewBelongs
<1>2. SelectedBelongs(e)'
    BY SelectionStays DEF Linked
<1>3. OwnProjects'
    BY DEF Linked, OwnProjects, Clusters
<1> QED
    BY <1>1, <1>2, <1>3, LinkedStays

\* close() of the client, or a connect() that is refused.
LEMMA DisconnectLinks ==
    ASSUME Placed, Placed', NEW e \in [1..generation -> 0..closed], Linked(e),
           Disconnect, UNCHANGED <<ids, resource, view>>,
           \A s \in Callers : call'[s] \in {call[s], Idle}
    PROVE  e \in [1..generation' -> 0..closed'] /\ Linked(e)'
<1>1. /\ closed' = closed + 1 /\ generation' = generation
      /\ authenticated' = FALSE /\ active' = None
    BY DEF Disconnect
<1>2. generation \in Nat /\ closed \in Nat
    BY Numbers
<1>3. e \in [1..generation' -> 0..closed']
    BY <1>1, <1>2
<1>4. \A g \in 1..generation : e[g] < closed'
    BY <1>1, <1>2
<1>5. InUse(e)'
    BY <1>1, <1>4 DEF Linked, InUse, Opened
<1>6. CallsBelong(e)'
    <2> SUFFICES ASSUME NEW s \in Callers PROVE Belongs(e, call[s])'
        BY DEF CallsBelong
    <2>1. CASE call'[s] = Idle
        BY <2>1, IdleFits DEF Belongs, Looks
    <2>2. CASE call'[s] = call[s]
        <3>1. PICK c : c = call[s]
            OBVIOUS
        <3>2. Belongs(e, c) /\ c \in CallOK /\ Fits(s, c)
            BY <3>1, PlacedCall DEF Linked, CallsBelong
        <3>3. \A b \in Names : Looks(c, b) => c.epoch <= closed
            BY <1>2, <3>2, IdleFits DEF Fits, ConnectFits, Looks, CallOK
        <3>4. \A b \in Names : Looks(c, b) => c.epoch # closed'
            BY <1>1, <1>2, <3>2, <3>3 DEF CallOK
        <3>5. Belongs(e, c)'
            BY <1>1, <3>2, <3>4 DEF Belongs
        <3> QED
            BY <2>2, <3>1, <3>5
    <2> QED
        BY <2>1, <2>2
<1>7. CachesBelong(e)'
    BY <1>1 DEF Linked, CachesBelong
<1>8. ViewBelongs(e)' /\ SelectedBelongs(e)' /\ OwnProjects'
    BY <1>1 DEF Linked, ViewBelongs, SelectedBelongs, OwnProjects, Clusters
<1> QED
    BY <1>3, <1>5, <1>6, <1>7, <1>8 DEF Linked

\* A new resource, with a cache of its own.
LEMMA AuthorizeLinks ==
    ASSUME Placed, Placed', CallsMove, NEW t \in Callers, Authorize(t),
           NEW e \in [1..generation -> 0..closed], Linked(e),
           \A g \in 1..generation : SameResource(g)
    PROVE  \E f \in [1..generation' -> 0..closed'] : Linked(f)'
<1>1. PICK n : n = generation + 1
    OBVIOUS
<1>2. /\ generation' = n /\ closed' = closed
      /\ UNCHANGED <<authenticated, active, ids, view>>
      /\ Opening(call[t])
    BY <1>1 DEF Authorize, Opening
<1>3. /\ generation \in Nat /\ closed \in Nat /\ n \in Nat
      /\ n \notin 1..generation /\ n \in 1..n
      /\ \A g \in 1..n : g # n => g \in 1..generation
      /\ \A g \in 1..generation : g \in 1..n /\ g < n
    BY <1>1, Numbers
<1>4. PICK f : f = [g \in 1..n |-> IF g = n THEN closed ELSE e[g]]
    OBVIOUS
<1>5. /\ f \in [1..generation' -> 0..closed'] /\ f[n] = closed
      /\ \A g \in 1..generation : f[g] = e[g]
    BY <1>2, <1>3, <1>4
<1>6. ~Opened /\ \A g \in 1..generation : e[g] < closed
    BY <1>2 DEF Opened, Linked, InUse
<1>7. /\ call[t].op = "connect" /\ call[t].gen = n
      /\ call[t].epoch = closed /\ authenticated
    BY <1>1, <1>2, OpeningCall DEF Placed, CallsFit, Fits, ConnectFits,
       Authorize
<1>8. /\ call'[t].op = "connect" /\ call'[t].gen = n
      /\ call'[t].epoch = closed
      /\ call'[t].phase = "resolve"
      /\ \A b \in Names : ~Looks(call'[t], b)
    <2>1. PICK i \in Choice :
            call' = [call EXCEPT ![t].phase = "resolve", ![t].at =
                [b \in Names |->
                    IF b \in DOMAIN InstanceOf(Lexis.resources[i])
                    THEN "list" ELSE "none"]]
        BY DEF Authorize
    <2>2. call[t] \in CallOK /\ CallsOK
        BY PlacedCall DEF Placed, Types
    <2>3. /\ call'[t].op = call[t].op /\ call'[t].gen = call[t].gen
          /\ call'[t].epoch = call[t].epoch
          /\ call'[t].phase = "resolve"
          /\ call'[t].at = [b \in Names |->
                    IF b \in DOMAIN InstanceOf(Lexis.resources[i])
                    THEN "list" ELSE "none"]
        BY <2>1, <2>2 DEF CallsOK, CallOK
    <2> QED
        BY <1>7, <2>3 DEF Looks
<1>9. \A s \in Callers \ {t} :
          /\ call'[s] = call[s] /\ call[s].op # "connect"
          /\ ~Opening(call[s])
    BY <1>7, OpeningCall DEF Authorize, Placed, Types, CallsOK, Alone
<1>10. Opened'
    BY <1>2, <1>7, <1>8, <1>9 DEF Opened, Opening
<1>11. InUse(f)'
    BY SMTT(30), <1>2, <1>3, <1>5, <1>6, <1>10 DEF Linked, InUse
<1>12. CallsBelong(f)'
    <2> SUFFICES ASSUME NEW s \in Callers PROVE Belongs(f, call[s])'
        BY DEF CallsBelong
    <2>1. CASE s = t
        BY <1>5, <1>8, <2>1 DEF Belongs
    <2>2. CASE s # t
        <3>1. PICK c : c = call[s]
            OBVIOUS
        <3>2. Belongs(e, c) /\ c.op # "connect" /\ call'[s] = c
              /\ Fits(s, c)
            BY <1>9, <2>2, <3>1, PlacedCall DEF Linked, CallsBelong
        <3>3. c.op # "none" => c.gen \in 1..generation
            BY <3>2 DEF Fits
        <3>4. \A b \in Names : Looks(c, b) => c.gen \in 1..generation
            BY <3>2 DEF Fits, CoroutineFits, Looks
        <3>5. Belongs(f, c)'
            BY <1>2, <1>5, <3>2, <3>3, <3>4 DEF Belongs, SameResource
        <3> QED
            BY <3>2, <3>5
    <2> QED
        BY <2>1, <2>2
<1>13. CachesBelong(f)'
    <2>1. DOMAIN ids[closed] = {}
        <3>1. closed \in 0..MaxConnects
            BY Numbers
        <3> QED
            BY <1>3, <1>6, <3>1 DEF Linked, CachesBelong
    <2>2. \A d \in 0..MaxConnects :
              DOMAIN ids[d] # {} => \E g \in 1..n : f[g] = d
        BY <1>3, <1>5 DEF Linked, CachesBelong
    <2>3. ASSUME NEW g \in 1..n, NEW u \in DOMAIN ids[f[g]]
          PROVE  ids[f[g]][u] = Project(resource'[g].name, u)
        <3>1. g # n
            BY <1>5, <2>1, <2>3
        <3>2. g \in 1..generation /\ f[g] = e[g]
            BY <1>3, <1>5, <3>1
        <3> QED
            BY <2>3, <3>2 DEF Linked, CachesBelong, SameResource
    <2> QED
        BY <1>2, <2>2, <2>3 DEF CachesBelong
<1>14. ViewBelongs(f)'
    BY <1>2, <1>5 DEF Linked, ViewBelongs, Placed, Types, ClientOK
<1>15. SelectedBelongs(f)'
    BY <1>2, <1>3, <1>6 DEF Linked, SelectedBelongs
<1>16. OwnProjects'
    <2>1. PICK r, url : resource'[n] = [name |-> r, url |-> url,
                            clusters |-> [b \in DOMAIN url |-> Cluster]]
        <3>1. n \in DOMAIN resource
            BY <1>2 DEF Placed, Types, ClientOK, ResourcesOK
        <3>2. PICK i \in Choice : resource' = [resource EXCEPT ![n] =
                [name |-> Lexis.resources[i].name,
                 url |-> InstanceOf(Lexis.resources[i]),
                 clusters |-> [b \in DOMAIN InstanceOf(Lexis.resources[i])
                                  |-> Cluster]]]
            BY <1>1 DEF Authorize
        <3> QED
            BY <3>1, <3>2
    <2> QED
        BY <1>2, <2>1 DEF OwnProjects, Clusters, Cluster
<1>17. Linked(f)'
    BY <1>11, <1>12, <1>13, <1>14, <1>15, <1>16 DEF Linked
<1> QED
    BY <1>5, <1>17

LEMMA OpenedIfOther ==
    ASSUME Placed, Placed', CallsMove, NEW t \in Callers, ~Opening(call[t]),
           \A s \in Callers \ {t} : call'[s] = call[s],
           UNCHANGED <<generation, authenticated>>
    PROVE  Opened' <=> Opened
BY OpenedStays

\* What a validation selects or binds is of the resource in use.
LEMMA SettleLinks ==
    ASSUME Placed, Placed', CallsMove, NEW e \in [1..generation -> 0..closed],
           Linked(e), \A g \in 1..generation : SameResource(g),
           NEW t \in Callers, NEW c, Settle(t, c), c.epoch = closed,
           c.gen \in 1..generation, e[c.gen] = closed,
           c.backend \in Clusters(c.gen),
           UNCHANGED <<generation, closed, ids, resource>>,
           Opened' <=> Opened
    PROVE  Linked(e)'
<1>1. c.gen = generation
    BY CurrentGeneration DEF Linked
<1>2. active' = c.backend \/ UNCHANGED active
    BY DEF Settle
<1>3. SelectedBelongs(e)'
    <2>1. CASE UNCHANGED active
        BY <2>1, SelectionStays DEF Linked
    <2>2. CASE active' = c.backend
        BY <1>1, <2>2 DEF SelectedBelongs, Clusters
    <2> QED
        BY <1>2, <2>1, <2>2
<1>4. \/ UNCHANGED view
      \/ view' = [backend |-> c.backend, gen |-> generation,
                  epoch |-> closed]
    <2>1. PICK m : m = IF Send(c, "any") = "unsent" THEN c.epoch ELSE closed
        OBVIOUS
    <2>2. m = closed
        BY <2>1
    <2>3. \/ UNCHANGED view
          \/ view' = [backend |-> c.backend, gen |-> generation,
                      epoch |-> m]
        BY <2>1, Zenon DEF Settle
    <2> QED
        BY <2>2, <2>3
<1>5. ViewBelongs(e)'
    BY <1>1, <1>4 DEF Linked, ViewBelongs
<1>6. OwnProjects'
    BY DEF Linked, OwnProjects, Clusters
<1> QED
    BY <1>3, <1>5, <1>6, LinkedStays

LEMMA ValidateLinks ==
    ASSUME Placed, Placed', CallsMove, NEW e \in [1..generation -> 0..closed],
           Linked(e), \A g \in 1..generation : SameResource(g),
           NEW t \in Callers, NEW op \in {"backend", "bind"}, NEW b \in Names,
           Validate(t, op, b)
    PROVE  Linked(e)'
<1>1. PICK c : c = Operation(t, "client", op, b)
    OBVIOUS
<1>2. /\ Begins(t, "client", b)
      /\ \/ Settle(t, c)
         \/ Fetching(t, c) /\ UNCHANGED <<active, view>>
      /\ UNCHANGED <<authenticated, generation, closed, ids, resource>>
    BY <1>1 DEF Validate, knowledge
<1>3. /\ c.gen = generation /\ c.epoch = closed /\ c.backend = b
      /\ c.gen \in 1..generation /\ b \in Clusters(c.gen) /\ ~Connecting
    BY <1>1, <1>2, OperationFits
<1>4. \A s \in Callers \ {t} : call'[s] = call[s]
    BY <1>2 DEF Settle, Fetching, Placed, Types, CallsOK
<1>5. Opened /\ ~Opening(call[t]) /\ e[generation] = closed
    BY <1>2, <1>3, OpenedIfUsed DEF Begins, Linked, InUse, Opened
<1>6. Opened' <=> Opened
    BY <1>2, <1>4, <1>5, OpenedIfOther
<1>7. CASE Settle(t, c)
    BY <1>2, <1>3, <1>5, <1>6, <1>7, SettleLinks
<1>8. CASE UNCHANGED <<active, view>>
    BY <1>2, <1>6, <1>8, LinkedIfSame
<1> QED
    BY <1>2, <1>7, <1>8

LEMMA ValidatedLinks ==
    ASSUME Placed, Placed', CallsMove, NEW e \in [1..generation -> 0..closed],
           Linked(e), \A g \in 1..generation : SameResource(g),
           NEW t \in Callers, Validated(t), ~outlived'
    PROVE  Linked(e)'
<1>1. PICK c : c = call[t]
    OBVIOUS
<1>2. /\ c.op \in {"backend", "bind"} /\ Settle(t, c)
      /\ UNCHANGED <<authenticated, generation, closed, ids, resource>>
      /\ c.epoch = closed /\ ~Opening(c)
    BY <1>1 DEF Validated, Outlives, knowledge, Opening
<1>3. c.gen \in 1..generation /\ c.backend \in Clusters(c.gen)
    BY <1>1, <1>2, PlacedCall DEF Fits
<1>4. e[c.gen] = closed
    BY <1>1, <1>2, <1>3 DEF Linked, CallsBelong, Belongs
<1>5. \A s \in Callers \ {t} : call'[s] = call[s]
    BY <1>2 DEF Settle, Placed, Types, CallsOK
<1>6. Opened' <=> Opened
    BY <1>1, <1>2, <1>5, OpenedIfOther
<1> QED
    BY <1>2, <1>3, <1>4, <1>6, SettleLinks

LEMMA ConnectedLinks ==
    ASSUME Placed, Placed', CallsMove, NEW e \in [1..generation -> 0..closed],
           Linked(e), \A g \in 1..generation : SameResource(g),
           NEW t \in Callers, Connected(t)
    PROVE  Linked(e)'
<1>1. PICK c : c = call[t]
    OBVIOUS
<1>2. /\ c.op = "connect" /\ c.phase = "fetch"
      /\ UNCHANGED <<authenticated, generation, closed, ids, resource, view>>
      /\ active' = IF Cardinality(Clusters(generation)) = 1
                   THEN CHOOSE b \in Clusters(generation) : TRUE ELSE active
      /\ \A s \in Callers \ {t} : call'[s] = call[s]
    BY <1>1 DEF Connected, knowledge, Placed, Types, CallsOK
<1>3. c.gen = generation /\ c.gen \in 1..generation /\ c.epoch = closed
    BY <1>1, <1>2, PlacedCall DEF Fits, ConnectFits
<1>4. e[generation] = closed
    BY <1>1, <1>2, <1>3 DEF Linked, CallsBelong, Belongs
<1>5. Opened' <=> Opened
    BY <1>1, <1>2, OpenedIfOther DEF Opening
<1>6. SelectedBelongs(e)'
    <2>1. CASE UNCHANGED active
        BY <1>2, <2>1, SelectionStays DEF Linked
    <2>2. CASE ~UNCHANGED active
        <3>1. Cardinality(Clusters(generation)) = 1
            BY <1>2, <2>2
        <3>2. Clusters(generation) # {}
            <4> SUFFICES ASSUME Clusters(generation) = {} PROVE FALSE
                OBVIOUS
            <4>1. Cardinality(Clusters(generation)) = Cardinality({})
                OBVIOUS
            <4>2. Cardinality({}) = 0
                BY FS_EmptySet
            <4> QED
                BY <3>1, <4>1, <4>2
        <3>3. active' \in Clusters(generation)
            BY <1>2, <3>1, <3>2
        <3> QED
            BY <1>2, <1>3, <1>4, <3>3 DEF SelectedBelongs, Clusters
    <2> QED
        BY <2>1, <2>2
<1>7. ViewBelongs(e)' /\ OwnProjects'
    BY <1>2 DEF Linked, ViewBelongs, OwnProjects, Clusters
<1> QED
    BY <1>2, <1>5, <1>6, <1>7, LinkedStays

\* A step that learns something of clusters.
LEMMA LearningLinks ==
    ASSUME Placed, Placed', CallsMove, NEW e \in [1..generation -> 0..closed],
           Linked(e), \A g \in 1..generation : SameResource(g),
           NEW t \in Callers, ~Opening(call[t]),
           \A s \in Callers \ {t} : call'[s] = call[s],
           UNCHANGED <<client, ids, view>>,
           \A b \in Clusters(generation) :
               resource'[generation].clusters[b].project \in
                   {resource[generation].clusters[b].project, None,
                    Project(resource[generation].name,
                            resource[generation].url[b])}
    PROVE  Linked(e)'
<1>1. UNCHANGED <<authenticated, generation, closed, active>>
    BY DEF client
<1>2. Opened' <=> Opened
    BY <1>1, OpenedIfOther
<1>3. OwnProjects'
    BY <1>1, ProjectsStay DEF Linked
<1>4. ViewBelongs(e)'
    BY DEF Linked, ViewBelongs
<1>5. SelectedBelongs(e)'
    BY <1>1, SelectionStays DEF Linked
<1> QED
    BY <1>1, <1>2, <1>3, <1>4, <1>5, LinkedStays

LEMMA AnswerLinks ==
    ASSUME Placed, Placed', CallsMove, NEW e \in [1..generation -> 0..closed],
           Linked(e), \A g \in 1..generation : SameResource(g),
           NEW t \in Callers, NEW u, Resolve(t, u) \/ FailToResolve(t, u)
    PROVE  Linked(e)'
<1>1. PICK here : here = {b \in Names : call[t].at[b] = "list"
                                        /\ Url(call[t], b) = u}
    OBVIOUS
<1>2. here # {}
    BY <1>1 DEF Resolve, FailToResolve, Answered
<1>3. PICK a \in here : TRUE
    BY <1>2
<1>4. /\ a \in Names /\ call[t].gen = generation
      /\ ResourceOK(resource[generation])
      /\ call[t].at[a] # "none"
    BY <1>1, <1>3, ListingCall
<1>5. ~Opening(call[t])
    BY <1>4, OpeningCall
<1>6. /\ \A s \in Callers \ {t} : call'[s] = call[s]
      /\ UNCHANGED <<client, ids, view>>
    BY DEF Resolve, FailToResolve, Answered, Placed, Types, CallsOK
<1>7. PICK r : r = resource[generation]
    OBVIOUS
<1>8. PICK f : /\ resource' = [resource EXCEPT ![generation].clusters = f]
               /\ f \in {[b \in DOMAIN r.clusters |-> IF b \in here
                             THEN Listed(b) ELSE r.clusters[b]],
                         [b \in DOMAIN r.clusters |-> IF b \in here
                             THEN Unavailable(Cluster) ELSE r.clusters[b]]}
    <2>1. CASE Resolve(t, u)
        <3>1. PICK g : g = [b \in DOMAIN r.clusters |->
                               IF b \in here THEN Listed(b)
                               ELSE r.clusters[b]]
            OBVIOUS
        <3>2. resource' = [resource EXCEPT ![generation].clusters = g]
            BY <1>1, <1>4, <1>7, <2>1, <3>1 DEF Resolve, Answered
        <3> QED
            BY <3>1, <3>2
    <2>2. CASE FailToResolve(t, u)
        <3>1. PICK g : g = [b \in DOMAIN r.clusters |->
                               IF b \in here THEN Unavailable(Cluster)
                               ELSE r.clusters[b]]
            OBVIOUS
        <3>2. resource' = [resource EXCEPT ![generation].clusters = g]
            BY <1>1, <1>4, <1>7, <2>2, <3>1 DEF FailToResolve, Answered
        <3> QED
            BY <3>1, <3>2
    <2> QED
        BY <2>1, <2>2
<1>9. resource'[generation].clusters = f
    BY <1>4, <1>8, Numbers DEF ResourceOK, Placed, Types, ResourcesOK
<1>10. \A b \in Clusters(generation) :
          f[b].project \in {r.clusters[b].project, None,
                            Project(r.name, r.url[b])}
    <2>1. \A b : Listed(b).project \in {None, Project(r.name, r.url[b])}
        BY <1>7 DEF Listed, Cluster
    <2>2. Unavailable(Cluster).project = None
        BY DEF Unavailable, Cluster
    <2>3. DOMAIN r.clusters = Clusters(generation)
        BY <1>4, <1>7 DEF ResourceOK, Clusters
    <2> QED
        BY <1>8, <2>1, <2>2, <2>3
<1> QED
    BY <1>5, <1>6, <1>7, <1>9, <1>10, LearningLinks

\* What is put for a cluster of the resource in use.
LEMMA PutLinks ==
    ASSUME Placed, Placed', CallsMove, NEW e \in [1..generation -> 0..closed],
           Linked(e), \A g \in 1..generation : SameResource(g),
           NEW t \in Callers, NEW b \in Names, call[t].at[b] \in Asking,
           NEW c, c = call[t], NEW x \in Facts, Put(c, b, x),
           \A s \in Callers \ {t} : call'[s] = call[s],
           UNCHANGED <<client, ids, view>>,
           Known(c, b).type => x.type,
           Known(c, b).project # None => x.project # None,
           c.gen = generation =>
               x.project \in {Known(c, b).project, None,
                              Project(resource[generation].name, Url(c, b))}
    PROVE  Linked(e)'
<1>1. ~Opening(call[t])
    BY OpeningCall DEF Asking
<1>2. UNCHANGED generation
    BY DEF client
<1>3. /\ resource'[c.gen].clusters[b] = x
      /\ \A g \in 1..generation : \A a \in Clusters(g) :
             \/ g = c.gen /\ a = b
             \/ resource'[g].clusters[a] = resource[g].clusters[a]
    BY <1>2, PutKnown
<1>4. generation \in 1..generation
    <2>1. c.gen \in 1..generation /\ generation \in Nat
        BY AskingCall
    <2> QED
        BY <2>1
<1>5. \A a \in Clusters(generation) :
          resource'[generation].clusters[a].project \in
              {resource[generation].clusters[a].project, None,
               Project(resource[generation].name,
                       resource[generation].url[a])}
    BY <1>3, <1>4 DEF Known, Url
<1> QED
    BY <1>1, <1>5, LearningLinks

\* A project id from the cache in use.
LEMMA CachedProject ==
    ASSUME Placed, NEW e \in [1..generation -> 0..closed], Linked(e),
           NEW t \in Callers, NEW c, c = call[t], c.op # "none",
           c.gen = generation, c.gen \in 1..generation,
           CacheOf(c) \in 0..MaxConnects,
           NEW u \in DOMAIN ids[CacheOf(c)]
    PROVE  ids[CacheOf(c)][u] = Project(resource[generation].name, u)
<1>1. e[generation] = c.epoch /\ generation \in Nat /\ closed \in Nat
    BY Numbers DEF Linked, CallsBelong, Belongs
<1>2. CASE CacheOf(c) = c.epoch
    BY <1>1, <1>2 DEF Linked, CachesBelong
<1>3. CASE CacheOf(c) # c.epoch
    <2>1. CacheOf(c) = closed
        BY <1>3 DEF CacheOf
    <2>2. PICK g \in 1..generation : e[g] = closed
        BY <2>1 DEF Linked, CachesBelong
    <2>3. g = generation
        BY <2>2, CurrentGeneration DEF Linked
    <2> QED
        BY <1>1, <1>3, <2>1, <2>2, <2>3
<1> QED
    BY <1>2, <1>3

LEMMA TakeLockLinks ==
    ASSUME Placed, Placed', CallsMove, NEW e \in [1..generation -> 0..closed],
           Linked(e), \A g \in 1..generation : SameResource(g),
           NEW t \in Callers, NEW b \in Names, TakeLock(t, b)
    PROVE  Linked(e)'
<1>1. PICK c : c = call[t]
    OBVIOUS
<1>2. PICK u : u = Url(c, b)
    OBVIOUS
<1>3. PICK cache : cache = ids[CacheOf(c)]
    OBVIOUS
<1>4. c.at[b] = "lock" /\ call[t].at[b] \in Asking
    BY <1>1 DEF TakeLock, Asking
<1>5. /\ c \in CallOK /\ c.gen \in 1..generation /\ Known(c, b) \in Facts
      /\ u \in Urls /\ CacheOf(c) \in 0..MaxConnects /\ c.op # "none"
    BY <1>1, <1>2, <1>4, AskingCall
<1>6. UNCHANGED <<client, ids, view>>
    BY DEF TakeLock
<1>7. \A s \in Callers \ {t} : call'[s] = call[s]
    BY DEF TakeLock, Move, Placed, Types, CallsOK
<1>8. CASE /\ u \in DOMAIN cache
           /\ Put(c, b, [Known(c, b) EXCEPT !.project = cache[u]])
    <2>1. PICK x : x = [Known(c, b) EXCEPT !.project = cache[u]]
        OBVIOUS
    <2>2. cache[u] \in Projects /\ cache[u] # None
        <3>1. cache[u] \in Projects
            BY <1>3, <1>5, <1>8 DEF Placed, Types, IdsOK
        <3> QED
            BY <3>1, DiscoveryAssumption DEF Projects, Project
    <2>3. /\ x \in Facts /\ x.type = Known(c, b).type
          /\ x.project = cache[u]
        BY <1>5, <2>1, <2>2 DEF Facts
    <2>4. c.gen = generation =>
              cache[u] = Project(resource[generation].name, u)
        BY <1>1, <1>3, <1>5, <1>8, CachedProject
    <2>5. Put(c, b, x)
        BY <1>8, <2>1
    <2> QED
        BY <1>1, <1>2, <1>4, <1>6, <1>7, <2>2, <2>3, <2>4, <2>5, PutLinks
<1>9. CASE UNCHANGED resource
    <2>1. ~Opening(call[t])
        BY <1>4, OpeningCall DEF Asking
    <2> QED
        BY <1>6, <1>7, <1>9, <2>1, LearningLinks
<1> QED
    BY <1>1, <1>2, <1>3, <1>8, <1>9 DEF TakeLock

LEMMA FindProjectLinks ==
    ASSUME Placed, Placed', CallsMove, NEW e \in [1..generation -> 0..closed],
           Linked(e), \A g \in 1..generation : SameResource(g),
           NEW t \in Callers, NEW b \in Names, FindProject(t, b), ~outlived'
    PROVE  Linked(e)'
<1>1. PICK c : c = call[t]
    OBVIOUS
<1>2. PICK u : u = Url(c, b)
    OBVIOUS
<1>3. PICK p : p = Project(c.asked[b], u)
    OBVIOUS
<1>4. c.at[b] = "lookup" /\ call[t].at[b] \in Asking
    BY <1>1 DEF FindProject, Asking
<1>5. /\ c \in CallOK /\ c.gen \in 1..generation /\ Known(c, b) \in Facts
      /\ u \in Urls /\ c.op # "none" /\ CoroutineFits(t, c, b)
    BY <1>1, <1>2, <1>4, AskingCall
<1>6. /\ UNCHANGED <<client, view>> /\ c.epoch = closed
      /\ Put(c, b, [Known(c, b) EXCEPT !.project = p])
      /\ ids' = [ids EXCEPT ![CacheOf(c)] =
             [v \in DOMAIN @ \cup {u} |-> IF v = u THEN p ELSE @[v]]]
    BY <1>1, <1>2, <1>3 DEF FindProject, Outlives
<1>7. CacheOf(c) = closed
    BY <1>6 DEF CacheOf
<1>8. e[c.gen] = closed /\ c.asked[b] = resource[c.gen].name
    BY <1>1, <1>4, <1>5, <1>6 DEF Linked, CallsBelong, Belongs, Looks
<1>9. c.gen = generation /\ Opened
    BY <1>5, <1>8, CurrentGeneration DEF Linked
<1>10. p = Project(resource[generation].name, u)
    BY <1>3, <1>8, <1>9
<1>11. UNCHANGED <<authenticated, generation, closed, active>>
    BY <1>6 DEF client
<1>12. PICK x : x = [Known(c, b) EXCEPT !.project = p]
    OBVIOUS
<1>13. p \in Projects /\ p # None
    <2>1. c.asked[b] \in ResourceNames
        BY <1>4, <1>5 DEF CoroutineFits
    <2> QED
        BY <1>3, <1>5, <2>1, DiscoveryAssumption DEF Projects, Project
<1>14. x \in Facts /\ x.type = Known(c, b).type /\ x.project = p
    BY <1>5, <1>12, <1>13 DEF Facts
<1>15. Put(c, b, x)
    BY <1>6, <1>12
<1>16. ~Opening(call[t]) /\ \A s \in Callers \ {t} : call'[s] = call[s]
    BY <1>4, OpeningCall DEF Asking, FindProject, Placed, Types, CallsOK
<1>17. Opened' <=> Opened
    BY <1>11, <1>16, OpenedIfOther
<1>18. OwnProjects'
    <2>1. /\ resource'[c.gen].clusters[b] = x
          /\ \A g \in 1..generation : \A a \in Clusters(g) :
                 \/ g = c.gen /\ a = b
                 \/ resource'[g].clusters[a] = resource[g].clusters[a]
        BY <1>1, <1>4, <1>11, <1>13, <1>14, <1>15, PutKnown
    <2>2. \A a \in Clusters(generation) :
              resource'[generation].clusters[a].project \in
                  {resource[generation].clusters[a].project, None,
                   Project(resource[generation].name,
                           resource[generation].url[a])}
        BY <1>2, <1>5, <1>9, <1>10, <1>14, <2>1 DEF Url
    <2> QED
        BY <1>11, <2>2, ProjectsStay DEF Linked
<1>19. CachesBelong(e)'
    <2>1. closed \in DOMAIN ids /\ DOMAIN ids = 0..MaxConnects
        BY Numbers DEF Placed, Types, IdsOK
    <2>2. /\ \A d \in 0..MaxConnects : d # closed => ids'[d] = ids[d]
          /\ \A v \in DOMAIN ids'[closed] :
                 \/ v \in DOMAIN ids[closed] /\ ids'[closed][v]
                                                = ids[closed][v]
                 \/ ids'[closed][v] = Project(resource[generation].name, v)
        BY <1>6, <1>7, <1>10, <2>1
    <2>3. /\ \A g \in 1..generation : e[g] = closed => g = generation
          /\ \A g \in 1..generation : e[g] \in 0..MaxConnects
        BY CurrentGeneration, Numbers DEF Linked
    <2>4. \A d \in 0..MaxConnects : DOMAIN ids'[d] # {} =>
              \E g \in 1..generation : e[g] = d
        BY <1>5, <1>8, <2>2 DEF Linked, CachesBelong
    <2>5. ASSUME NEW g \in 1..generation, NEW v \in DOMAIN ids'[e[g]]
          PROVE  ids'[e[g]][v] = Project(resource'[g].name, v)
        <3>1. resource'[g].name = resource[g].name
            BY DEF SameResource
        <3>2. CASE e[g] # closed
            BY <2>2, <2>3, <2>5, <3>1, <3>2 DEF Linked, CachesBelong
        <3>3. CASE e[g] = closed
            BY <2>2, <2>3, <2>5, <3>1, <3>3 DEF Linked, CachesBelong
        <3> QED
            BY <3>2, <3>3
    <2> QED
        BY <1>11, <2>4, <2>5 DEF CachesBelong
<1>20. CallsBelong(e)'
    BY <1>11, CallsStillBelong DEF Linked
<1>21. InUse(e)'
    BY <1>11, <1>17 DEF Linked, InUse
<1>22. ViewBelongs(e)' /\ SelectedBelongs(e)'
    BY <1>6, <1>11, SelectionStays DEF Linked, ViewBelongs
<1> QED
    BY <1>18, <1>19, <1>20, <1>21, <1>22 DEF Linked

LEMMA LearnLinks ==
    ASSUME Placed, Placed', CallsMove, NEW e \in [1..generation -> 0..closed],
           Linked(e), \A g \in 1..generation : SameResource(g),
           NEW t \in Callers, NEW b \in Names,
           \/ LearnMachine(t, b) \/ FailToFindProject(t, b)
           \/ FailToLearn(t, b)
    PROVE  Linked(e)'
<1>1. PICK c : c = call[t]
    OBVIOUS
<1>2. call[t].at[b] \in Asking
    BY DEF LearnMachine, FailToFindProject, FailToLearn, Asking
<1>3. Known(c, b) \in Facts
    BY <1>1, <1>2, AskingCall
<1>4. UNCHANGED <<client, ids, view>>
    BY DEF LearnMachine, FailToFindProject, FailToLearn
<1>5. \A s \in Callers \ {t} : call'[s] = call[s]
    BY DEF LearnMachine, FailToFindProject, FailToLearn, Miss, Move,
       Placed, Types, CallsOK
<1>6. CASE UNCHANGED resource
    <2>1. ~Opening(call[t])
        BY <1>2, OpeningCall DEF Asking
    <2> QED
        BY <1>4, <1>5, <1>6, <2>1, LearningLinks
<1>7. CASE \/ Put(c, b, Unavailable(Known(c, b)))
           \/ Put(c, b, [Known(c, b) EXCEPT
                  !.info = TRUE, !.available = TRUE, !.error = FALSE])
    <2>1. PICK x : /\ Put(c, b, x)
                   /\ \/ x = Unavailable(Known(c, b))
                      \/ x = [Known(c, b) EXCEPT
                            !.info = TRUE, !.available = TRUE,
                            !.error = FALSE]
        BY <1>7
    <2>2. /\ x \in Facts /\ x.type = Known(c, b).type
          /\ x.project = Known(c, b).project
        BY <1>3, <2>1 DEF Facts, Unavailable
    <2> QED
        BY <1>1, <1>2, <1>4, <1>5, <2>1, <2>2, PutLinks
<1> QED
    BY <1>1, <1>6, <1>7 DEF LearnMachine, FailToFindProject, FailToLearn, Miss

\* The other steps open, select and learn nothing.
LEMMA OtherLinks ==
    ASSUME Placed, Placed', CallsMove, NEW e \in [1..generation -> 0..closed],
           Linked(e), \A g \in 1..generation : SameResource(g),
           NEW t \in Callers,
           \/ Connect(t) \/ Authenticate(t) \/ Load(t) \/ Finish(t)
           \/ \E via \in {"client", "view"} :
               \/ RefreshAll(t, via)
               \/ \E b \in Names : Refresh(t, via, b) \/ Submit(t, via, b)
    PROVE  Linked(e)'
<1>1. /\ UNCHANGED <<generation, closed, ids, active, resource, view>>
      /\ \A s \in Callers \ {t} : call'[s] = call[s]
    BY DEF Connect, Authenticate, Load, Finish, RefreshAll, Refresh, Submit,
       Fetching, client, knowledge, Placed, Types, CallsOK
<1>2. Opened' <=> Opened
    <2>1. CASE Connect(t)
        BY <2>1 DEF Connect, Opened, client
    <2>2. CASE Authenticate(t)
        <3>1. call[t].phase = "token" /\ call'[t].phase = "resource"
            BY <2>2 DEF Authenticate, Placed, Types, CallsOK, CallOK
        <3> QED
            BY <3>1 DEF Opened, Opening
    <2>3. CASE ~Connect(t) /\ ~Authenticate(t)
        <3>1. UNCHANGED authenticated /\ ~Opening(call[t])
            <4>1. CASE Load(t) \/ Finish(t)
                <5>1. Fits(t, call[t])
                    BY PlacedCall
                <5> QED
                    BY <4>1, <5>1 DEF Load, Finish, client, Opening, Fits
            <4>2. CASE \E via \in {"client", "view"} :
                       \/ RefreshAll(t, via)
                       \/ \E b \in Names :
                           Refresh(t, via, b) \/ Submit(t, via, b)
                BY <4>2 DEF RefreshAll, Refresh, Submit, Begins, client,
                   Opening, Idle
            <4> QED
                BY <2>3, <4>1, <4>2
        <3> QED
            BY <1>1, <3>1, OpenedIfOther
    <2> QED
        BY <2>1, <2>2, <2>3
<1> QED
    BY <1>1, <1>2, LinkedIfSame

LEMMA NextKeepsLinkage ==
    Placed /\ Linkage /\ [Next]_vars => Linkage'
<1> SUFFICES ASSUME Placed, Linkage, [Next]_vars, ~outlived'
             PROVE  \E f \in [1..generation' -> 0..closed'] : Linked(f)'
    BY DEF Linkage
<1>1. /\ Placed' /\ CallsMove
      /\ \A g \in 1..generation : SameResource(g)
    BY NextKeepsPlaced, EveryCallMoves, EveryResourceStays
<1>2. ~outlived
    <2>1. CASE UNCHANGED outlived
        BY <2>1
    <2>2. ASSUME NEW t \in Callers, Start(t)
          PROVE  UNCHANGED outlived
        BY <2>2 DEF Start, Connect, Close, RefreshAll, Refresh, Submit,
           Validate, ghosts
    <2>3. ASSUME NEW t \in Callers, Step(t)
          PROVE  ~outlived
        <3>1. CASE \/ Authenticate(t) \/ Authorize(t) \/ Refuse(t)
                   \/ Load(t) \/ Connected(t) \/ Finish(t)
            BY <2>1, <3>1 DEF Authenticate, Authorize, Refuse, Load,
               Connected, Finish, ghosts
        <3>2. ASSUME NEW u \in Urls, Resolve(t, u) \/ FailToResolve(t, u)
              PROVE  ~outlived
            BY <2>1, <3>2 DEF Resolve, FailToResolve, ghosts
        <3>3. ASSUME NEW b \in Names, Fetch(t, b)
              PROVE  ~outlived
            BY <2>1, <3>3 DEF Fetch, TakeLock, FindProject,
               FailToFindProject, LearnMachine, FailToLearn, ghosts
        <3>4. CASE Validated(t)
            BY <3>4 DEF Validated
        <3> QED
            BY <2>3, <3>1, <3>2, <3>3, <3>4 DEF Step
    <2>4. CASE Reassign \/ UNCHANGED vars
        BY <2>1, <2>4 DEF Reassign, vars, ghosts
    <2> QED
        BY <2>1, <2>2, <2>3, <2>4 DEF Next
<1>3. PICK e \in [1..generation -> 0..closed] : Linked(e)
    BY <1>2 DEF Linkage
<1>4. ASSUME UNCHANGED <<generation, closed>>, Linked(e)'
      PROVE  \E f \in [1..generation' -> 0..closed'] : Linked(f)'
    BY <1>4
<1>5. CASE Reassign \/ UNCHANGED vars
    <2>1. /\ UNCHANGED <<generation, closed, ids, active, resource>>
          /\ UNCHANGED <<view, authenticated, call>>
        BY <1>5 DEF Reassign, vars, client, knowledge
    <2>2. Opened' <=> Opened
        BY <2>1 DEF Opened
    <2>3. Linked(e)'
        BY <1>1, <1>3, <2>1, <2>2, LinkedIfSame
    <2> QED
        BY <1>4, <2>1, <2>3
<1>6. ASSUME NEW t \in Callers, NEW via \in {"client", "view"},
             Close(t, via)
      PROVE  \E f \in [1..generation' -> 0..closed'] : Linked(f)'
    <2>1. UNCHANGED <<ids, resource, call>>
        BY <1>6 DEF Close, knowledge
    <2>2. CASE Disconnect /\ UNCHANGED view
        BY <1>1, <1>3, <2>1, <2>2, DisconnectLinks
    <2>3. CASE view' = None /\ UNCHANGED client
        <3>1. UNCHANGED <<authenticated, generation, closed, active>>
            BY <2>3 DEF client
        <3>2. Opened' <=> Opened
            BY <2>1, <3>1 DEF Opened
        <3>3. Linked(e)'
            BY <1>1, <1>3, <2>1, <2>3, <3>1, <3>2, LinkedIfSame
        <3> QED
            BY <1>4, <3>1, <3>3
    <2> QED
        BY <1>6, <2>2, <2>3 DEF Close
<1>7. ASSUME NEW t \in Callers, Refuse(t)
      PROVE  \E f \in [1..generation' -> 0..closed'] : Linked(f)'
    <2>1. /\ Disconnect /\ UNCHANGED <<ids, resource, view>>
          /\ \A s \in Callers : call'[s] \in {call[s], Idle}
        BY <1>7 DEF Refuse, knowledge, Placed, Types, CallsOK
    <2> QED
        BY <1>1, <1>3, <2>1, DisconnectLinks
<1>8. ASSUME NEW t \in Callers, Authorize(t)
      PROVE  \E f \in [1..generation' -> 0..closed'] : Linked(f)'
    BY <1>1, <1>3, <1>8, AuthorizeLinks
<1>9. ASSUME NEW t \in Callers,
             \/ Connect(t) \/ Authenticate(t) \/ Load(t) \/ Finish(t)
             \/ \E via \in {"client", "view"} :
                 \/ RefreshAll(t, via)
                 \/ \E b \in Names : Refresh(t, via, b) \/ Submit(t, via, b)
      PROVE  \E f \in [1..generation' -> 0..closed'] : Linked(f)'
    <2>1. Linked(e)'
        BY <1>1, <1>3, <1>9, OtherLinks
    <2>2. UNCHANGED <<generation, closed>>
        BY <1>9 DEF Connect, Authenticate, Load, Finish, RefreshAll,
           Refresh, Submit, client
    <2> QED
        BY <1>4, <2>1, <2>2
<1>10. ASSUME NEW t \in Callers,
              \/ Connected(t) \/ Validated(t)
              \/ \E op \in {"backend", "bind"}, b \in Names :
                     Validate(t, op, b)
       PROVE  \E f \in [1..generation' -> 0..closed'] : Linked(f)'
    <2>1. Linked(e)'
        BY <1>1, <1>3, <1>10, ConnectedLinks, ValidatedLinks, ValidateLinks
    <2>2. UNCHANGED <<generation, closed>>
        BY <1>10 DEF Connected, Validated, Validate
    <2> QED
        BY <1>4, <2>1, <2>2
<1>11. ASSUME NEW t \in Callers, NEW u \in Urls,
              Resolve(t, u) \/ FailToResolve(t, u)
       PROVE  \E f \in [1..generation' -> 0..closed'] : Linked(f)'
    <2>1. Linked(e)'
        BY <1>1, <1>3, <1>11, AnswerLinks
    <2>2. UNCHANGED <<generation, closed>>
        BY <1>11 DEF Resolve, FailToResolve, client
    <2> QED
        BY <1>4, <2>1, <2>2
<1>12. ASSUME NEW t \in Callers, NEW b \in Names, Fetch(t, b)
       PROVE  \E f \in [1..generation' -> 0..closed'] : Linked(f)'
    <2>1. Linked(e)'
        <3>1. CASE TakeLock(t, b)
            BY <1>1, <1>3, <3>1, TakeLockLinks
        <3>2. CASE FindProject(t, b)
            BY <1>1, <1>3, <3>2, FindProjectLinks
        <3>3. CASE \/ LearnMachine(t, b) \/ FailToFindProject(t, b)
                   \/ FailToLearn(t, b)
            BY <1>1, <1>3, <3>3, LearnLinks
        <3> QED
            BY <1>12, <3>1, <3>2, <3>3 DEF Fetch
    <2>2. UNCHANGED <<generation, closed>>
        BY <1>12 DEF Fetch, TakeLock, FindProject, FailToFindProject,
           LearnMachine, FailToLearn, client
    <2> QED
        BY <1>4, <2>1, <2>2
<1>13. ASSUME NEW t \in Callers, Start(t)
       PROVE  \E f \in [1..generation' -> 0..closed'] : Linked(f)'
    BY <1>6, <1>9, <1>10, <1>13 DEF Start
<1>14. ASSUME NEW t \in Callers, Step(t)
       PROVE  \E f \in [1..generation' -> 0..closed'] : Linked(f)'
    BY <1>7, <1>8, <1>9, <1>10, <1>11, <1>12, <1>14 DEF Step
<1> QED
    BY <1>5, <1>13, <1>14 DEF Next

LEMMA InitIsLinked == Init => Linkage
<1> SUFFICES ASSUME Init PROVE Linkage
    OBVIOUS
<1>1. generation = 0 /\ closed = 0
    BY DEF Init
<1>2. PICK e : e = [g \in 1..generation |-> 0]
    OBVIOUS
<1>3. e \in [1..generation -> 0..closed]
    BY <1>1, <1>2
<1>4. \A g \in 1..generation : FALSE
    BY <1>1
<1>5. InUse(e)
    BY <1>4 DEF InUse, Opened, Init
<1>6. CallsBelong(e)
    <2>1. \A t \in Callers : call[t] = Idle
        BY DEF Init
    <2> QED
        BY <2>1, IdleFits DEF CallsBelong, Belongs, Looks
<1>7. CachesBelong(e)
    BY <1>4 DEF CachesBelong, Init
<1>8. ViewBelongs(e) /\ SelectedBelongs(e)
    BY DEF Init, ViewBelongs, SelectedBelongs
<1>9. OwnProjects
    <2>1. Clusters(generation) = {}
        BY <1>1, InitIsPlaced
           DEF Placed, Types, ResourcesOK, Clusters, NoResource
    <2> QED
        BY <2>1 DEF OwnProjects
<1> QED
    BY <1>3, <1>5, <1>6, <1>7, <1>8, <1>9 DEF Linkage, Linked

\* As long as no coroutine that began before a close() changes the client
\* after it, a connected client selects among the backends of its resource,
\* and knows no project ids but those of its resource, however its calls,
\* those of a view, and reconnects interleave.
THEOREM ConnectionsAreAlwaysSeparate == Spec => []ConnectionsAreSeparate
<1>1. Placed /\ Linkage => ConnectionsAreSeparate
    <2> SUFFICES ASSUME Placed, Linkage, ~outlived, Complete
                 PROVE  /\ active \in Clusters(generation) \cup {None}
                        /\ OwnProjects
        BY DEF ConnectionsAreSeparate, Current, OwnProjects
    <2>1. PICK e \in [1..generation -> 0..closed] : Linked(e)
        BY DEF Linkage
    <2> QED
        BY <2>1 DEF Linked, SelectedBelongs
<1>2. Placed /\ Linkage /\ [Next]_vars => Linkage'
    BY NextKeepsLinkage
<1> QED
    BY <1>1, <1>2, InitIsLinked, PlacedAlways, PTL DEF Spec

-----------------------------------------------------------------------------
(***************************************************************************)
(* Which resource is chosen, and where its clusters are.                   *)
(***************************************************************************)

\* The first usable assignment of location `n' is at `u'.
FirstAt(r, n, u) ==
    \E k \in DOMAIN r.assignments :
        /\ r.assignments[k] = [quantum |-> TRUE, location |-> n, url |-> u]
        /\ \A j \in 1..(k - 1) :
            r.assignments[j].location = n => ~Usable(r.assignments[j])

LEMMA InstancesAreFirst ==
    ASSUME world \in DOMAIN Worlds, NEW i \in DOMAIN Lexis.resources,
           NEW r, r = Lexis.resources[i], NEW n \in Names
    PROVE  /\ n \in DOMAIN InstanceOf(r) <=> \E u \in Urls : FirstAt(r, n, u)
           /\ n \in DOMAIN InstanceOf(r) => FirstAt(r, n, InstanceOf(r)[n])
<1> DEFINE Assignment == [quantum : BOOLEAN, location : Names \cup {None},
                          url : Urls \cup {None}]
           Record == [name : ResourceNames,
                      window : {"undated", "open", "early", "over",
                                "garbled"},
                      assignments : Seq(Assignment)]
<1>1. PICK a : a = r.assignments
    OBVIOUS
<1>2. a \in Seq(Assignment)
    <2>1. Lexis.resources \in Seq(Record)
        BY WorldIsTyped DEF Resources
    <2>2. r \in Record
        <3> HIDE DEF Record
        <3> QED
            BY <2>1
    <2> QED
        BY <1>1, <2>2
<1>3. /\ DOMAIN a \subseteq Nat
      /\ \A k \in DOMAIN a :
             a[k] \in Assignment /\ 1..(k - 1) \subseteq DOMAIN a
    <2> HIDE DEF Assignment
    <2> QED
        BY <1>2
<1>4. None \notin Names \cup Urls
    BY DiscoveryAssumption
<1>5. UsableAt(r, n) = {k \in DOMAIN a : Usable(a[k]) /\ a[k].location = n}
    BY <1>1 DEF UsableAt
<1>6. n \in DOMAIN InstanceOf(r) <=> UsableAt(r, n) # {}
    BY DEF InstanceOf
<1>7. ASSUME NEW u \in Urls, FirstAt(r, n, u)
      PROVE  UsableAt(r, n) # {}
    <2>1. PICK k \in DOMAIN a :
              a[k] = [quantum |-> TRUE, location |-> n, url |-> u]
        BY <1>1, <1>7 DEF FirstAt
    <2>2. Usable(a[k]) /\ a[k].location = n
        BY <1>4, <2>1 DEF Usable
    <2> QED
        BY <1>5, <2>2
<1>8. ASSUME UsableAt(r, n) # {}
      PROVE  InstanceOf(r)[n] \in Urls /\ FirstAt(r, n, InstanceOf(r)[n])
    <2>1. PICK T : T = UsableAt(r, n)
        OBVIOUS
    <2>2. T \subseteq Nat /\ T # {}
        BY <1>3, <1>5, <1>8, <2>1
    <2>3. PICK k : k = CHOOSE x \in T : \A y \in T : x <= y
        OBVIOUS
    <2>4. k \in T /\ \A y \in T : k <= y
        <3>1. \E x \in T : \A y \in T : x <= y
            BY <2>2, LeastElement
        <3> QED
            BY <2>3, <3>1
    <2>5. InstanceOf(r)[n] = a[k].url
        BY <1>1, <1>8, <2>1, <2>3 DEF InstanceOf
    <2>6. /\ k \in DOMAIN a /\ Usable(a[k]) /\ a[k].location = n
          /\ a[k] \in Assignment
        BY <1>3, <1>5, <2>1, <2>4
    <2>7. a[k].url \in Urls /\ a[k].quantum = TRUE
        BY <2>6 DEF Usable
    <2>8. a[k] = [quantum |-> TRUE, location |-> n, url |-> a[k].url]
        BY <2>6, <2>7
    <2>9. \A j \in 1..(k - 1) : a[j].location = n => ~Usable(a[j])
        <3> SUFFICES ASSUME NEW j \in 1..(k - 1), a[j].location = n,
                            Usable(a[j])
                     PROVE  FALSE
            OBVIOUS
        <3>1. j \in T
            BY <1>3, <1>5, <2>1, <2>6
        <3>2. k <= j /\ k \in Nat
            BY <2>2, <2>4, <3>1
        <3> QED
            BY <3>2
    <2> QED
        BY <1>1, <2>5, <2>6, <2>7, <2>8, <2>9 DEF FirstAt
<1> QED
    BY <1>6, <1>7, <1>8

\* There is one choice at most.
LEMMA ChoiceIsUnique ==
    ASSUME world \in DOMAIN Worlds, NEW i \in Choice, NEW j \in Choice
    PROVE  i = j
<1>1. DOMAIN Lexis.resources \subseteq Nat
    BY WorldIsTyped DEF Resources
<1>2. i \in Nat /\ j \in Nat
    BY <1>1 DEF Choice, Candidates
<1> QED
    BY <1>2 DEF Choice

\* A client that connects uses the resource it was asked for, or the only
\* quantum one of the project, and takes every location of it at the
\* instance that `_authorize_lexis_resource' finds first in the assignments,
\* whatever LEXIS has changed since the last connect().
THEOREM ResourceIsAlwaysTheOneMeant == Spec => ResourceIsTheOneMeant
<1> DEFINE Meant ==
        generation' # generation =>
            \E i \in DOMAIN Lexis.resources :
                LET r == Lexis.resources[i]
                    new == resource'[generation']
                IN  /\ r.name = new.name
                    /\ r.window \notin {"early", "over"}
                    /\ World.wanted \in {None, r.name}
                    /\ World.wanted = None =>
                        \A j \in DOMAIN Lexis.resources \ {i} :
                            ~Quantum(Lexis.resources[j])
                    /\ \A n \in Names : n \in DOMAIN new.url <=>
                        \E u \in Urls : FirstAt(r, n, u)
                    /\ \A n \in DOMAIN new.url : FirstAt(r, n, new.url[n])
<1>1. ASSUME Placed, Placed', NEW t \in Callers, Authorize(t)
      PROVE  Meant
    <2>1. world \in DOMAIN Worlds
        BY <1>1 DEF Placed, Types, ClientOK
    <2>2. PICK i \in Choice :
            /\ generation' = generation + 1
            /\ resource' = [resource EXCEPT ![generation + 1] =
                  [name |-> Lexis.resources[i].name,
                   url |-> InstanceOf(Lexis.resources[i]),
                   clusters |-> [b \in DOMAIN InstanceOf(Lexis.resources[i])
                                    |-> Cluster]]]
        BY <1>1 DEF Authorize
    <2>3. PICK r : r = Lexis.resources[i]
        OBVIOUS
    <2>4. PICK url : url = InstanceOf(r)
        OBVIOUS
    <2>5. PICK new : new = resource'[generation']
        OBVIOUS
    <2>6. new.name = r.name /\ new.url = url
        <3>1. generation + 1 \in DOMAIN resource
            BY <1>1, <2>2 DEF Placed, Types, ClientOK, ResourcesOK
        <3> QED
            BY <2>2, <2>3, <2>4, <2>5, <3>1
    <2>7. i \in DOMAIN Lexis.resources /\ World.wanted \in {None, r.name}
        BY <2>3 DEF Choice, Candidates
    <2>8. r.window \notin {"early", "over"}
        <3>1. PICK j \in Choice :
                Lexis.resources[j].window \in {"undated", "open", "garbled"}
            BY <1>1 DEF Authorize, Authorized
        <3>2. j = i
            BY <2>1, ChoiceIsUnique
        <3> QED
            BY <2>3, <3>1, <3>2
    <2>9. World.wanted = None =>
              \A j \in DOMAIN Lexis.resources \ {i} :
                  ~Quantum(Lexis.resources[j])
        BY DEF Choice, Candidates
    <2>10. \A n \in Names :
               /\ n \in DOMAIN url <=> \E u \in Urls : FirstAt(r, n, u)
               /\ n \in DOMAIN url => FirstAt(r, n, url[n])
        BY <2>1, <2>3, <2>4, <2>7, InstancesAreFirst
    <2>11. DOMAIN url \subseteq Names
        BY <2>4 DEF InstanceOf
    <2> QED
        BY <2>3, <2>5, <2>6, <2>7, <2>8, <2>9, <2>10, <2>11
<1>2. ASSUME Placed, Placed', [Next]_vars PROVE Meant
    <2>1. CASE \E t \in Callers : Authorize(t)
        BY <1>1, <1>2, <2>1
    <2>2. CASE generation' = generation
        BY <2>2
    <2>3. ASSUME NEW t \in Callers, Start(t)
          PROVE  generation' = generation
        BY <2>3 DEF Start, Connect, Close, Disconnect, RefreshAll, Refresh,
           Submit, Validate, client
    <2>4. ASSUME NEW t \in Callers, Step(t)
          PROVE  Authorize(t) \/ generation' = generation
        <3>1. CASE \/ Authenticate(t) \/ Refuse(t) \/ Load(t)
                   \/ Connected(t) \/ Validated(t) \/ Finish(t)
            BY <3>1 DEF Authenticate, Refuse, Disconnect, Load, Connected,
               Validated, Finish, client
        <3>2. ASSUME NEW u \in Urls, Resolve(t, u) \/ FailToResolve(t, u)
              PROVE  generation' = generation
            BY <3>2 DEF Resolve, FailToResolve, client
        <3>3. ASSUME NEW b \in Names, Fetch(t, b)
              PROVE  generation' = generation
            BY <3>3 DEF Fetch, TakeLock, FindProject, FailToFindProject,
               LearnMachine, FailToLearn, client
        <3> QED
            BY <2>4, <3>1, <3>2, <3>3 DEF Step
    <2>5. CASE Reassign \/ UNCHANGED vars
        BY <2>2, <2>5 DEF Reassign, vars, client
    <2> QED
        BY <1>2, <2>1, <2>2, <2>3, <2>4, <2>5 DEF Next
<1>3. Placed /\ Placed' /\ [Next]_vars => [Meant]_vars
    BY <1>2
<1>4. [][Meant]_vars => ResourceIsTheOneMeant
    BY DEF ResourceIsTheOneMeant, FirstAt
<1> HIDE DEF Meant
<1> QED
    BY <1>3, <1>4, PlacedAlways, PTL DEF Spec
=============================================================================
