---------------------------- MODULE LegacyLogin -----------------------------
(***************************************************************************)
(* What `QClient.__init__' of src/qaas/client/client.py decides from the   *)
(* answers of LEXIS and HEAppE: whether the user may use the project,      *)
(* which resource is meant, whether its machine fits this client, and      *)
(* where in HEAppE its two command templates are.  The answers are one     *)
(* record `a':                                                             *)
(*   token, member, window     the JWT, and the project of the user        *)
(*   wanted, computer          the arguments of the constructor, or None   *)
(*   resources  a sequence of [name, quantum, kind, window, assignments],  *)
(*              an assignment being [kind, location, url]                  *)
(*   machine    of every HEAppE, the version and the stack it announces    *)
(*   clusters   of every template name, a sequence of [name, nodes], a     *)
(*              node type being [queue, projects], a project [id,          *)
(*              accounting, templates]                                     *)
(***************************************************************************)
EXTENDS Naturals, Sequences, SequencesExt

CONSTANTS
    None,
    Kinds,         \* aggregation names the client accepts
    Queues,        \* the names of the init and of the execution queue
    Version        \* of this client, <<major, minor, patch>>

ASSUME LoginAssumption ==
    /\ None \notin Kinds \cup Queues
    /\ Version \in Seq(Nat) /\ Len(Version) = 3

Bases == {"RunQInit", "RunQExecute"}

\* LEXIS and HEAppE answer with lists, and a version is a string.
List(s) == s \in Seq(Range(s))

AnswerOK(a) ==
    /\ List(a.resources)
    /\ \A r \in Range(a.resources) :
        /\ List(r.assignments)
        /\ \A s \in Range(r.assignments) : s.url # None =>
            \/ a.machine[s.url].version = None
            \/ a.machine[s.url].version \in Seq(Nat)
    /\ \A name \in BOOLEAN \X Bases :
        /\ List(a.clusters[name])
        /\ \A k \in Range(a.clusters[name]) :
            /\ List(k.nodes)
            /\ \A n \in Range(k.nodes) : List(n.projects)

FirstOf(s, Test(_)) ==
    LET i == SelectInSeq(s, Test) IN IF i = 0 THEN None ELSE s[i]

\* A token whose signature, issuer, expiry and user are in order.
Trusted(token) ==
    /\ token.issuer /\ token.keys /\ token.alg
    /\ token.signed
    /\ token.user
    /\ ~token.expired

\* A project without dates is taken to be active, a garbled date is not.
Member(a) == Trusted(a.token) /\ a.member /\ a.window \in {"undated", "open"}

-----------------------------------------------------------------------------
(* The resource, and the assignment that says where its HEAppE is.         *)

\* Looked for: the type of the resource counts, and any assignment will do.
Automatic(a) ==
    LET Fits(r) == /\ r.assignments # <<>>
                   /\ r.quantum
                   /\ r.kind \in Kinds
                   /\ a.computer \in {None, r.kind}
        r == FirstOf(a.resources, Fits)
    IN  IF r = None THEN <<None, None>> ELSE <<r, Head(r.assignments)>>

Named(a) ==
    LET Meant(r) == r.name = a.wanted IN FirstOf(a.resources, Meant)

Accepted(r) ==
    LET Fits(s) == s.kind \in Kinds IN FirstOf(r.assignments, Fits)

\* Asked for by name: the type of the assignment counts.
ByName(a) ==
    LET r == Named(a)
    IN  IF r = None THEN <<None, None>> ELSE <<r, Accepted(r)>>

Chosen(a) == IF a.wanted = None THEN Automatic(a) ELSE ByName(a)

Machine(a) == a.machine[Chosen(a)[2].url]

\* `_authorize_lexis_resource' returns the metadata, or refuses; without
\* the dates of the resource it returns nothing at all.
Authorization(a) ==
    IF Chosen(a)[2] = None THEN "refused"
    ELSE IF Chosen(a)[1].window = "undated" THEN "nothing"
    ELSE IF /\ Chosen(a)[1].window \in {"open", "garbled"}
            /\ Chosen(a)[2].url # None
            /\ Machine(a).version # None
            /\ Machine(a).stack
         THEN "metadata" ELSE "refused"

\* mutant: a newer minor version of the service is accepted.
SameMajor(version) ==
    Len(version) >= 3 /\ version[1] = Version[1]

\* A patch mismatch only warns.
Compatible(version) ==
    /\ Len(version) >= 3
    /\ version[1] = Version[1]
    /\ version[2] = Version[2]

-----------------------------------------------------------------------------
(* The command templates.  A name is <<scoped, base>>: plain, or with the  *)
(* name of the project in front.                                           *)

ClusterAt(clusters, location) ==
    LET Here(k) == k.name = location IN FirstOf(clusters, Here)

ProjectOf(n, resource) ==
    LET Of(p) == p.accounting = resource IN FirstOf(n.projects, Of)

\* The first node type of either queue with a project of the resource.
NodeOf(k, resource) ==
    LET Fits(n) == n.queue \in Queues /\ ProjectOf(n, resource) # None
    IN  FirstOf(k.nodes, Fits)

\* That queue and project, in the cluster of that name, as <<queue, id>>; None
\* without the template.
Placement(clusters, name, location, resource) ==
    LET cluster == ClusterAt(clusters, location)
    IN  IF cluster = None THEN None
        ELSE LET node == NodeOf(cluster, resource)
             IN  IF node = None THEN None
                 ELSE LET project == ProjectOf(node, resource)
                      IN  IF name \in project.templates
                          THEN <<node.queue, project.id>> ELSE None

Template(a, base) ==
    LET Find(scoped) == Placement(a.clusters[<<scoped, base>>],
                                  <<scoped, base>>, Chosen(a)[2].location,
                                  Chosen(a)[1].name)
    IN  IF Find(FALSE) # None THEN Find(FALSE) ELSE Find(TRUE)

-----------------------------------------------------------------------------
\* What the constructor ends with.  A version that is no X.Y.Z raises, too.
Outcome(a) ==
    IF ~Member(a) \/ Authorization(a) = "refused" THEN "refused"
    ELSE IF Authorization(a) = "nothing" THEN "crashed"
    ELSE IF ~Compatible(Machine(a).version) THEN "refused"
    ELSE IF \E base \in Bases : Template(a, base) = None THEN "refused"
    ELSE "ready"

\* The attributes of a client that is ready.
Site(a) ==
    [resource |-> Chosen(a)[1].name, location |-> Chosen(a)[2].location,
     url |-> Chosen(a)[2].url, template |-> [b \in Bases |-> Template(a, b)]]

=============================================================================
