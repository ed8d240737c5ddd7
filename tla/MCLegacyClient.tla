--------------------------- MODULE MCLegacyClient ---------------------------
(***************************************************************************)
(* Two programs at work, and many that try to log in.                      *)
(***************************************************************************)
EXTENDS LegacyClient, TLC

CONSTANTS c1, c2, circuit, options, backend, u1, vlq, eqe, p1, p2

Valid == [issuer |-> TRUE, keys |-> TRUE, alg |-> TRUE, signed |-> TRUE,
          user |-> TRUE, expired |-> FALSE]

On(location, kind) == [kind |-> kind, location |-> location, url |-> u1]

Resource(n, quantum, kind, window, as) ==
    [name |-> n, quantum |-> quantum, kind |-> kind, window |-> window,
     assignments |-> as]

Res(window) == <<Resource("hpc", FALSE, vlq, "open", <<On("hpc", None)>>),
                 Resource("cpu", TRUE, None, "open", <<On("cpu", vlq)>>),
                 Resource("q", TRUE, vlq, window,
                          <<On("lab", None), On("vlq", vlq)>>)>>

\* A template on the cluster `at', under a node type of `queue', in a project
\* of `of'; another project comes first.
Cluster(name, at, queue, of) ==
    <<[name |-> "other", nodes |-> <<>>],
      [name |-> at, nodes |-> <<
        [queue |-> "slow", projects |-> <<
            [id |-> p2, accounting |-> of, templates |-> {name}]>>],
        [queue |-> queue, projects |-> <<
            [id |-> p2, accounting |-> "hpc", templates |-> {name}],
            [id |-> p1, accounting |-> of, templates |-> {name}]>>]>>]>>

Clusters(at, of) ==
    [n \in BOOLEAN \X Bases |->
        IF n = <<FALSE, "RunQInit">> THEN <<>>
        ELSE Cluster(n, at, IF n[2] = "RunQInit" THEN "qinit" ELSE "qexe",
                     of)]

Good == [token |-> Valid, member |-> TRUE, window |-> "open",
         wanted |-> None, computer |-> None, resources |-> Res("open"),
         machine |-> u1 :> [version |-> <<2, 1, 0>>, stack |-> TRUE],
         clusters |-> Clusters("lab", "q")]

Announcing(version) == u1 :> [version |-> version, stack |-> TRUE]

Answers == <<
    [Good EXCEPT !.wanted = "q", !.clusters = Clusters("vlq", "q")],
    [Good EXCEPT !.wanted = "q", !.clusters = Clusters("lab", "q")],
    [Good EXCEPT !.computer = eqe],
    [Good EXCEPT !.computer = vlq, !.machine = Announcing(<<2, 1, 9>>)],
    [Good EXCEPT !.machine = Announcing(<<2, 0, 0>>)],
    [Good EXCEPT !.machine = Announcing(<<2, 1>>)],
    [Good EXCEPT !.machine = Announcing(None)],
    [Good EXCEPT !.clusters = Clusters("lab", "hpc")],
    [Good EXCEPT !.clusters = Clusters("lab", "q"),
                 !.clusters[<<TRUE, "RunQExecute">>] = <<>>,
                 !.clusters[<<FALSE, "RunQExecute">>] = <<>>],
    [Good EXCEPT !.resources = Res("undated")],
    [Good EXCEPT !.resources = Res("garbled"), !.window = "undated"],
    [Good EXCEPT !.resources = Res("early")],
    [Good EXCEPT !.wanted = "q", !.resources = Res("over")],
    [Good EXCEPT !.wanted = "none"],
    [Good EXCEPT !.window = "garbled"],
    [Good EXCEPT !.token.expired = TRUE]>>

LoginOf(i) == [answer |-> Answers[i], callers |-> {c1}, ops |-> {},
               jobs |-> 0, ticks |-> 0, sets |-> 1, closes |-> TRUE,
               faults |-> 1]

Work(callers, ops, n, ticks, sets, n_faults) ==
    [answer |-> Good, callers |-> callers, ops |-> ops, jobs |-> n,
     ticks |-> ticks, sets |-> sets, closes |-> FALSE, faults |-> n_faults]

MCVersion == <<2, 1, 3>>

MCWorlds == <<
    Work({c1, c2}, {"run"}, 1, 0, 1, 1),
    Work({c1, c2}, {"init", "pulla"}, 2, 0, 2, 0),
    Work({c1, c2}, {"set"}, 2, 0, 2, 0),
    Work({c1, c2}, {"arch"}, 2, 0, 2, 0),
    Work({c1}, {"set", "run"}, 2, 2, 2, 0),
    Work({c1}, {"arch"}, 2, 2, 2, 0),
    Work({c1}, {"set", "arch"}, 2, 0, 1, 2)>>
    \o [i \in 1..Len(Answers) |-> LoginOf(i)]

=============================================================================
