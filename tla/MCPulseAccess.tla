--------------------------- MODULE MCPulseAccess ---------------------------
(***************************************************************************)
(* One thread that asks under several names while clients are closed and   *)
(* the project's resources change; one that clears the cache; two that ask *)
(* at once; one that submits through two QPullas, or again and again; two  *)
(* that share an executor, and two that share a definition as well.        *)
(***************************************************************************)
EXTENDS PulseAccess
CONSTANTS t1, t2, r1, r2, def, circuit

One == <<{r1}>>
Moves == <<{r1}, {r2}>>
Grows == <<{r1}, {r1, r2}>>

Provide(threads, grants, alone, closes, clears, most) ==
    [threads |-> threads, grants |-> grants, asked |-> Asked,
     alone |-> alone, pullas |-> most, closes |-> closes, clears |-> clears,
     calls |-> most, jobs |-> 0, defs |-> {}, shared |-> FALSE]

Execute(threads, most, closes, n, jobs, defs, shares) ==
    [threads |-> threads, grants |-> One, asked |-> {None},
     alone |-> {FALSE}, pullas |-> n, closes |-> closes, clears |-> FALSE,
     calls |-> most, jobs |-> jobs, defs |-> defs, shared |-> shares]

MCThreads == {t1, t2}
MCResources == {r1, r2}
MCRuns == {def}
MCCircuits == {circuit}
MCWorlds ==
    <<Provide({t1}, Grows, BOOLEAN, 0, FALSE, 3),
      Provide({t1}, Moves, {FALSE}, 1, TRUE, 4),
      Provide({t1, t2}, Moves, {FALSE}, 1, FALSE, 3),
      Execute({t1}, 6, 0, 1, 3, {def, circuit}, FALSE),
      Execute({t1}, 6, 1, 2, 2, {circuit}, FALSE),
      Execute({t1, t2}, 4, 0, 1, 2, {def, circuit}, FALSE),
      Execute({t1, t2}, 4, 0, 1, 2, {def}, TRUE)>>
=============================================================================
