---------------------------- MODULE MCDiscovery -----------------------------
(***************************************************************************)
(* Two callers of a QClient, two backends on one HEAppE instance or two.   *)
(***************************************************************************)
EXTENDS Discovery, TLC

CONSTANTS c1, c2, b1, b2, u1, u2, r1, r2

Assigned(b, u) == [quantum |-> TRUE, location |-> b, url |-> u]
Classical(b, u) == [quantum |-> FALSE, location |-> b, url |-> u]

Resource(n, window, as) == [name |-> n, window |-> window, assignments |-> as]

Valid == [issuer |-> TRUE, alg |-> TRUE, kid |-> "none",
          signed |-> TRUE, user |-> TRUE, expired |-> FALSE]

Answer(token, window, rs) ==
    [token |-> token, member |-> TRUE, window |-> window, resources |-> rs]

Both == Answer(Valid, "open", <<
    Resource(r2, "open", <<Classical(b2, u1)>>),
    Resource(r1, "undated", <<Classical(b1, u2), Assigned(b1, u1),
                              Assigned(b2, u1), Assigned(b2, u2)>>)>>)
Moved == Answer(Valid, "open", <<
    Resource(r2, "garbled", <<Assigned(None, u2), Assigned(b2, u1)>>)>>)
Apart == Answer(Valid, "undated", <<
    Resource(r2, "open", <<Assigned(b1, u1)>>),
    Resource(r1, "open", <<Assigned(b1, u1), Assigned(b2, u2)>>)>>)
Expired == Answer([Valid EXCEPT !.expired = TRUE], "open", Both.resources)
Over == Answer(Valid, "over", Both.resources)
Early == Answer([Valid EXCEPT !.kid = "known"], "open", <<
    Resource(r1, "early", <<Assigned(b1, u1)>>)>>)

Case(wanted, lazy, h1, h2, apart, now, then, n, m) ==
    [connects |-> n, calls |-> m, wanted |-> wanted, lazy |-> lazy,
     loop |-> c1 :> 1 @@ c2 :> (IF apart THEN 2 ELSE 1),
     heappe |-> b1 :> h1 @@ b2 :> h2, now |-> now, later |-> then]

MCWorlds == <<
    Case(None, FALSE, "hidden", "hidden", FALSE, Both, Moved, 2, 4),
    Case(None, TRUE, "hidden", "hidden", TRUE, Both, Both, 1, 3),
    Case(r1, FALSE, "listed", "hidden", FALSE, Apart, Over, 1, 3),
    Case(r1, FALSE, "absent", "hidden", FALSE, Both, Expired, 2, 4),
    Case(r1, TRUE, "bare", "listed", FALSE, Both, Early, 1, 3),
    Case(None, FALSE, "listed", "listed", FALSE, Apart, Early, 1, 3)>>

=============================================================================
