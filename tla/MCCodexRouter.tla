-------------------------- MODULE MCCodexRouter ---------------------------
(* Two tabs, a thread and its descendant, and the plans the router is      *)
(* checked under.                                                          *)
EXTENDS CodexRouter

CONSTANTS a, b, t, c, q, r1, r2, r3

MCBy == (r1 :> a) @@ (r2 :> b) @@ (r3 :> a)
MCPurpose == (r1 :> "root") @@ (r2 :> "root") @@ (r3 :> "control")
MCAbout == [r \in Request |-> t]
MCParent == (t :> NoThread) @@ (c :> t)
MCAskThread == [k \in Ask |-> c]

Quiet == [requests |-> {}, asks |-> {}, slow |-> {}, fickle |-> {}, exits |-> FALSE,
          events |-> (t :> 0) @@ (c :> 0), closes |-> (t :> 0) @@ (c :> 0)]

(* Two tabs want one thread, which is closed and opened again.             *)
Contended == [Quiet EXCEPT !.requests = {r1, r2, r3}, !.events = (t :> 1) @@ (c :> 0),
                           !.closes = (t :> 1) @@ (c :> 0)]
(* Deadlines, retirement and the process's end.                            *)
Failing == [Quiet EXCEPT !.requests = {r1, r3}, !.slow = {r1, r3}, !.fickle = {r1},
                         !.exits = TRUE]
(* A descendant that speaks and asks before or after it is claimed, under  *)
(* a parent two tabs want, and under one its tab leaves.                   *)
Descendant == [Quiet EXCEPT !.requests = {r1, r2}, !.asks = {q},
                            !.events = (t :> 0) @@ (c :> 1)]
Leaving == [Descendant EXCEPT !.requests = {r1, r3}, !.closes = (t :> 0) @@ (c :> 1)]
(* Notifications around the claim of a root.                               *)
Early == [Quiet EXCEPT !.requests = {r1, r2}, !.events = (t :> 3) @@ (c :> 0)]
MCPlans == {Contended, Failing, Descendant, Leaving, Early}
====
