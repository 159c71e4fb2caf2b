-------------------------- MODULE MCOrchestrationRun --------------------------
(***************************************************************************)
(* A diamond whose ends share a slot, and a node beside it: a before b and *)
(* c, both before d; e depends on nothing.  a and d run in slot "dev", the *)
(* others in slots of their own.  b, c and e can be ready at once, one     *)
(* more than may run.                                                      *)
(***************************************************************************)
EXTENDS OrchestrationRun, TLC

MCNode == {"a", "b", "c", "d", "e"}

MCSlot == {"dev", "web", "api", "doc"}

MCNeeds ==
    ("a" :> {}) @@ ("b" :> {"a"}) @@ ("c" :> {"a"}) @@ ("d" :> {"b", "c"}) @@ ("e" :> {})

MCAncestors ==
    ("a" :> {}) @@ ("b" :> {"a"}) @@ ("c" :> {"a"}) @@ ("d" :> {"a", "b", "c"}) @@ ("e" :> {})

MCSlotOf ==
    ("a" :> "dev") @@ ("b" :> "web") @@ ("c" :> "api") @@ ("d" :> "dev") @@ ("e" :> "doc")

MCPosition == ("a" :> 0) @@ ("b" :> 1) @@ ("c" :> 2) @@ ("d" :> 3) @@ ("e" :> 4)

===============================================================================
