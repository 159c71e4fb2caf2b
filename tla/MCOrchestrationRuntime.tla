------------------------ MODULE MCOrchestrationRuntime ------------------------
(***************************************************************************)
(* Two slots, three nodes: a before c in slot "dev", b beside them in slot *)
(* "web" and before c.                                                     *)
(***************************************************************************)
EXTENDS OrchestrationRuntime, TLC

MCNode == {"a", "b", "c"}

MCSlot == {"dev", "web"}

MCNeeds == ("a" :> {}) @@ ("b" :> {}) @@ ("c" :> {"a", "b"})

MCAncestors == MCNeeds

\* c has a template that reads b alone.
MCReads == ("a" :> {}) @@ ("b" :> {}) @@ ("c" :> {"b"})

MCSlotOf == ("a" :> "dev") @@ ("b" :> "web") @@ ("c" :> "dev")

MCPosition == ("a" :> 0) @@ ("b" :> 1) @@ ("c" :> 2)

\* Five worlds: agents that name their conversations at once, under any one fault
\* and a resume; Claude in "dev", where a turn may fail unnamed or end with the
\* session or the program before its conversation is saved; a stop and a resume,
\* Claude in "dev" or in "web", so that the turns of the other slot may begin
\* after the stop; two failures of the disk and the program together.
MCWorlds ==
    {[claude |-> {}, kinds |-> FaultKinds \ {"unnamed"}, faults |-> 1, stops |-> 0, resumes |-> 1],
     [claude |-> {"dev"}, kinds |-> {"crash", "exit", "unnamed"}, faults |-> 1, stops |-> 0, resumes |-> 1],
     [claude |-> {"dev"}, kinds |-> {}, faults |-> 0, stops |-> 1, resumes |-> 1],
     [claude |-> {"web"}, kinds |-> {}, faults |-> 0, stops |-> 1, resumes |-> 1],
     [claude |-> {}, kinds |-> {"crash", "write"}, faults |-> 2, stops |-> 0, resumes |-> 0]}

-------------------------------------------------------------------------------
(* One slot, two nodes in one conversation, a before b. *)

PairNode == {"a", "b"}

PairSlot == {"dev"}

PairNeeds == ("a" :> {}) @@ ("b" :> {"a"})

\* The text of b does not contain what a wrote: they share a conversation.
PairReads == ("a" :> {}) @@ ("b" :> {})

PairSlotOf == ("a" :> "dev") @@ ("b" :> "dev")

PairPosition == ("a" :> 0) @@ ("b" :> 1)

\* Claude, whose turn may fail before any line of it stated the conversation, and
\* an agent that may answer the request for a turn with an error.
SilentWorlds ==
    {[claude |-> {"dev"}, kinds |-> {"unnamed"}, faults |-> 1, stops |-> 0, resumes |-> 0],
     [claude |-> {}, kinds |-> {"refused"}, faults |-> 1, stops |-> 0, resumes |-> 0]}

===============================================================================
