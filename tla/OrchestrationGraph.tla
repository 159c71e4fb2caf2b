-------------------------- MODULE OrchestrationGraph --------------------------
(***************************************************************************)
(* The checked task graph of an orchestration run, as Graph::new leaves it *)
(* for the scheduler (crates/agent/src/orchestration/graph.rs).  A run     *)
(* never changes its graph, so everything here is a constant; the          *)
(* assumptions are what Graph::new has verified before it returns Ok, and  *)
(* module GraphValidation checks that it really does.                      *)
(***************************************************************************)
EXTENDS Integers, FiniteSets

CONSTANTS Node,         \* the nodes of the definition
          Slot,         \* its agent slots, one conversation each
          Needs,        \* Needs[n]: the nodes n depends on directly
          Ancestors,    \* Ancestors[n]: the nodes n depends on at any distance
          SlotOf,       \* SlotOf[n]: the slot that runs n
          Position,     \* Position[n]: index of n in Graph::order
          MaxParallel   \* how many nodes may run at once

ASSUME NodesFinite == IsFiniteSet(Node) /\ Node # {}

ASSUME MaxParallelPositive == MaxParallel \in Nat \ {0}

ASSUME GraphTyped ==
    /\ Needs \in [Node -> SUBSET Node]
    /\ Ancestors \in [Node -> SUBSET Node]
    /\ SlotOf \in [Node -> Slot]
    /\ Position \in [Node -> Nat]

\* graph.rs stores the closure of `needs`, one bit mask per node.
ASSUME AncestorsClosed ==
    \A n \in Node :
        Ancestors[n] = Needs[n] \cup UNION {Ancestors[d] : d \in Needs[n]}

\* Graph::order is a topological order without repetition.
ASSUME OrderTopological ==
    /\ \A n \in Node : \A d \in Needs[n] : Position[d] < Position[n]
    /\ \A m, n \in Node : Position[m] = Position[n] => m = n

\* Two nodes of one slot share a conversation, so one must follow the other
\* (DefinitionError::UnorderedSlot otherwise).
ASSUME SlotOrdered ==
    \A m, n \in Node :
        (m # n /\ SlotOf[m] = SlotOf[n]) => (m \in Ancestors[n] \/ n \in Ancestors[m])

===============================================================================
