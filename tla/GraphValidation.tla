---------------------------- MODULE GraphValidation ----------------------------
(***************************************************************************)
(* Graph::new (crates/agent/src/orchestration/graph.rs): from a definition *)
(* as the user wrote it to the checked graph every run works with, or the  *)
(* list of what is wrong with it.  One action per stage, and one step per  *)
(* turn of the loops whose end is not obvious: Kahn's algorithm, and the   *)
(* walk that finds a cycle to report.                                      *)
(*                                                                         *)
(* Text is abstract.  Whether a version, a limit, a name, an id, a prompt  *)
(* or a template is acceptable by itself is the flag `flawed`; what one    *)
(* part of the definition says about another is kept.                      *)
(***************************************************************************)
EXTENDS Integers, FiniteSets, Sequences
LOCAL INSTANCE Relation
LOCAL INSTANCE FiniteSetsExt

CONSTANTS Definitions,  \* the definitions to validate
          MaxNodes      \* MAX_NODES, the width of an ancestor mask

(* A definition: nodes in the order of the file, each with an id, the name *)
(* of its slot, the ids it needs in the order it lists them, and the ids   *)
(* whose output its prompt reads; the names of the declared slots.         *)
VARIABLES def, stage, errors, needs, waiting, done, order, path, ancestors, depth

vars == <<def, stage, errors, needs, waiting, done, order, path, ancestors, depth>>

Count == Len(def.nodes)

Index == 1..Count

Ids == {def.nodes[i].id : i \in Index}

Elements(q) == {q[i] : i \in DOMAIN q}

\* index_nodes: a repeated id keeps its last index.
IndexOf(id) == Max({i \in Index : def.nodes[i].id = id})

Error(kind, about) == [kind |-> kind, about |-> about]

-------------------------------------------------------------------------------
(* Reading the definition. *)

\* The known dependencies of node i, each once, in the order it lists them.
Indices(i) ==
    LET listed == def.nodes[i].needs
        kept   == SelectSeq([j \in DOMAIN listed |-> j],
                            LAMBDA j : listed[j] \in Ids /\ \A k \in 1..(j - 1) : listed[k] # listed[j])
    IN  [k \in DOMAIN kept |-> IndexOf(listed[kept[k]])]

Unknown(i) == {id \in Elements(def.nodes[i].needs) : id \notin Ids}

Repeats(i) ==
    LET listed == def.nodes[i].needs
    IN  \E j, k \in DOMAIN listed : j < k /\ listed[j] = listed[k] /\ listed[j] \in Ids

ReadErrors ==
    (IF def.flawed THEN {Error("Flawed", {})} ELSE {})
    \cup (IF Count = 0 THEN {Error("NoNodes", {})} ELSE {})
    \cup (IF Count > MaxNodes THEN {Error("TooManyNodes", {})} ELSE {})
    \cup {Error("DuplicateNode", {i}) :
              i \in {k \in Index : \E j \in 1..(k - 1) : def.nodes[j].id = def.nodes[k].id}}
    \cup {Error("UnknownSlot", {i}) : i \in {k \in Index : def.nodes[k].slot \notin def.slots}}
    \cup {Error("UnknownDependency", {i}) : i \in {k \in Index : Unknown(k) # {}}}
    \cup {Error("RepeatedDependency", {i}) : i \in {k \in Index : Repeats(k)}}

\* Only a definition whose ids can be resolved, once each, within the width of
\* a mask is looked at further.
Indexable ==
    /\ \A i \in Index : Unknown(i) = {}
    /\ Cardinality(Ids) = Count
    /\ Count <= MaxNodes

Read ==
    /\ stage = "read"
    /\ errors' = ReadErrors
    /\ needs' = [i \in Index |-> Indices(i)]
    /\ waiting' = [i \in Index |-> Len(needs'[i])]
    /\ stage' = IF Indexable THEN "sort" ELSE "rejected"
    /\ UNCHANGED <<def, done, order, path, ancestors, depth>>

-------------------------------------------------------------------------------
(* topological_order. *)

Free == {i \in Index : i \notin done /\ waiting[i] = 0}

Take ==
    /\ stage = "sort" /\ Free # {}
    /\ LET next == Min(Free)
       IN  /\ done' = done \cup {next}
           /\ order' = Append(order, next)
           /\ waiting' = [i \in Index |->
                  IF next \in Elements(needs[i]) THEN waiting[i] - 1 ELSE waiting[i]]
    /\ UNCHANGED <<def, stage, errors, needs, path, ancestors, depth>>

SortEnds ==
    /\ stage = "sort" /\ Free = {}
    /\ \/ /\ Len(order) = Count
          /\ stage' = "relate" /\ UNCHANGED path
       \/ /\ Len(order) # Count
          /\ stage' = "follow" /\ path' = <<Min(Index \ done)>>
    /\ UNCHANGED <<def, errors, needs, waiting, done, order, ancestors, depth>>

\* The first dependency of the last node of the path that is left too.
Following ==
    LET left == SelectSeq(needs[path[Len(path)]], LAMBDA d : d \notin done)
    IN  IF left = <<>> THEN path[1] ELSE left[1]

\* Mutant of Follow: the walk is reported from its start, the way into the
\* cycle included.
FollowUncut ==
    /\ stage = "follow"
    /\ \/ /\ Following \in Elements(path)
          /\ errors' = errors \cup {Error("Cycle", Elements(path))}
          /\ stage' = "rejected" /\ UNCHANGED path
       \/ /\ Following \notin Elements(path)
          /\ path' = Append(path, Following)
          /\ UNCHANGED <<stage, errors>>
    /\ UNCHANGED <<def, needs, waiting, done, order, ancestors, depth>>

\* Follow dependencies until one is met again: from there on it is a cycle.
Follow ==
    /\ stage = "follow"
    /\ \/ \E p \in DOMAIN path :
             /\ path[p] = Following
             /\ path' = SubSeq(path, p, Len(path))
             /\ errors' = errors \cup {Error("Cycle", Elements(path'))}
             /\ stage' = "rejected"
       \/ /\ Following \notin Elements(path)
          /\ path' = Append(path, Following)
          /\ UNCHANGED <<stage, errors>>
    /\ UNCHANGED <<def, needs, waiting, done, order, ancestors, depth>>

-------------------------------------------------------------------------------
(* Ancestors, and what needs them. *)

\* Nodes are related in `order`, so what they depend on has been already.
RelatedTo(a, i) == UNION {a[d] \cup {d} : d \in Elements(needs[i])}

Relate ==
    /\ stage = "relate"
    /\ \E k \in DOMAIN order :
          /\ DOMAIN ancestors = {order[j] : j \in 1..(k - 1)}
          /\ ancestors' = [i \in DOMAIN ancestors \cup {order[k]} |->
                 IF i = order[k] THEN RelatedTo(ancestors, i) ELSE ancestors[i]]
          /\ depth' = [i \in DOMAIN ancestors' |->
                 IF i = order[k] THEN Max({0} \cup {depth[d] + 1 : d \in Elements(needs[i])}) ELSE depth[i]]
    /\ UNCHANGED <<def, stage, errors, needs, waiting, done, order, path>>

NotAncestors ==
    {Error("NotAncestor", {i}) : i \in {k \in Index :
        \E id \in def.nodes[k].reads : id \notin Ids \/ IndexOf(id) \notin ancestors[k]}}

\* Mutant of UnorderedSlots: only neighbours in the file are compared.
UnorderedNeighbours ==
    {Error("UnorderedSlot", {p - 1, p}) : p \in {k \in Index \ {1} :
        /\ def.nodes[k].slot = def.nodes[k - 1].slot /\ def.nodes[k].slot \in def.slots
        /\ (k - 1) \notin ancestors[k] /\ k \notin ancestors[k - 1]}}

UnorderedSlots ==
    {Error("UnorderedSlot", {p[1], p[2]}) : p \in {q \in Index \X Index :
        /\ q[1] < q[2]
        /\ def.nodes[q[1]].slot = def.nodes[q[2]].slot /\ def.nodes[q[1]].slot \in def.slots
        /\ q[1] \notin ancestors[q[2]] /\ q[2] \notin ancestors[q[1]]}}

Judge ==
    /\ stage = "relate" /\ DOMAIN ancestors = Elements(order)
    /\ errors' = errors \cup NotAncestors \cup UnorderedSlots
    /\ stage' = IF errors' = {} THEN "accepted" ELSE "rejected"
    /\ UNCHANGED <<def, needs, waiting, done, order, path, ancestors, depth>>

-------------------------------------------------------------------------------
Init ==
    /\ def \in Definitions
    /\ stage = "read" /\ errors = {}
    /\ needs = <<>> /\ waiting = <<>> /\ done = {} /\ order = <<>> /\ path = <<>>
    /\ ancestors = <<>> /\ depth = <<>>

Next == Read \/ Take \/ SortEnds \/ Follow \/ Relate \/ Judge

Spec == Init /\ [][Next]_vars

\* A function that is called runs on.

-------------------------------------------------------------------------------
(* Properties. *)

\* Nothing the stages keep leaves its domain; in particular `waiting`, a
\* usize, is never counted below zero.
TypeOK ==
    /\ stage \in {"read", "sort", "follow", "relate", "accepted", "rejected"}
    /\ \A i \in DOMAIN waiting : waiting[i] \in 0..Count
    /\ done \subseteq Index /\ Elements(order) = done
    /\ Elements(path) \subseteq Index

Ended == stage \in {"accepted", "rejected"}

\* What a run may assume of its graph (module OrchestrationGraph) holds of every
\* graph Graph::new returns: the order is topological and complete, the masks
\* are the closure of `needs`, nodes of one slot are ordered, and a dependency
\* is drawn in an earlier column.
AcceptedGraph ==
    stage = "accepted" =>
        /\ Index # {} /\ Len(order) = Count /\ Elements(order) = Index
        /\ \A j, k \in DOMAIN order : order[j] \in Elements(needs[order[k]]) => j < k
        /\ \A i \in Index :
              ancestors[i] = Elements(needs[i]) \cup UNION {ancestors[d] : d \in Elements(needs[i])}
        /\ \A i, j \in Index :
              i # j /\ def.nodes[i].slot = def.nodes[j].slot => i \in ancestors[j] \/ j \in ancestors[i]
        /\ \A i \in Index : \A d \in Elements(needs[i]) : depth[d] < depth[i]

\* What a well-formed definition is, without an algorithm: no name is wrong, no
\* id depends on itself in the transitive closure, prompts read ancestors, and
\* nodes of one slot are comparable.
WellFormed(d) ==
    LET n       == DOMAIN d.nodes
        ids     == {d.nodes[i].id : i \in n}
        direct  == [p \in ids \X ids |->
                       \E i \in n : d.nodes[i].id = p[2] /\ p[1] \in Elements(d.nodes[i].needs)]
        before  == TransitiveClosure(direct, ids)
    IN  /\ ~d.flawed /\ n # {} /\ Cardinality(n) <= MaxNodes /\ Cardinality(ids) = Cardinality(n)
        /\ \A i \in n :
              /\ d.nodes[i].slot \in d.slots
              /\ Elements(d.nodes[i].needs) \subseteq ids
              /\ Cardinality(Elements(d.nodes[i].needs)) = Len(d.nodes[i].needs)
        /\ \A x \in ids : ~before[x, x]
        /\ \A i \in n : \A r \in d.nodes[i].reads : r \in ids /\ before[r, d.nodes[i].id]
        /\ \A i, j \in n : i # j /\ d.nodes[i].slot = d.nodes[j].slot =>
              before[d.nodes[i].id, d.nodes[j].id] \/ before[d.nodes[j].id, d.nodes[i].id]

\* "always taking the earliest ready node" (graph.rs:401): no node that was free
\* to come earlier, and is declared earlier, follows a later one, so the order
\* is stable under edits elsewhere in the file.
EarliestFirst ==
    \A j, k \in DOMAIN order :
        j < k /\ order[k] < order[j] =>
            \E m \in j..(k - 1) : order[m] \in Elements(needs[order[k]])

\* Graph::new accepts the well-formed definitions and no other, and what it
\* returns is the graph a run relies on, in the order its comment promises.
VerdictExact ==
    /\ Ended => (stage = "accepted" <=> WellFormed(def))
    /\ AcceptedGraph /\ EarliestFirst

\* "On a cycle, returns one cycle, each node followed by one of its
\* dependencies" (graph.rs:402): every node of a reported cycle needs the next,
\* the last needs the first, and none that only leads into it is named.
CycleIsReal ==
    \A e \in errors : e.kind = "Cycle" =>
        /\ e.about = Elements(path) /\ Cardinality(e.about) = Len(path)
        /\ \A p \in DOMAIN path : path[(p % Len(path)) + 1] \in Elements(Indices(path[p]))

===============================================================================
