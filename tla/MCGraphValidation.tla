--------------------------- MODULE MCGraphValidation ---------------------------
(***************************************************************************)
(* Definitions to validate.  Ids are numbers; 0 is an id, and a slot name, *)
(* that is never declared.                                                 *)
(***************************************************************************)
EXTENDS GraphValidation

MCMaxNodes == 4

Declared(ids, needsOf, slotOf, readsOf, isFlawed) ==
    [nodes  |-> [i \in DOMAIN ids |->
                    [id |-> ids[i], needs |-> needsOf[i], slot |-> slotOf[i], reads |-> readsOf[i]]],
     slots  |-> {1, 2, 3},
     flawed |-> isFlawed]

Lists(S, k) == UNION {[1..m -> S] : m \in 0..k}

NoReads(k) == [i \in 1..k |-> {}]

\* Every way two nodes may list up to two dependencies each, and a third also
\* unknown and repeated ones; in one slot, in two with a prompt that reads an
\* output, and with an unknown slot.
Distinct(k) == {q \in Lists(1..k, 2) : Len(q) = 2 => q[1] # q[2]}

Triples ==
    {Declared(<<1, 2, 3>>, <<n[1], n[2], n[3]>>, sr[1], sr[2], FALSE) :
        n \in Distinct(3) \X Distinct(3) \X Lists(0..3, 2),
        sr \in {<<<<1, 1, 1>>, NoReads(3)>>,
               <<<<1, 2, 1>>, <<{}, {1}, {}>>>>,
               <<<<1, 2, 0>>, NoReads(3)>>}}

\* Every way four nodes may depend on up to two others each, in two slots.
Ascending(k) == {q \in Lists(1..k, 2) : Len(q) = 2 => q[1] < q[2]}

Quads ==
    {Declared(<<1, 2, 3, 4>>, n, <<1, 2, 3, 1>>, NoReads(4), FALSE) : n \in [1..4 -> Ascending(4)]}

\* The cases that are turned down for their size or their names.
Oddities ==
    {Declared(<<>>, <<>>, <<>>, <<>>, FALSE),
     Declared(<<1, 1>>, <<<<>>, <<1>>>>, <<1, 2>>, NoReads(2), FALSE),
     Declared(<<1, 2>>, <<<<>>, <<1>>>>, <<1, 1>>, NoReads(2), TRUE),
     Declared(<<1, 2>>, <<<<>>, <<1>>>>, <<1, 1>>, <<{}, {0}>>, FALSE),
     Declared(<<1, 2, 3, 4, 5>>, [i \in 1..5 |-> <<>>], <<1, 2, 3, 1, 2>>, NoReads(5), FALSE)}

MCDefinitions == Quads \cup Triples \cup Oddities

===============================================================================
