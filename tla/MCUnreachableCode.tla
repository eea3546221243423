-------------------------- MODULE MCUnreachableCode --------------------------
(***************************************************************************)
(* Graphs with three inner nodes, of which the first is always entered      *)
(* first, at most two arcs out of a node, and small overlapping, touching   *)
(* and separate locations.                                                  *)
(***************************************************************************)
EXTENDS UnreachableCode, FiniteSets, TLC

CONSTANTS entry, exit, revert, n1, n2, n3

MCNodes == {entry, exit, revert, n1, n2, n3}

Loc(s, x, y) == [source |-> s, start |-> x, end |-> y]
Nowhere == Loc(1, -1, -1)

Graph(eE, eA, eB, eC, lA, lB, lC) ==
    [exits |-> (entry :> eE @@ n1 :> eA @@ n2 :> eB @@ n3 :> eC
                    @@ exit :> {} @@ revert :> {}),
     location |-> (entry :> Loc(1, 0, 1) @@ n1 :> lA @@ n2 :> lB @@ n3 :> lC
                    @@ exit :> Nowhere @@ revert :> Nowhere)]

Successors(n) == {S \in SUBSET ({n1, n2, n3, exit, revert} \ {n}) : Cardinality(S) = 1}
                    \cup {{exit, revert}, {n2, n3}, {n, exit}}

OneSourceLocations ==
    {<<Loc(1, 1, 3), Loc(1, 2, 4), Loc(1, 4, 6)>>,
     <<Loc(1, 2, 3), Loc(1, 3, 4), Loc(1, 2, 6)>>,
     <<Loc(1, 1, 2), Nowhere, Loc(1, 1, 2)>>}

GraphsWith(L) ==
    {Graph({x}, eA, eB, eC, l[1], l[2], l[3]) :
        x \in {n1, exit}, eA \in Successors(n1), eB \in Successors(n2),
        eC \in Successors(n3), l \in L}

MCGraphs == GraphsWith(OneSourceLocations)

\* A function of source 1 with a modifier { revert(); _; s; } of source 2, or
\* the other way round: n3 is the block after revert(), n1 the body of the
\* function in place of the placeholder, n2 the statement s.
TwoSourcesGraphs ==
    {Graph({revert}, {n2}, {exit}, {n1}, Loc(x, 2, 5), Loc(3 - x, y, y + 1), Nowhere) :
        x \in {1, 2}, y \in {1, 4, 7}}

=============================================================================
