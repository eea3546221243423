------------------------ MODULE MCControlFlowAnalyzer ------------------------
(***************************************************************************)
(* All graphs with two inner nodes, at most two arcs out of a node (what    *)
(* ControlFlowBuilder::splitFlow<2> and connect make), a storage return     *)
(* parameter ret, a storage pointer loc initialised by its declaration, and *)
(* a local mem of value type.                                               *)
(***************************************************************************)
EXTENDS ControlFlowAnalyzer, FiniteSets, TLC

CONSTANTS entry, exit, revert, n1, n2, ret, loc, mem

MCNodes == {entry, exit, revert, n1, n2}
MCVars == {ret, loc, mem}
MCStorageVars == {ret, loc}

Occ(k, v) == [kind |-> k, declaration |-> v]

Successors == {S \in SUBSET {n1, n2, exit, revert} : Cardinality(S) \in 1..2}

EntryBodies ==
    {<<Occ("Declaration", ret)>>,
     <<Occ("Declaration", ret), Occ("Declaration", mem),
       Occ("InlineAssembly", ret), Occ("Declaration", loc)>>}

InnerBodies ==
    {<<>>,
     <<Occ("Assignment", ret)>>,
     <<Occ("Access", ret)>>,
     <<Occ("Assignment", loc), Occ("Access", loc), Occ("Access", ret),
       Occ("Assignment", ret), Occ("Declaration", loc)>>}

Graph(eE, eA, eB, bE, bA, bB) ==
    [exits |-> (entry :> eE @@ n1 :> eA @@ n2 :> eB @@ exit :> {} @@ revert :> {}),
     variableOccurrences |->
        (entry :> bE @@ n1 :> bA @@ n2 :> bB
            @@ exit :> <<Occ("Return", ret)>> @@ revert :> <<>>)]

MCCFGs ==
    {Graph(eE, eA, eB, bE, bA, bB) :
        eE \in Successors \ SUBSET {exit, revert},
        eA \in Successors, eB \in Successors,
        bE \in EntryBodies, bA \in InnerBodies, bB \in InnerBodies}

=============================================================================
