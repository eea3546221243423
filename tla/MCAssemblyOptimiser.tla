------------------------ MODULE MCAssemblyOptimiser ------------------------
(***************************************************************************)
(* The programs on which AssemblyOptimiser is checked.                     *)
(***************************************************************************)
EXTENDS AssemblyBehaviour

Op(instruction) == Operation(instruction)

AllSettings(jumpdests, peephole, deduplicate) ==
    [runJumpdestRemover : jumpdests, runPeephole : peephole, runDeduplicate : deduplicate]

\* Nothing here is a tag number, and neither is the result of a comparison.
MCStacks == {<<a, b, 10, 5>> : a \in {0, 5, 15}, b \in {0, 5}}

-----------------------------------------------------------------------------
(* Straight-line code followed by two tagged blocks: every window of the    *)
(* peephole optimiser, alone and overlapping another.                       *)

Alphabet ==
    {Push(0), Push(5), Push(15), PushTag(2), PushTag(3)} \cup
        {Op(i) : i \in {"ADD", "AND", "NOT", "ISZERO", "LT", "POP", "DUP1", "SWAP1",
                        "SSTORE", "CALL", "STOP", "JUMP", "JUMPI"}}

LongAlphabet ==
    {Push(15), PushTag(2), PushTag(3)} \cup {Op(i) : i \in {"ISZERO", "JUMPI", "AND", "JUMP"}}

Straight ==
    UNION {[1..n -> Alphabet] : n \in 1..3} \cup [1..4 -> LongAlphabet]

Targets == <<Tag(2), Op("SSTORE"), Op("SSTORE"), Op("STOP"), Tag(3), Op("POP"), Op("SSTORE"), Op("STOP")>>

StraightAssemblies == {[sub |-> <<Op("STOP")>>, outer |-> body \o Targets] : body \in Straight}

StraightCases ==
    [assembly : StraightAssemblies, settings : AllSettings({TRUE}, {TRUE}, {FALSE})]

-----------------------------------------------------------------------------
(* A sub-assembly of tagged blocks, one of which the outer assembly stores. *)

StoreTag(t) == <<ForeignPushTag(Sub, t), Push(5), Op("SSTORE"), Op("STOP")>>

JumpTo(t)   == <<PushTag(t), Op("JUMP")>>
BranchTo(t) == <<PushTag(t), Op("JUMPI")>>
Store       == <<Op("SSTORE"), Op("STOP")>>
Drop        == <<Op("POP")>>

Dispatch == BranchTo(2) \o JumpTo(3)

BlockBodies(tags) ==
    {Store, Drop, Drop \o Store} \cup {JumpTo(t) : t \in tags} \cup {BranchTo(t) : t \in tags}

ThreeBlocks(b) == Dispatch \o <<Tag(2)>> \o b[1] \o <<Tag(3)>> \o b[2] \o <<Tag(6)>> \o b[3]

BlockAssemblies ==
    {[sub |-> ThreeBlocks(b), outer |-> StoreTag(t)] :
        b \in [1..3 -> BlockBodies({2, 3, 6})], t \in {2, 3, 6}}

BlockCases ==
    [assembly : BlockAssemblies, settings : AllSettings(BOOLEAN, BOOLEAN, {TRUE})]

MCCases == StraightCases \cup BlockCases

=============================================================================
