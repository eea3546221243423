------------------------- MODULE MCAssemblyProcess -------------------------
(***************************************************************************)
(* Programs for AssemblyProcess: code that puts five words  of the call on  *)
(* the stack and then, behind a tag, so that the optimiser knows nothing of *)
(* them, runs two fragments.                                                *)
(***************************************************************************)
EXTENDS AssemblyProcess

O(i) == <<Operation(i)>>

Prologue ==
    FlattenSeq([n \in 1..5 |-> <<Push(5 - n), Operation("CALLDATALOAD")>>]) \o <<Tag(1)>>

\* Places that may or may not overlap, by one byte too
Places == {<<Push(0)>>, <<Push(13)>>, <<DUP(1)>>, <<DUP(2)>>, <<DUP(1), Push(13)>> \o O("ADD"),
           <<DUP(1), Push(14)>> \o O("ADD")}
Values == {<<Push(5)>>, <<DUP(3)>>}

LoadsBy(i)  == {p \o O(i) : p \in Places}
StoresBy(i) == {v \o p \o O(i) : v \in Values, p \in Places}
Hashes    == {<<Push(14)>> \o p \o O("KECCAK256") : p \in Places}

\* Fragments that compute on the stack, and what ends a chunk
OtherFragments ==
    {O("ADD"), O("POP"), <<SWAP(1)>>, O("RETURN"), O("ISZERO"),
     <<PushTag(2)>> \o O("JUMPI") \o <<Push(7), Push(0)>> \o O("SSTORE") \o <<Tag(2)>>}

Library == <<[file |-> "f", name |-> "L"], [file |-> "g", name |-> "L"], [file |-> "", name |-> "M"]>>

\* A program of the fragments, with the data, subassemblies and libraries of all
SubAssembly ==
    NewAssembly(<<Push(2 ^ 20), Push(2)>> \o O("MSTORE") \o <<PushLibraryAddress(2), Tag(1), Push(2 ^ 20)>>,
                << >>, << >>, << >>, Library, 2)

Program(body, subs, data, auxiliary) ==
    NewAssembly(body \o O("STOP"), subs, data, auxiliary, Library, 4)

Fragments == StoresBy("MSTORE") \cup StoresBy("SSTORE") \cup LoadsBy("MLOAD") \cup LoadsBy("SLOAD")
             \cup Hashes \cup OtherFragments

\* A fragment with another one, and reads behind two writes
MemoryPrograms ==
    {Program(Prologue \o f \o g, << >>, << >>, << >>) : f \in OtherFragments, g \in Fragments \ OtherFragments}
    \cup {Program(Prologue \o f \o g \o h, << >>, << >>, << >>) :
             f \in StoresBy("MSTORE") \cup LoadsBy("MLOAD"), g \in StoresBy("MSTORE"), h \in LoadsBy("MLOAD") \cup Hashes}
    \cup {Program(Prologue \o f \o g \o h, << >>, << >>, << >>) :
             f \in StoresBy("SSTORE") \cup LoadsBy("SLOAD"), g \in StoresBy("SSTORE"), h \in LoadsBy("SLOAD")}

\* Constants that are copied, computed and left, several times
Large == {2 ^ 28 - 1, 2 ^ 20, 2 ^ 20 - 1, 2 ^ 27 + 5, 12345678, 2 ^ 28 - 2 ^ 20, 2 ^ 14}
ConstantPrograms ==
    {Program(<<Push(5), Push(1)>> \o O("MSTORE") \o <<Tag(1)>> \o [n \in 1..times |-> Push(c)] \o <<Push(d)>>, << >>, << >>, << >>) :
        times \in 1..3, c \in Large, d \in Large}

\* References of all kinds in code of every length around the widths of tags
Filler(n) == [i \in 1..n |-> Operation("STOP")]
\* Copies the subassembly to memory as the code for contract creation does.
CopySub == <<PushSubSize(0), DUP(1), PushSub(0), Push(0)>> \o O("CODECOPY")
ReferenceFragments ==
    {CopySub, CopySub \o CopySub, CopySub \o <<toSubAssemblyTag(Tag(1), 0)>>,
     <<PushProgramSize, PushTag(0)>>, <<PushSubSize(0), PushLibraryAddress(1), PushLibraryAddress(3)>>,
     <<PushSubSize(0), PushData(1), PushProgramSize>>,
     <<PushLibraryAddress(1), PushLibraryAddress(2), PushLibraryAddress(3)>> \o CopySub}
ReferencePrograms ==
    {Program(f \o <<PushTag(3)>> \o O("JUMP") \o Filler(n) \o <<Tag(2), PushTag(2), Tag(3)>>,
             <<SubAssembly>>, <<<<1, 2, 3>>>>, [x \in 1..(n % 5) |-> 1]) : n \in 0..40, f \in ReferenceFragments}

Creation == [runs |-> 1, isCreation |-> TRUE, svmVersion |-> 0]
Runtime  == [runs |-> 20, isCreation |-> FALSE, svmVersion |-> 5]

MCCases ==
    {[asm |-> p, settings |-> Runtime] : p \in MemoryPrograms \cup ConstantPrograms}
    \cup {[asm |-> p, settings |-> Creation] : p \in ConstantPrograms \cup ReferencePrograms}

\* Hashes of two stretches of memory of which one is part of the other
KeccakCases ==
    {[asm |-> Program(Prologue \o <<Push(0)>> \o O("MSTORE") \o <<Tag(2), Push(n), Push(0)>>
                      \o O("KECCAK256") \o <<Push(14), Push(0)>> \o O("KECCAK256"), << >>, << >>, << >>),
      settings |-> Runtime] : n \in {12, 14}}

Address(n) == Digits(n, AddressBytes)

MCAddresses ==
    {Library[1] :> Address(9), [file |-> "", name |-> "L"] :> Address(6),
     (Library[2] :> Address(3)) @@ (Library[3] :> Address(12))}

\* Words that are equal, and one byte less than a word, a word and more apart
MCInputs ==
    {[words |-> p \o <<3, 4, 6>>, storage |-> 0 :> p[1] % 2] :
        p \in {<<0, 0>>, <<0, 13>>, <<13, 27>>, <<14, 1>>, <<13, Ones>>}}

=============================================================================
