--------------------------- MODULE AssemblyProcess ---------------------------
(***************************************************************************)
(* From an assembly to linked bytecode: Assembly::optimiseInternal with the *)
(* common subexpression eliminator and the constant optimiser, the          *)
(* subassemblies before the assembly that contains them; Assembly::assemble *)
(* and LinkerObject::link, which CompilerStack calls whenever it learns     *)
(* addresses of libraries (LinkerObject).  The other passes of              *)
(* optimiseInternal are in AssemblyOptimiser.                               *)
(*                                                                         *)
(* An assembly is the record [items, subs, data, auxiliary, libraries,      *)
(* usedTags].  A PushTag that refers to a tag of a subassembly has the      *)
(* number of the sub in the upper half of its data, above TagLimit.         *)
(* A byte of bytecode is <<instruction, n>>, where n is the number of a     *)
(* DUP, SWAP or PUSH, or <<"", n>> for any other byte.  A library is named  *)
(* by a file and a name in it.                                              *)
(***************************************************************************)
EXTENDS CommonSubexpressionEliminator, ConstantOptimiser, LinkerObject

CONSTANT TagLimit      \* 2^64: half of the data of a PushTag

NoSub == -1
NoPosition == -1

NewAssembly(items, subs, data, auxiliary, libraries, usedTags) ==
    [items |-> items, subs |-> subs, data |-> data, auxiliary |-> auxiliary,
     libraries |-> libraries, usedTags |-> usedTags]

PushSub(n)     == Item("PushSub", "", n)
PushSubSize(n) == Item("PushSubSize", "", n)
PushData(n)    == Item("PushData", "", n)
PushProgramSize == Item("PushProgramSize", "", 0)
PushLibraryAddress(n) == Item("PushLibraryAddress", "", n)

toSubAssemblyTag(item, sub) == PushTag(item.data + TagLimit * (sub + 1))

splitForeignPushTag(item) == <<(item.data \div TagLimit) - 1, item.data % TagLimit>>

-----------------------------------------------------------------------------
(* Assembly::assemble *)

ASSUME AddressSizeAssumption == AddressSize = AddressBytes

\* The bytes of a value in place of the ones after the first position bytes
Patch(bytecode, position, width, value) ==
    [n \in DOMAIN bytecode |->
        IF n \in (position + 1)..(position + width)
        THEN <<"", toBigEndian(value, width)[n - position]>> ELSE bytecode[n]]

\* Mutant of CodeBytes: counts tags as if they had one byte.
CodeBytesAnyWidth(asm, tagSize) ==
    1 + FoldLeft(LAMBDA sum, d : sum + Len(asm.data[d]), 0, SetToSortSeq(DOMAIN asm.data, <))
      + itemsBytes(asm.items, 1)

CodeBytes(asm, tagSize) ==
    1 + FoldLeft(LAMBDA sum, d : sum + Len(asm.data[d]), 0, SetToSortSeq(DOMAIN asm.data, <))
      + itemsBytes(asm.items, tagSize)

\* Assembly::bytesRequired: the first width of tags that suffices for the code.
RECURSIVE codeBytesRequired(_, _)
codeBytesRequired(asm, tagSize) ==
    IF bytesRequired(CodeBytes(asm, tagSize)) <= tagSize THEN CodeBytes(asm, tagSize)
    ELSE codeBytesRequired(asm, tagSize + 1)

Fail(a, assertion) == IF a.thrown = "" THEN [a EXCEPT !.thrown = assertion] ELSE a

Digits(value, width) == [n \in 1..width |-> <<"", toBigEndian(value, width)[n]>>]
PushBytes(value, width) == <<<<"PUSH", width>>>> \o Digits(value, width)

\* One item; tagWidth and dataWidth are bytesPerTag and bytesPerDataRef.  What is
\* pushed for a reference is filled in later.
assembleItem(a, asm, subs, tagWidth, dataWidth, item) ==
    LET here == Len(a.object.bytecode)
        Emit(bytes) == [a EXCEPT !.object.bytecode = @ \o bytes,
                                 !.positions[0] = IF item.type # "Tag" /\ @ = NoPosition THEN here ELSE @]
        EmitPush(value) == Emit(PushBytes(value, AtLeastOne(bytesRequired(value))))
    IN CASE item.type = "Operation" -> Emit(<<<<item.instruction, item.data>>>>)
         [] item.type = "Push" -> EmitPush(item.data)
         [] item.type = "PushTag" ->
                [Emit(PushBytes(0, tagWidth)) EXCEPT !.tagRef = ((here + 1) :> splitForeignPushTag(item)) @@ @]
         [] item.type = "PushData" ->
                [Emit(PushBytes(0, dataWidth)) EXCEPT !.dataRef = @ \cup {<<item.data, here + 1>>}]
         [] item.type = "PushSub" ->
                [Emit(PushBytes(0, dataWidth)) EXCEPT !.subRef = @ \cup {<<item.data, here + 1>>}]
         [] item.type = "PushSubSize" -> EmitPush(Len(subs[item.data + 1].object.bytecode))
         [] item.type = "PushProgramSize" ->
                [Emit(PushBytes(0, dataWidth)) EXCEPT !.sizeRef = @ \cup {here + 1}]
         [] item.type = "PushLibraryAddress" ->
                [Emit(PushBytes(0, AddressBytes)) EXCEPT
                    !.object.linkReferences = ((here + 1) :> asm.libraries[item.data]) @@ @]
         [] item.type = "PushDeployTimeAddress" -> Emit(PushBytes(0, AddressBytes))
         [] item.type = "Tag" ->
                IF item.data = 0 THEN Fail(a, "Invalid tag position.")
                ELSE IF splitForeignPushTag(item)[1] # NoSub THEN Fail(a, "Foreign tag.")
                ELSE IF a.positions[item.data] # NoPosition THEN Fail(a, "Duplicate tag position.")
                ELSE [Emit(<<<<"JUMPDEST", 0>>>>) EXCEPT !.positions[item.data] = here]

\* Mutant of FillReferences: one byte too far
FillReferencesBehind(a, refs, n, width) ==
    [a EXCEPT !.object.bytecode =
        FoldLeft(LAMBDA code, p : Patch(code, p, width, Len(code) + 1), @,
                 SetToSortSeq({r[2] : r \in {r \in refs : r[1] = n}}, <))]

\* Every reference in refs to thing n gets the size of the code so far.
FillReferences(a, refs, n, width) ==
    [a EXCEPT !.object.bytecode =
        FoldLeft(LAMBDA code, p : Patch(code, p, width, Len(code)), @,
                 SetToSortSeq({r[2] : r \in {r \in refs : r[1] = n}}, <))]

Referenced(refs, n) == \E r \in refs : r[1] = n

appendSubs(a, subs, width) ==
    FoldLeft(LAMBDA b, n : IF ~Referenced(a.subRef, n) THEN b
                           ELSE With(FillReferences(b, a.subRef, n, width), LAMBDA c :
                                    [c EXCEPT !.object = appendObject(@, subs[n + 1].object)]),
             a, [n \in DOMAIN subs |-> n - 1])

fillTag(a, subs, width, p) ==
    LET sub == a.tagRef[p][1]
        tag == a.tagRef[p][2]
    IN IF sub # NoSub /\ sub >= Len(subs) THEN Fail(a, "Invalid sub id")
       ELSE With(IF sub = NoSub THEN a.positions ELSE subs[sub + 1].positions, LAMBDA positions :
                IF tag \notin DOMAIN positions THEN Fail(a, "Reference to non-existing tag.")
                ELSE IF positions[tag] = NoPosition THEN Fail(a, "Reference to tag without position.")
                ELSE IF bytesRequired(positions[tag]) > width THEN Fail(a, "Tag too large for reserved space.")
                ELSE [a EXCEPT !.object.bytecode = Patch(@, p, width, positions[tag])])

fillTags(a, subs, width) ==
    FoldLeft(LAMBDA b, p : fillTag(b, subs, width, p), a, SetToSortSeq(DOMAIN a.tagRef, <))

appendData(a, asm, width) ==
    FoldLeft(LAMBDA b, d : IF ~Referenced(a.dataRef, d) THEN b
                           ELSE With(FillReferences(b, a.dataRef, d, width), LAMBDA c :
                                    [c EXCEPT !.object.bytecode =
                                        @ \o [n \in DOMAIN asm.data[d] |-> <<"", asm.data[d][n]>>]]),
             a, SetToSortSeq(DOMAIN asm.data, <))

fillSizes(a, width) ==
    [a EXCEPT !.object.bytecode =
        FoldLeft(LAMBDA code, p : Patch(code, p, width, Len(code)), @, SetToSortSeq(a.sizeRef, <))]

\* The separator between the code and what follows it
Separator(asm) ==
    IF asm.subs # << >> \/ asm.data # << >> \/ asm.auxiliary # << >> THEN <<<<"INVALID", 0>>>> ELSE << >>

TotalLength(subs) == FoldLeft(LAMBDA sum, s : sum + Len(s.object.bytecode), 0, subs)

\* The largest position of a tag in a subassembly, at least 1.
subTagSize(subs) ==
    LET all == {1} \cup UNION {{subs[n].positions[t] : t \in DOMAIN subs[n].positions} : n \in DOMAIN subs}
    IN CHOOSE n \in all : \A x \in all : x <= n

RECURSIVE assemble(_)
assemble(asm) ==
    With([n \in DOMAIN asm.subs |-> assemble(asm.subs[n])], LAMBDA subs :
    With(codeBytesRequired(asm, subTagSize(subs)), LAMBDA size :
    With(bytesRequired(size), LAMBDA tagWidth :
    With(bytesRequired(size + 1 + Len(asm.auxiliary) + TotalLength(subs)), LAMBDA dataWidth :
    With(FoldLeft(LAMBDA a, item : assembleItem(a, asm, subs, tagWidth, dataWidth, item),
                  [object |-> EmptyObject, positions |-> [t \in 0..(asm.usedTags - 1) |-> NoPosition],
                   tagRef |-> << >>, dataRef |-> {}, subRef |-> {}, sizeRef |-> {},
                   thrown |-> IF \E n \in DOMAIN subs : subs[n].thrown # "" THEN "in a sub" ELSE ""],
                  asm.items), LAMBDA code :
    With([code EXCEPT !.object.bytecode = @ \o Separator(asm)], LAMBDA separated :
    With(fillTags(appendSubs(separated, subs, dataWidth), subs, tagWidth), LAMBDA tagged :
    With(appendData(tagged, asm, dataWidth), LAMBDA withData :
        fillSizes([withData EXCEPT !.object.bytecode =
                      @ \o [n \in DOMAIN asm.auxiliary |-> <<"", asm.auxiliary[n]>>]],
                  dataWidth)))))))))

\* eachInstruction: the instructions of some bytecode, with what is pushed and
\* the position of each
RECURSIVE eachInstruction(_, _)
eachInstruction(bytecode, position) ==
    IF position >= Len(bytecode) THEN << >>
    ELSE LET byte == bytecode[position + 1]
             width == IF byte[1] = "PUSH" THEN byte[2] ELSE 0
             Digit(n) == IF position + 1 + n <= Len(bytecode) THEN bytecode[position + 1 + n][2] ELSE 0
             value == FoldLeft(LAMBDA v, n : v * 2 ^ ByteBits + Digit(n), 0, [n \in 1..width |-> n])
         IN <<[byte |-> byte, value |-> value, position |-> position]>>
            \o eachInstruction(bytecode, position + 1 + width)

-----------------------------------------------------------------------------
(* The machine, which is not part of the repository, as the code that       *)
(* libsvmasm writes uses it: it runs bytecode on a stack, a memory of bytes *)
(* and a storage of words, and counts the gas.  The first element of the    *)
(* stack is its top.  Addresses wrap around, as the differences do that the *)
(* code computes.  An input is the words of the call and of the storage.    *)

\* end is how the machine stopped, empty while it runs
Machine(input) ==
    [pc |-> 0, stack |-> << >>, memory |-> << >>, words |-> 0,
     storage |-> input.storage, gas |-> 0, end |-> << >>]

\* Memory and storage are functions on the places that have been written; all else is zero.
ByteAt(memory, address) ==
    IF Wrap(address) \in DOMAIN memory THEN memory[Wrap(address)] ELSE <<"", 0>>

StorageAt(storage, slot) == IF slot \in DOMAIN storage THEN storage[slot] ELSE 0

Bytes(memory, address, n) == [i \in 1..n |-> ByteAt(memory, address + i - 1)]

WordAt(memory, address) ==
    FoldLeft(LAMBDA v, b : v * 2 ^ ByteBits + b[2], 0, Bytes(memory, address, WordBytes))

WithBytes(memory, address, bytes) ==
    [x \in {Wrap(address + n - 1) : n \in DOMAIN bytes} |-> bytes[Wrap(x - address) + 1]] @@ memory

\* The stretch of code that CODECOPY reads, with zeros behind the end
CodeAt(code, address, n) ==
    [i \in 1..n |-> IF address + i <= Len(code) THEN code[address + i] ELSE <<"", 0>>]

WordsOf(bytes) == (bytes + WordBytes - 1) \div WordBytes

\* The memory an instruction touches, as its end: 0 for none
Touched(i, a) ==
    CASE i \in {"MLOAD", "MSTORE"} -> a[1] + WordBytes
      [] i \in {"KECCAK256", "RETURN"} -> IF a[2] = 0 THEN 0 ELSE a[1] + a[2]
      [] i = "CODECOPY" -> IF a[3] = 0 THEN 0 ELSE a[1] + a[3]
      [] OTHER -> 0

Gas(s, i, a, v) ==
    CASE i = "SSTORE" -> IF a[2] # 0 /\ StorageAt(s.storage, a[1]) = 0 THEN GasCosts.sstoreSet ELSE GasCosts.sstoreReset
      [] i = "SLOAD" -> sloadGas(v)
      [] i = "EXP" -> GasCosts.exp + expByteGas(v) * bytesRequired(a[2])
      [] i = "KECCAK256" -> GasCosts.keccak256 + GasCosts.keccak256Word * WordsOf(a[2])
      [] i = "CODECOPY" -> runGas(i) + GasCosts.copy * WordsOf(a[3])
      [] OTHER -> runGas(i)

\* Memory that nobody can pay for is charged Infinite.
MemoryGas(words) ==
    IF words > 10 ^ 4 THEN Infinite
    ELSE GasCosts.memory * words + (words * words) \div GasCosts.quadCoeffDiv

\* What an instruction does beyond its gas; the arguments a are gone from s.
Effect(s, code, input, i, a) ==
    LET Result(v) == [s EXCEPT !.stack = <<v>> \o @]
        Jump == IF a[1] < Len(code) /\ code[a[1] + 1] = <<"JUMPDEST", 0>> THEN [s EXCEPT !.pc = a[1]]
                ELSE [s EXCEPT !.end = <<"bad jump">>]
    IN CASE i \in {"POP", "JUMPDEST"} -> s
         [] i = "SSTORE" -> [s EXCEPT !.storage = (a[1] :> a[2]) @@ @]
         [] i = "MSTORE" -> [s EXCEPT !.memory = WithBytes(@, a[1], Digits(a[2], WordBytes))]
         [] i = "SLOAD" -> Result(StorageAt(s.storage, a[1]))
         [] i = "MLOAD" -> Result(WordAt(s.memory, a[1]))
         [] i = "KECCAK256" -> Result(Keccak([n \in 1..a[2] |-> Bytes(s.memory, a[1], a[2])[n][2]]))
         [] i = "CALLDATALOAD" -> Result(input.words[a[1] + 1])
         [] i = "CODECOPY" -> [s EXCEPT !.memory = WithBytes(@, a[1], CodeAt(code, a[2], a[3]))]
         [] i = "MSIZE" -> Result(s.words * WordBytes)
         [] i = "JUMP" -> Jump
         [] i = "JUMPI" -> IF a[2] = 0 THEN s ELSE Jump
         [] i = "STOP" -> [s EXCEPT !.end = <<"stop">>]
         [] i = "INVALID" -> [s EXCEPT !.end = <<"invalid">>]
         [] i = "RETURN" /\ s.gas = Infinite -> [s EXCEPT !.end = <<"out of gas">>]
         [] i = "RETURN" /\ s.gas < Infinite -> [s EXCEPT !.end = <<"stop">> \o Bytes(s.memory, a[1], a[2])]
         [] OTHER -> Result(Evaluate(i, a))

RunInstruction(s, code, input, v, i) ==
    LET n == instructionInfo[i].args
    IN With(SubSeq(s.stack, 1, n), LAMBDA a :
       With(WordsOf(Touched(i, a)), LAMBDA touched :
       With(IF touched > s.words THEN touched ELSE s.words, LAMBDA words :
           Effect([s EXCEPT !.stack = SubSeq(@, n + 1, Len(@)), !.words = words,
                            !.gas = Plus(@ + Gas(s, i, a, v), MemoryGas(words) - MemoryGas(s.words))],
                  code, input, i, a))))

\* One step; behind the code the machine stops.
Step(s, code, input, v) ==
    LET byte == code[s.pc + 1]
        width == IF byte[1] = "PUSH" THEN byte[2] ELSE 0
        next == [s EXCEPT !.pc = @ + 1 + width]
        Cheap(stack) == [next EXCEPT !.stack = stack, !.gas = Plus(@, runGas("PUSH"))]
    IN CASE s.pc >= Len(code) -> [s EXCEPT !.end = <<"stop">>]
         [] s.pc < Len(code) /\ byte[1] = "PUSH" ->
                Cheap(<<FoldLeft(LAMBDA w, n : Wrap(w * 2 ^ ByteBits + code[s.pc + 1 + n][2]), 0,
                                 [n \in 1..width |-> n])>> \o s.stack)
         [] s.pc < Len(code) /\ byte[1] = "DUP" -> Cheap(<<s.stack[byte[2]]>> \o s.stack)
         [] s.pc < Len(code) /\ byte[1] = "SWAP" ->
                Cheap([s.stack EXCEPT ![1] = s.stack[byte[2] + 1], ![byte[2] + 1] = s.stack[1]])
         [] OTHER -> RunInstruction(next, code, input, v, byte[1])

RECURSIVE RunCode(_, _, _, _, _)
RunCode(s, code, input, v, steps) ==
    IF s.end # << >> \/ steps = 0 THEN s ELSE RunCode(Step(s, code, input, v), code, input, v, steps - 1)

-----------------------------------------------------------------------------
CONSTANTS
    Cases,           \* the assemblies to start from, each with OptimiserSettings
    Inputs,          \* the inputs on which code is run
    MaxSteps         \* no program takes more steps

VARIABLES
    original,        \* the assembly as it was
    asm,             \* m_items, m_subs, m_data, ... of the assembly
    settings,        \* OptimiserSettings: [runs, isCreation, svmVersion]
    todo,            \* the assemblies that optimiseInternal still works on, 0 is the outermost
    step,            \* what comes next
    failed,          \* an assertion of the optimiser has failed
    assembled        \* what assemble has returned

vars == <<original, asm, settings, todo, step, failed, assembled, linkerVars>>

Init ==
    /\ \E case \in Cases : asm = case.asm /\ settings = case.settings
    /\ original = asm
    /\ todo = [n \in 1..(Len(asm.subs) + 1) |-> n % (Len(asm.subs) + 1)]
    /\ step = "cse"
    /\ failed = FALSE
    /\ assembled = [thrown |-> ""]
    /\ LinkerInit

Current == IF Head(todo) = 0 THEN asm ELSE asm.subs[Head(todo)]
Replaced(new) == IF Head(todo) = 0 THEN new ELSE [asm EXCEPT !.subs[Head(todo)] = new]

\* One round of CSE; another one follows if it has found something.
RunCSE ==
    /\ step = "cse"
    /\ \E r \in {runCSE(Current.items)} :
          /\ asm' = Replaced([Current EXCEPT !.items = r.items])
          /\ failed' = (failed \/ r.failed)
          /\ step' = IF r.items = Current.items THEN "constants" ELSE "cse"
    /\ UNCHANGED <<original, settings, todo, assembled, linkerVars>>

OptimiseConstants ==
    /\ step = "constants"
    /\ LET creation == settings.isCreation /\ Head(todo) = 0
       IN \E r \in {optimiseConstants(Current, creation, IF creation THEN 1 ELSE settings.runs,
                                      settings.svmVersion)} :
            /\ asm' = Replaced(r.asm)
            /\ failed' = (failed \/ r.failed)
    /\ todo' = Tail(todo)
    /\ step' = IF todo' = << >> THEN "assemble" ELSE "cse"
    /\ UNCHANGED <<original, settings, assembled, linkerVars>>

Assemble ==
    /\ step = "assemble"
    /\ \E a \in {assemble(asm)} : assembled' = a /\ AssignObject(a.object)
    /\ step' = "assembled"
    /\ UNCHANGED <<original, asm, settings, todo, failed>>

Link(addresses) ==
    /\ step \in {"assembled", "linked"}
    /\ assembled.thrown = ""
    /\ Len(given) < 2
    /\ LinkObject(addresses)
    /\ step' = "linked"
    /\ UNCHANGED <<original, asm, settings, todo, failed, assembled>>

Next == RunCSE \/ OptimiseConstants \/ Assemble \/ \E addresses \in Addresses : Link(addresses)

Spec == Init /\ [][Next]_vars

-----------------------------------------------------------------------------
(* Properties *)

\* No assertion fails: not the checks of the code generator of the CSE, not
\* "Invalid constant expression created." and none of Assembly::assemble.
AssertionsHold == ~failed /\ assembled.thrown = ""

\* What can be seen of a run of the code: how it ended, what it left.
Outcome(bytecode, input) ==
    With(RunCode(Machine(input), bytecode, input, settings.svmVersion, MaxSteps), LAMBDA s :
        <<s.end, s.stack, {<<x, s.memory[x]>> : x \in {x \in DOMAIN s.memory : s.memory[x] # <<"", 0>>}},
          {<<x, s.storage[x]>> : x \in {x \in DOMAIN s.storage : s.storage[x] # 0}}>>)

\* The bytecode of the optimised assembly does what the bytecode of the assembly
\* as it was does, on every input: the knowledge about stack, memory and storage
\* is never used after a write that may have changed it.  Code with subassemblies
\* sees their sizes, which the optimiser changes.
OptimisedBytecodeDoesTheSame ==
    step = "assembled" /\ assembled.thrown = "" /\ original.subs = << >> =>
        With(assemble(original).object.bytecode, LAMBDA before :
            \A input \in Inputs : Outcome(object.bytecode, input) = Outcome(before, input))

\* The decoded instruction d is what the item stands for.
Stands(a, parent, subs, items, decoded, item, d) ==
    LET At(position, bytes) ==
            /\ position + Len(bytes) <= Len(a.object.bytecode)
            /\ SubSeq(a.object.bytecode, position + 1, position + Len(bytes)) = bytes
        foreign == splitForeignPushTag(item)[1]
        tag == splitForeignPushTag(item)[2]
    IN CASE item.type = "Operation" -> d.byte = <<item.instruction, item.data>>
         [] item.type = "Tag" -> d.byte = <<"JUMPDEST", 0>>
         [] item.type = "Push" -> d.byte[1] = "PUSH" /\ d.value = item.data
         [] item.type = "PushTag" /\ tag = 0 -> a.object.bytecode[d.value + 1] # <<"JUMPDEST", 0>>
         [] item.type = "PushTag" /\ tag # 0 /\ foreign = NoSub ->
                \E n \in DOMAIN items : items[n] = Tag(tag) /\ decoded[n].position = d.value
         [] item.type = "PushTag" /\ tag # 0 /\ foreign # NoSub ->
                With(eachInstruction(subs[foreign + 1].object.bytecode, 0), LAMBDA inner :
                    \E n \in DOMAIN parent.subs[foreign + 1].items :
                        /\ parent.subs[foreign + 1].items[n] = Tag(tag)
                        /\ inner[n].position = d.value)
         [] item.type = "PushSub" -> At(d.value, subs[item.data + 1].object.bytecode)
         [] item.type = "PushSubSize" -> d.value = Len(subs[item.data + 1].object.bytecode)
         [] item.type = "PushData" -> At(d.value, [n \in DOMAIN parent.data[item.data] |->
                                                    <<"", parent.data[item.data][n]>>])
         [] item.type = "PushProgramSize" -> d.value = Len(a.object.bytecode)
         [] item.type = "PushLibraryAddress" -> 
                /\ d.position + 1 \in DOMAIN a.object.linkReferences
                /\ a.object.linkReferences[d.position + 1] = parent.libraries[item.data]

\* Read back instruction by instruction, the bytecode is the items one by one, and
\* every value filled in later (tags, also those of subassemblies, offsets and
\* sizes of subassemblies and data, the size of the program, libraries) is that of
\* what the item refers to.
ReferencesResolve ==
    step = "assembled" /\ assembled.thrown = "" =>
        With([n \in DOMAIN asm.subs |-> assemble(asm.subs[n])], LAMBDA subs :
        With(eachInstruction(object.bytecode, 0), LAMBDA decoded :
            /\ Len(decoded) >= Len(asm.items)
            /\ \A n \in DOMAIN asm.items :
                  Stands(assembled, asm, subs, asm.items, decoded, asm.items[n], decoded[n])))

\* The estimate of PathGasMeter for the items is at least what any run of the
\* bytecode uses.
GasIsBounded ==
    step = "assembled" /\ assembled.thrown = "" =>
        With(estimateMax(asm.items, settings.svmVersion), LAMBDA bound :
            \A input \in Inputs :
                RunCode(Machine(input), object.bytecode, input, settings.svmVersion, MaxSteps).gas <= bound)

=============================================================================
