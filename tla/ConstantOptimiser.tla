-------------------------- MODULE ConstantOptimiser --------------------------
(***************************************************************************)
(* The gas meter and the constant optimiser of libsvmasm.                   *)
(*                                                                         *)
(* GasMeter, PathGasMeter and the constants of GasCosts give the upper      *)
(* bound on the gas that a list of assembly items uses.  A meter is the     *)
(* known state, the largest memory access and the gas so far.  SVM versions *)
(* are the numbers of enum Version, from homestead (0) to petersburg (5).   *)
(*                                                                         *)
(* The constant optimiser replaces a constant that the code pushes by code  *)
(* that copies it from the data of the program or computes it, if that is   *)
(* cheaper over the lifetime of the contract.  params is                    *)
(* ConstantOptimisationMethod::Params, with the number of times the         *)
(* constant appears; the limit of 10000 steps is more than words of         *)
(* WordBits bits can use up.                                                *)
(***************************************************************************)
EXTENDS KnownState

tangerineWhistle == 1
spuriousDragon   == 2
constantinople   == 4

hasBitwiseShifting(v) == v >= constantinople

GasCosts ==
    [exp |-> 10, keccak256 |-> 30, keccak256Word |-> 6, sstoreSet |-> 20000,
     sstoreReset |-> 5000, memory |-> 3, quadCoeffDiv |-> 512, createData |-> 200,
     txDataZero |-> 4, txDataNonZero |-> 68, copy |-> 3, jumpdest |-> 1, log |-> 375, logTopic |-> 375,
     logData |-> 8, callNewAccount |-> 25000]

TierGas == (Zero :> 0) @@ (Base :> 2) @@ (VeryLow :> 3) @@ (Low :> 5) @@ (Mid :> 8) @@ (High :> 10)
           @@ (Ext :> 20)

expByteGas(v) == IF v >= spuriousDragon THEN 50 ELSE 10
sloadGas(v)   == IF v >= tangerineWhistle THEN 200 ELSE 50
balanceGas(v) == IF v >= tangerineWhistle THEN 400 ELSE 20
extCodeGas(v) == IF v >= tangerineWhistle THEN 700 ELSE 20
selfdestructGas(v) == IF v >= tangerineWhistle THEN 5000 ELSE 0

\* GasConsumption; a bound that is not known is Infinite, which is more than any sum.
Infinite == 10 ^ 9
Plus(a, b) == IF a + b >= Infinite THEN Infinite ELSE a + b

runGas(i) == IF i = "JUMPDEST" THEN GasCosts.jumpdest
             ELSE IF i \in {"DUP", "SWAP", "PUSH"} THEN TierGas[VeryLow]
             ELSE TierGas[instructionInfo[i].tier]

dataGas(bytes, isCreation) ==
    FoldLeft(LAMBDA sum, b : sum + (IF ~isCreation THEN GasCosts.createData
                                    ELSE IF b # 0 THEN GasCosts.txDataNonZero ELSE GasCosts.txDataZero),
             0, bytes)

-----------------------------------------------------------------------------
(* GasMeter *)

Charge(m, gas) == [m EXCEPT !.gas = Plus(@, gas)]

ChargeWords(m, multiplier, r) ==
    LET n == r.k.classes[r.id].item.data
    IN Charge([m EXCEPT !.k = r.k], IF IsPush(r.k, r.id)
                                    THEN multiplier * ((n + WordBytes - 1) \div WordBytes) ELSE Infinite)

MemoryWordsGas(position) ==
    LET size == (position + WordBytes - 1) \div WordBytes
    IN GasCosts.memory * size + (size * size) \div GasCosts.quadCoeffDiv

\* memoryGas of a position
memoryGasAt(m, r) ==
    LET value == r.k.classes[r.id].item.data
    IN IF ~IsPush(r.k, r.id) THEN Charge([m EXCEPT !.k = r.k], Infinite)
       ELSE IF value < m.largest THEN [m EXCEPT !.k = r.k]
       ELSE Charge([m EXCEPT !.k = r.k, !.largest = value],
                   MemoryWordsGas(value) - MemoryWordsGas(m.largest))

\* relativeStackElement
Element(k, n) == stackElement(k, k.height - n)

Constant(k, n) == find(k, Push(n), << >>, 0)

\* memoryGas of a stretch of memory: the offsets of its start and its size on the stack
memoryGas(m, offset, size) ==
    With(Element(m.k, size), LAMBDA length :
    With(Element(length.k, offset), LAMBDA start :
        IF knownZero(length.k, length.id) THEN [m EXCEPT !.k = length.k]
        ELSE memoryGasAt(m, FindOperation(start.k, "ADD", <<start.id, length.id>>))))

\* Mutant of memoryAccessGas: charges the first byte only.
memoryAccessGasFirst(m, bytes) ==
    With(Element(m.k, 0), LAMBDA start : memoryGasAt(m, start))

\* MLOAD, MSTORE and MSTORE8
memoryAccessGas(m, bytes) ==
    With(Element(m.k, 0), LAMBDA start :
    With(Constant(start.k, bytes), LAMBDA width :
        memoryGasAt(m, FindOperation(width.k, "ADD", <<start.id, width.id>>))))

sstoreGas(m) ==
    With(Element(m.k, 0), LAMBDA slot :
    With(Element(slot.k, 1), LAMBDA value :
    With(IF slot.id \in DOMAIN value.k.storage THEN knownNonZero(value.k, value.k.storage[slot.id])
         ELSE [k |-> value.k, is |-> FALSE], LAMBDA nonZero :
        Charge([m EXCEPT !.k = nonZero.k],
               IF knownZero(value.k, value.id) \/ nonZero.is
               THEN GasCosts.sstoreReset ELSE GasCosts.sstoreSet))))

expGas(m, v) ==
    With(Element(m.k, 1), LAMBDA exponent :
    LET n == exponent.k.classes[exponent.id].item.data
        bytes == IF ~IsPush(exponent.k, exponent.id) THEN WordBytes
                 ELSE LET zeros == {b \in 0..(WordBytes - 1) : n < 2 ^ (ByteBits * b)}
                      IN IF zeros = {} THEN WordBytes ELSE CHOOSE b \in zeros : \A x \in zeros : b <= x
    IN Charge([m EXCEPT !.k = exponent.k], GasCosts.exp + expByteGas(v) * bytes))

logGas(m, i) ==
    With(memoryGas(Charge(m, GasCosts.log + (IF i = "LOG1" THEN GasCosts.logTopic ELSE 0)), 0, 1), LAMBDA n :
    With(Element(n.k, 1), LAMBDA size :
        Charge([n EXCEPT !.k = size.k],
               IF IsPush(size.k, size.id) THEN GasCosts.logData * size.k.classes[size.id].item.data
               ELSE Infinite)))

\* The gas of an operation before it is fed into the state.  Calls and creations,
\* whose cost includes that of another contract, are infinite.
OperationGas(m, i, v) ==
    CASE i = "SSTORE"            -> sstoreGas(m)
      [] i = "SLOAD"             -> Charge(m, sloadGas(v))
      [] i \in {"RETURN", "REVERT"} -> memoryGas(Charge(m, runGas(i)), 0, 1)
      [] i \in {"MLOAD", "MSTORE"} -> memoryAccessGas(Charge(m, runGas(i)), WordBytes)
      [] i = "MSTORE8"           -> memoryAccessGas(Charge(m, runGas(i)), 1)
      [] i = "KECCAK256"         -> With(memoryGas(Charge(m, GasCosts.keccak256), 0, 1), LAMBDA n :
                                        ChargeWords(n, GasCosts.keccak256Word, Element(n.k, 1)))
      [] i \in {"CALLDATACOPY", "CODECOPY", "RETURNDATACOPY"} ->
             With(memoryGas(Charge(m, runGas(i)), 0, 2), LAMBDA n :
                 ChargeWords(n, GasCosts.copy, Element(n.k, 2)))
      [] i = "EXTCODECOPY"       -> With(memoryGas(Charge(m, extCodeGas(v)), 1, 3), LAMBDA n :
                                        ChargeWords(n, GasCosts.copy, Element(n.k, 3)))
      [] i \in {"LOG0", "LOG1"}  -> logGas(m, i)
      [] i \in {"BALANCE", "EXTCODEHASH"} -> Charge(m, balanceGas(v))
      [] i = "EXTCODESIZE"       -> Charge(m, extCodeGas(v))
      [] i = "SELFDESTRUCT"      -> Charge(m, selfdestructGas(v) + GasCosts.callNewAccount)
      [] i = "EXP"               -> expGas(m, v)
      [] i \in {"CALL", "CALLCODE", "DELEGATECALL", "STATICCALL", "CREATE", "CREATE2"} ->
             Charge(m, Infinite)
      [] OTHER                   -> Charge(m, runGas(i))

ItemGas(m, item, v) ==
    CASE item.type = "Tag"       -> Charge(m, runGas("JUMPDEST"))
      [] item.type = "Operation" -> OperationGas(m, item.instruction, v)
      [] OTHER                   -> Charge(m, runGas("PUSH"))

\* GasMeter::estimateMax
estimateMaxOfItem(m, item, v) ==
    With(ItemGas(m, item, v), LAMBDA n : [n EXCEPT !.k = feedItem(n.k, item).k])

-----------------------------------------------------------------------------
(* PathGasMeter *)

GasPath(index, m, visited) == [index |-> index, m |-> m, visited |-> visited]

\* queue: at most one path for each index, the one that has used most gas.
Queue(q, path) ==
    IF path.index \in DOMAIN q.highest /\ path.m.gas < q.highest[path.index] THEN q
    ELSE [paths |-> (path.index :> path) @@ q.paths,
          highest |-> (path.index :> path.m.gas) @@ q.highest]

tagsInExpression(k, id) ==
    IF k.classes[id].item.type = "PushTag" THEN {k.classes[id].item.data} ELSE {}

PositionOfTag(items, tag) ==
    LET at == {n \in DOMAIN items : items[n] = Tag(tag)}
    IN IF at = {} THEN Len(items) + 1 ELSE CHOOSE n \in at : \A x \in at : x <= n

\* What a path does at an item: where it may jump to, whether the branch stops
\* there, and whether the meter gives up.
JumpAt(k, item) ==
    LET Is(i) == item.type = "Operation" /\ item.instruction = i
        Step(j, tags, stops, infinite) == [k |-> j, tags |-> tags, stops |-> stops, infinite |-> infinite]
    IN With(Element(k, 0), LAMBDA target :
       With(Element(target.k, 1), LAMBDA condition :
       With(knownNonZero(condition.k, condition.id), LAMBDA nonZero :
       With(tagsInExpression(target.k, target.id), LAMBDA tags :
           CASE Is("JUMP") -> Step(target.k, tags, TRUE, tags = {})
             [] Is("JUMPI") ->
                    IF ~nonZero.is /\ knownZero(condition.k, condition.id)
                    THEN Step(nonZero.k, {}, FALSE, FALSE)
                    ELSE Step(nonZero.k, tags, nonZero.is, tags = {})
             [] OTHER -> Step(k, {}, item.type = "Operation" /\ ~IsDup(item) /\ ~IsSwap(item)
                                     /\ altersControlFlow(item.instruction), FALSE)))))

\* handleQueueItem: follows a path to its end; paths branch off into the queue.
RECURSIVE FollowPath(_, _, _, _)
FollowPath(items, v, q, path) ==
    LET item == items[path.index]
        Gas(queue, gas) == [q |-> queue, gas |-> gas]
        seen == IF item.type = "Tag" THEN path.visited \cup {path.index} ELSE path.visited
    IN IF path.index > Len(items) \/ path.m.gas = Infinite THEN Gas(q, path.m.gas)
       ELSE IF item.type = "Tag" /\ path.index \in path.visited THEN Gas(q, Infinite)
       ELSE With(JumpAt(path.m.k, item), LAMBDA jump :
            With(estimateMaxOfItem([path.m EXCEPT !.k = jump.k], item, v), LAMBDA m :
            With(FoldLeft(LAMBDA queue, tag : Queue(queue, GasPath(PositionOfTag(items, tag), m, seen)),
                          q, SetToSortSeq(jump.tags, <)), LAMBDA queued :
                IF jump.infinite THEN Gas(q, Infinite)
                ELSE IF jump.stops THEN Gas(queued, m.gas)
                ELSE FollowPath(items, v, queued, GasPath(path.index + 1, m, seen)))))

RECURSIVE WorkOffPaths(_, _, _, _)
WorkOffPaths(items, v, q, gas) ==
    LET last == CHOOSE n \in DOMAIN q.paths : \A x \in DOMAIN q.paths : x <= n
        rest == [q EXCEPT !.paths = [n \in DOMAIN @ \ {last} |-> @[n]]]
        valid == last <= Len(items) /\ (last = 1 \/ items[last].type = "Tag")
    IN IF DOMAIN q.paths = {} \/ gas = Infinite THEN gas
       ELSE With(IF valid THEN FollowPath(items, v, rest, q.paths[last])
                 ELSE [q |-> rest, gas |-> q.paths[last].m.gas], LAMBDA r :
                WorkOffPaths(items, v, r.q, IF r.gas > gas THEN r.gas ELSE gas))

\* PathGasMeter::estimateMax from the first item, in a state of which nothing is known
estimateMax(items, v) ==
    LET start == GasPath(1, [k |-> EmptyState, largest |-> 0, gas |-> 0], {})
    IN WorkOffPaths(items, v, Queue([paths |-> << >>, highest |-> << >>], start), 0)

-----------------------------------------------------------------------------
(* The constant optimiser *)

\* libdevcore: how many bytes a number takes, none for zero
RECURSIVE bytesRequired(_)
bytesRequired(n) == IF n = 0 THEN 0 ELSE 1 + bytesRequired(n \div 2 ^ ByteBits)

\* toBigEndian into a given number of bytes
toBigEndian(value, width) ==
    [n \in 1..width |-> (value \div 2 ^ (ByteBits * (width - n))) % 2 ^ ByteBits]

AtLeastOne(n) == IF n = 0 THEN 1 ELSE n

AddressBytes == AddressBits \div ByteBits

\* AssemblyItem::bytesRequired
itemBytes(item, addressLength) ==
    CASE item.type \in {"Operation", "Tag"} -> 1
      [] item.type = "PushString" -> 1 + WordBytes
      [] item.type = "Push" -> 1 + AtLeastOne(bytesRequired(item.data))
      [] item.type \in {"PushSubSize", "PushProgramSize"} -> 1 + 4
      [] item.type \in {"PushTag", "PushData", "PushSub"} -> 1 + addressLength
      [] item.type \in {"PushLibraryAddress", "PushDeployTimeAddress"} -> 1 + AddressBytes

itemsBytes(items, addressLength) ==
    FoldLeft(LAMBDA sum, item : sum + itemBytes(item, addressLength), 0, items)

simpleRunGas(items) ==
    FoldLeft(LAMBDA sum, item :
                sum + (CASE item.type = "Push" -> runGas("PUSH")
                         [] item.type = "Operation" ->
                                IF item.instruction = "EXP" THEN GasCosts.exp ELSE runGas(item.instruction)
                         [] OTHER -> 0),
             0, items)

combineGas(params, run, repeated, unique) ==
    params.runs * run + params.multiplicity * repeated + unique

byteGas(params) == IF params.isCreation THEN GasCosts.txDataNonZero ELSE GasCosts.createData

\* LiteralMethod
literalGas(params, value) ==
    combineGas(params, runGas("PUSH"),
               byteGas(params) + dataGas(toBigEndian(value, AtLeastOne(bytesRequired(value))),
                                         params.isCreation), 0)

\* CodeCopyMethod: backs up the first word of memory, copies the constant there
\* and restores it.
copyRoutine(data) ==
    <<Push(0), DUP(1), Operation("MLOAD"), Push(WordBytes), Item("PushData", "", data), DUP(4),
      Operation("CODECOPY"), DUP(2), Operation("MLOAD"), SWAP(2), Operation("MSTORE")>>

\* The routine takes 16 bytes, where a word has 32: it scales with the word.
CopyRoutineBytes == (16 * WordBytes + 31) \div 32

copyGas(params, value) ==
    combineGas(params, simpleRunGas(copyRoutine(0)) + GasCosts.copy,
               CopyRoutineBytes * byteGas(params),
               dataGas(toBigEndian(value, WordBytes), params.isCreation))

\* ComputeMethod
computeGas(params, routine) ==
    LET exps == Len(SelectSeq(routine, LAMBDA item : item = Operation("EXP")))
    IN combineGas(params, simpleRunGas(routine) + exps * (GasCosts.exp + expByteGas(params.svmVersion)),
                  itemsBytes(routine, 3) * byteGas(params), 0)

\* The value as upper * 2^bits + lower where lower is small, and may be negative.
Decompose(value, bits) ==
    LET power == 2 ^ bits
        lower == value % power
        upper == value \div power
    IN IF power - lower < lower THEN [upper |-> Wrap(upper + 1), lower |-> lower - power]
       ELSE [upper |-> upper, lower |-> lower]

\* A decomposition that may pay: there is a gap of ByteBits zeros or ones.
IsGap(value, bits) ==
    LET gapDetector == (value \div 2 ^ (bits - ByteBits)) % 2 ^ (ByteBits + 1)
        d == Decompose(value, bits)
    IN /\ gapDetector \in {2 ^ ByteBits - 1, 2 ^ ByteBits}
       /\ d.upper # 0
       /\ Magnitude(d.lower) < 2 ^ (bits - ByteBits)

RECURSIVE findRepresentation(_, _)

Decomposed(params, value, bits) ==
    With(Decompose(value, bits), LAMBDA d :
        (IF d.lower = 0 THEN << >> ELSE findRepresentation(params, Magnitude(d.lower)))
        \o (IF hasBitwiseShifting(params.svmVersion)
            THEN findRepresentation(params, d.upper) \o <<Push(bits), Operation("SHL")>>
            ELSE <<Push(bits), Push(2), Operation("EXP")>>
                 \o IF d.upper = 1 THEN << >>
                    ELSE findRepresentation(params, d.upper) \o <<Operation("MUL")>>)
        \o (CASE d.lower > 0 -> <<Operation("ADD")>>
              [] d.lower < 0 -> <<Operation("SUB")>>
              [] OTHER -> << >>))

Cheaper(params, a, b) == IF computeGas(params, b) < computeGas(params, a) THEN b ELSE a

findRepresentation(params, value) ==
    LET bits == [n \in 1..(WordBits - 1 - ByteBits) |-> WordBits - n]
    IN CASE value < 2 ^ (2 * ByteBits) -> <<Push(value)>>
         [] value >= 2 ^ (2 * ByteBits) /\ bytesRequired(Ones - value) < bytesRequired(value) ->
                findRepresentation(params, Ones - value) \o <<Operation("NOT")>>
         [] OTHER -> FoldLeft(LAMBDA r, b : IF IsGap(value, b)
                                            THEN Cheaper(params, r, Decomposed(params, value, b)) ELSE r,
                              <<Push(value)>>, bits)

\* The tiny machine that checks a routine; a stack of -1 is a failure.
checkRepresentation(value, routine) ==
    LET Step(stack, item) ==
            LET n == IF item.type = "Operation" THEN instructionInfo[item.instruction].args ELSE 0
            IN CASE stack = <<-1>> -> stack
                 [] stack # <<-1>> /\ item.type = "Push" -> <<item.data>> \o stack
                 [] stack # <<-1>> /\ item.type = "Operation" ->
                        IF Len(stack) < n \/ (item.instruction = "EXP" /\ stack[2] >= WordBits) THEN <<-1>>
                        ELSE <<Evaluate(item.instruction, SubSeq(stack, 1, n))>>
                             \o SubSeq(stack, n + 1, Len(stack))
    IN FoldLeft(Step, << >>, routine) = <<value>>

-----------------------------------------------------------------------------

\* Assembly::newData for an assembly whose data are sequences of bytes, by number
newData(asm, bytes) ==
    LET known == {d \in DOMAIN asm.data : asm.data[d] = bytes}
        new == Cardinality(DOMAIN asm.data) + 1
    IN IF known # {} THEN [asm |-> asm, id |-> CHOOSE d \in known : TRUE]
       ELSE [asm |-> [asm EXCEPT !.data = (new :> bytes) @@ @], id |-> new]

\* The cheapest method for one constant; s is the assembly so far, what replaces
\* which constant and whether the check of a routine has failed.
optimiseConstant(s, params, value) ==
    With(findRepresentation(params, value), LAMBDA routine :
    With(newData(s.asm, toBigEndian(value, WordBytes)), LAMBDA data :
    LET literal == literalGas(params, value)
        copy == copyGas(params, value)
        compute == computeGas(params, routine)
        failed == s.failed \/ ~checkRepresentation(value, routine)
    IN CASE copy < literal /\ copy < compute ->
                [asm |-> data.asm, replacements |-> (value :> copyRoutine(data.id)) @@ s.replacements,
                 failed |-> failed]
         [] compute < literal /\ compute <= copy ->
                [s EXCEPT !.replacements = (value :> routine) @@ @, !.failed = failed]
         [] OTHER -> [s EXCEPT !.failed = failed]))

replaceConstants(items, replacements) ==
    FlattenSeq([n \in DOMAIN items |->
        IF items[n].type = "Push" /\ items[n].data \in DOMAIN replacements
        THEN replacements[items[n].data] ELSE <<items[n]>>])

\* optimiseConstants for an assembly: constants of one byte stay.
optimiseConstants(asm, isCreation, runs, v) ==
    LET pushed == {n \in DOMAIN asm.items : asm.items[n].type = "Push"}
        values == {asm.items[n].data : n \in pushed}
        Params(value) == [isCreation |-> isCreation, runs |-> runs, svmVersion |-> v,
                          multiplicity |-> Cardinality({n \in pushed : asm.items[n].data = value})]
    IN With(FoldLeft(LAMBDA s, value : optimiseConstant(s, Params(value), value),
                     [asm |-> asm, replacements |-> << >>, failed |-> FALSE],
                     SetToSortSeq({value \in values : value >= 2 ^ ByteBits}, <)), LAMBDA s :
        [asm |-> [s.asm EXCEPT !.items = replaceConstants(@, s.replacements)], failed |-> s.failed])
=============================================================================
