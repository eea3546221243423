---------------------------- MODULE CompilerUtils ----------------------------
(***************************************************************************)
(* The pieces of code that values are moved, converted, stored and copied   *)
(* with: CompilerUtils.cpp, ArrayUtils.cpp and the storage and memory items *)
(* of LValue.cpp.                                                           *)
(*                                                                         *)
(* A piece of code is a sequence of items.  Tags inside of a piece are      *)
(* relative: PUSHREL pushes the position so many items further on.  ADJUST  *)
(* only corrects the height of the stack that the compiler counts           *)
(* (adjustStackOffset), PUSHLOW pushes the tag of a low level function.     *)
(* Byte arrays, strings, data in calldata other than single words, and      *)
(* values of function types are left out.                                   *)
(***************************************************************************)
EXTENDS TypeChecker

RECURSIVE Code(_, _, _)   \* the piece of code of a name for its arguments

Item(op, arg) == [op |-> op, arg |-> arg]

Ops(names) == [i \in DOMAIN names |-> Item(names[i], 0)]

\* A constant and the instructions after it
Push(n, names) == <<Item("PUSH", n)>> \o Ops(names)

dupInstruction(n) == <<Item("DUP", n)>>
swapInstruction(n) == <<Item("SWAP", n)>>
adjustStackOffset(n) == <<Item("ADJUST", n)>>
PushRelative(n) == <<Item("PUSHREL", n)>>
Repeated(code, n) == FlattenSeq([i \in 1..n |-> code])
Pops(n) == Repeated(Ops(<<"POP">>), n)

\* Jumps over the code if the value on the stack is not zero
ConditionalJumpOver(code) == PushRelative(Len(code) + 2) \o Ops(<<"JUMPI">>) \o code \o Ops(<<"JUMPDEST">>)

\* Repeats the body until the value left by end is not zero
LoopUntil(end, body) ==
    Ops(<<"JUMPDEST">>) \o end \o PushRelative(Len(body) + 4) \o Ops(<<"JUMPI">>) \o body
    \o PushRelative(-(Len(end) + Len(body) + 3)) \o Ops(<<"JUMP", "JUMPDEST">>)

\* Repeats the body while the value it leaves is not zero
LoopWhile(body) == Ops(<<"JUMPDEST">>) \o body \o PushRelative(-(Len(body) + 1)) \o Ops(<<"JUMPI">>)

appendRevert == Push(0, << >>) \o Push(0, <<"REVERT">>)
appendConditionalInvalid == Ops(<<"ISZERO">>) \o ConditionalJumpOver(Ops(<<"INVALID">>))

\* if condition { revert(0, 0) }, in inline assembly
RevertIf(condition) == condition \o Ops(<<"ISZERO">>) \o ConditionalJumpOver(appendRevert)
appendConditionalRevert == RevertIf(Ops(<<"DUP1">>)) \o Ops(<<"POP">>)

-----------------------------------------------------------------------------
(* Moving values on the stack *)

rotateStackUp(items) == FlattenSeq([i \in 1..(items - 1) |-> swapInstruction(items - i)])
rotateStackDown(items) == FlattenSeq([i \in 1..(items - 1) |-> swapInstruction(i)])

moveIntoStack(depth, size) ==
    IF depth <= size THEN Repeated(rotateStackDown(depth + size), depth)
    ELSE Repeated(rotateStackUp(depth + size), size)
moveToStackTop(depth, size) == moveIntoStack(size, depth)
copyToStackTop(depth, size) == Repeated(dupInstruction(depth), size)

\* A low level function is known by what it does and for which types.
LowLevelFunction(name, types, inArgs, outArgs) == [name |-> name, types |-> types, inArgs |-> inArgs, outArgs |-> outArgs]

callLowLevelFunction(f) ==
    LET call == moveIntoStack(f.inArgs, 1) \o <<Item("PUSHLOW", f)>> \o Ops(<<"JUMP">>)
                \o adjustStackOffset(f.outArgs - 1 - f.inArgs)
    IN PushRelative(Len(call) + 1) \o call \o Ops(<<"JUMPDEST">>)

-----------------------------------------------------------------------------
(* Memory *)

freeMemoryPointer == 2 * WordBytes
zeroPointer == freeMemoryPointer + WordBytes
generalPurposeMemoryStart == zeroPointer + WordBytes

fetchFreeMemoryPointer == Push(freeMemoryPointer, <<"MLOAD">>)
storeFreeMemoryPointer == Push(freeMemoryPointer, <<"MSTORE">>)
initialiseFreeMemoryPointer == Push(generalPurposeMemoryStart, << >>) \o storeFreeMemoryPointer
allocateMemory == fetchFreeMemoryPointer \o Ops(<<"SWAP1", "DUP2", "ADD">>) \o storeFreeMemoryPointer
allocateMemoryOf(size) ==
    fetchFreeMemoryPointer \o Ops(<<"DUP1">>) \o Push(size, <<"ADD">>) \o storeFreeMemoryPointer
toSizeAfterFreeMemoryPointer == fetchFreeMemoryPointer \o Ops(<<"DUP1", "SWAP2", "SUB", "SWAP1">>)

storeInMemory(offset) == Push(offset, <<"MSTORE">>)
computeHashStatic == storeInMemory(0) \o Push(WordBytes, << >>) \o Push(0, <<"KECCAK256">>)

leftShiftNumberOnStack(bits) == Push(bits, <<"SHL">>)
rightShiftNumberOnStack(bits) == Push(bits, <<"SHR">>)

Mask(bytes) == 2 ^ (ByteBits * bytes) - 1
numBits(t) == t.numBytes * ByteBits

cleanHigherOrderBits(t) ==
    IF t.numBytes = WordBytes THEN << >>
    ELSE IF t.isSigned THEN Push(t.numBytes - 1, <<"SIGNEXTEND">>) ELSE Push(Mask(t.numBytes), <<"AND">>)

-----------------------------------------------------------------------------
(* Conversions of values that take one word *)

FixedBytesConversion(from, to, cleanup) ==
    CASE to.category = "Integer" ->
            rightShiftNumberOnStack(WordBits - numBits(from))
            \o (IF to.numBytes < from.numBytes /\ cleanup THEN cleanHigherOrderBits(to) ELSE << >>)
      [] to.category = "Address" -> rightShiftNumberOnStack(WordBits - AddressBits)
      [] OTHER ->
            IF to.numBytes > from.numBytes \/ cleanup
            THEN Push(Mask(WordBytes - Min({from.numBytes, to.numBytes})), <<"NOT", "AND">>) ELSE << >>

\* Leaves the value if it is one of the members.
EnumCheck(p, enum) == Push(Len(p.nodes[enum.enum].members) - 1, <<"DUP2", "GT">>)

AddressAsInteger == IntegerType(AddressBytes, FALSE)
AsInteger(t) == IF t.category = "Integer" THEN t ELSE AddressAsInteger

\* Between integers, addresses and contracts.  Wider: cleaned as what it is; otherwise as
\* what it becomes, if at all.
IntegerConversion(from, to, cleanup, chopSignBits) ==
    LET source == AsInteger(from)
        target == AsInteger(to)
    IN (IF target.numBytes > source.numBytes THEN cleanHigherOrderBits(source)
        ELSE IF cleanup THEN cleanHigherOrderBits(target) ELSE << >>)
       \o (IF chopSignBits /\ to.category = "Integer" /\ target.isSigned /\ source.numBytes < WordBytes
           THEN Push(Mask(source.numBytes), <<"AND">>) ELSE << >>)

RationalConversion(from, to, cleanup) ==
    IF AsInteger(to).numBytes < integerType(from).numBytes /\ cleanup THEN cleanHigherOrderBits(AsInteger(to))
    ELSE << >>

ToFixedBytes(from, to) ==
    (IF from.category = "Integer" /\ to.numBytes > from.numBytes THEN cleanHigherOrderBits(from) ELSE << >>)
    \o leftShiftNumberOnStack(WordBits - numBits(to))

NumberConversion(from, to, cleanup, chopSignBits) ==
    IF from.category = "RationalNumber" THEN RationalConversion(from, to, cleanup)
    ELSE IntegerConversion(from, to, cleanup, chopSignBits)

\* convertType for them.  A failed check of an enum is invalid, in arguments it reverts.
ConvertValue(p, from, to, cleanup, chopSignBits, decoding) ==
    CASE from.category = "FixedBytes" -> FixedBytesConversion(from, to, cleanup)
      [] from.category = "Enum" ->
            EnumCheck(p, from) \o (IF decoding THEN appendConditionalRevert ELSE appendConditionalInvalid)
      [] from.category \in {"Address", "Integer", "Contract", "RationalNumber"} ->
            IF to.category = "FixedBytes" THEN ToFixedBytes(from, to)
            ELSE IF to.category = "Enum"
            THEN NumberConversion(from, mobileType(from), TRUE, FALSE) \o EnumCheck(p, to) \o appendConditionalInvalid
            ELSE NumberConversion(from, to, cleanup, chopSignBits)
      [] from.category = "Bool" -> IF cleanup THEN Ops(<<"ISZERO", "ISZERO">>) ELSE << >>
      [] OTHER -> IF cleanup /\ canBeStored(to) /\ storageBytes(p, to) < WordBytes
                  THEN Push(Mask(storageBytes(p, to)), <<"AND">>) ELSE << >>

CleanedValue(p, t) == Code(p, "ConvertValue", <<t, t, TRUE, FALSE, FALSE>>)

-----------------------------------------------------------------------------
(* Values in memory, in words of their own *)

loadFromMemoryHelper(p, t, fromCalldata) ==
    IF fromCalldata THEN Ops(<<"CALLDATALOAD">>) \o Code(p, "ConvertValue", <<t, t, TRUE, FALSE, TRUE>>) ELSE Ops(<<"MLOAD">>)

\* Also moves the position on by a word if it is to be kept.
loadFromMemoryDynamic(p, t, fromCalldata, keepUpdatedOffset) ==
    IF keepUpdatedOffset
    THEN Ops(<<"DUP1">>) \o loadFromMemoryHelper(p, t, fromCalldata)
         \o moveToStackTop(sizeOnStack(t), 1) \o Push(WordBytes, <<"ADD">>)
    ELSE loadFromMemoryHelper(p, t, fromCalldata)

\* References to memory are stored as they are.
storeInMemoryDynamic(p, t) ==
    (IF isReference(t) THEN << >> ELSE CleanedValue(p, t)) \o Ops(<<"DUP2", "MSTORE">>) \o Push(WordBytes, <<"ADD">>)

MemoryRetrieve(remove) == IF remove THEN Ops(<<"MLOAD">>) ELSE Ops(<<"DUP1", "MLOAD">>)

\* MemoryItem::storeValue; on the stack: value, position
MemoryStore(p, t, from, move) ==
    IF isValueType(t)
    THEN moveIntoStack(sizeOnStack(from), 1) \o Code(p, "ConvertValue", <<from, t, TRUE, FALSE, FALSE>>)
         \o (IF move THEN << >> ELSE moveToStackTop(1, 1) \o copyToStackTop(2, 1))
         \o Code(p, "storeInMemoryDynamic", <<t>>) \o Ops(<<"POP">>)
    ELSE (IF move THEN << >> ELSE Ops(<<"DUP2", "SWAP1">>)) \o Ops(<<"MSTORE">>)

-----------------------------------------------------------------------------
(* Values in storage: on the stack are a slot and a byte in it *)

PerSlot(p, t) == WordBytes \div storageBytes(p, t)
Packed(p, t) == storageBytes(p, t) <= WordBytes \div 2   \* whether more than one is in a slot
ByteValues == 2 ^ ByteBits

StorageRetrieve(p, t, remove) ==
    LET bytes == storageBytes(p, t)
        unpacked == Ops(<<"SWAP1", "SLOAD", "SWAP1">>) \o Push(ByteValues, <<"EXP", "SWAP1", "DIV">>)
        cleaned == CASE t.category = "FixedBytes" -> leftShiftNumberOnStack(WordBits - ByteBits * bytes)
                     [] t.category = "Integer" /\ t.isSigned -> Push(bytes - 1, <<"SIGNEXTEND">>)
                     [] OTHER -> Push(Mask(bytes), <<"AND">>)
    IN IF ~isValueType(t) THEN Ops(<<IF remove THEN "POP" ELSE "DUP2">>)
       ELSE (IF remove THEN << >> ELSE copyToStackTop(2, 2))
            \o (IF bytes = WordBytes THEN Ops(<<"POP", "SLOAD">>) ELSE unpacked \o cleaned)

\* On the stack: value, slot, byte.  The other values in the slot are kept.
StorageStoreValue(p, t, from, move) ==
    LET bytes == storageBytes(p, t)
        whole == Ops(<<"POP">>) \o (IF move THEN << >> ELSE Ops(<<"DUP2", "SWAP1">>)) \o Ops(<<"SWAP1">>)
                 \o Code(p, "ConvertValue", <<from, t, TRUE, FALSE, FALSE>>) \o Ops(<<"SWAP1", "SSTORE">>)
        value == IF t.category = "FixedBytes" THEN rightShiftNumberOnStack(WordBits - numBits(t))
                 ELSE Code(p, "ConvertValue", <<from, t, TRUE, TRUE, FALSE>>)
    IN IF bytes = WordBytes THEN whole
       ELSE Push(ByteValues, <<"EXP", "DUP2", "SLOAD", "DUP2">>) \o Push(Mask(bytes), <<"MUL", "NOT", "AND", "SWAP1">>)
            \o copyToStackTop(4, 1) \o value \o Ops(<<"MUL", "OR", "SWAP1", "SSTORE">>) \o Pops(IF move THEN 1 ELSE 0)

ValueSetToZero(p, t) ==
    IF storageBytes(p, t) = WordBytes THEN Ops(<<"POP">>) \o Push(0, <<"SWAP1", "SSTORE">>)
    ELSE Push(ByteValues, <<"EXP", "DUP2", "SLOAD", "SWAP1">>) \o Push(Mask(storageBytes(p, t)), <<"MUL", "NOT", "AND">>)
         \o Ops(<<"SWAP1", "SSTORE">>)

-----------------------------------------------------------------------------
(* ArrayUtils *)

retrieveLength(t, depth) ==
    IF ~isDynamicallySized(t) THEN Push(t.length, << >>)
    ELSE dupInstruction(1 + depth) \o Ops(<<IF t.location = "memory" THEN "MLOAD" ELSE "SLOAD">>)

\* In slots for storage, in bytes for memory
convertLengthToSize(p, t) ==
    LET base == t.baseType
    IN IF t.location # "storage" THEN Push(memoryHeadSize(p, base), <<"MUL">>)
       ELSE IF storageSize(p, base) > 1 THEN Push(storageSize(p, base), <<"MUL">>)
       ELSE IF Packed(p, base)
       THEN Push(PerSlot(p, base) - 1, <<"ADD">>) \o Push(PerSlot(p, base), <<"SWAP1", "DIV">>) ELSE << >>

\* On the stack: reference, index
accessIndex(p, t, doBoundsCheck) ==
    LET base == t.baseType
        checked == IF ~doBoundsCheck THEN << >>
                   ELSE retrieveLength(t, 1) \o Ops(<<"DUP2", "LT", "ISZERO">>) \o appendConditionalInvalid
        inMemory == Push(memoryHeadSize(p, base), <<"MUL">>)
                    \o (IF isDynamicallySized(t) THEN Push(WordBytes, <<"ADD">>) ELSE << >>) \o Ops(<<"ADD">>)
        data == Ops(<<"SWAP1">>) \o (IF isDynamicallySized(t) THEN computeHashStatic ELSE << >>) \o Ops(<<"SWAP1">>)
        packed == Push(PerSlot(p, base), <<"SWAP2", "DUP3", "DUP3", "DIV", "ADD", "SWAP2", "SWAP1", "MOD">>)
                  \o (IF storageBytes(p, base) # 1 THEN Push(storageBytes(p, base), <<"MUL">>) ELSE << >>)
        slots == (IF storageSize(p, base) # 1 THEN Push(storageSize(p, base), <<"MUL">>) ELSE << >>)
                 \o Ops(<<"ADD">>) \o Push(0, << >>)
    IN IF t.location = "memory" THEN checked \o inMemory
       ELSE checked \o data \o (IF Packed(p, base) THEN packed ELSE slots) \o Ops(<<"JUMPDEST">>)

\* To the next value of so many bytes, in the next slot if there is no room
incrementByteOffset(bytes, bytePosition, slotPosition) ==
    LET swap == IF bytePosition > 1 THEN swapInstruction(bytePosition - 1) ELSE << >>
    IN swap \o Push(bytes, <<"ADD">>) \o swap
       \o Push(WordBytes, << >>) \o dupInstruction(1 + bytePosition) \o Push(bytes - 1, <<"ADD", "DIV">>)
       \o swapInstruction(slotPosition) \o dupInstruction(slotPosition + 1) \o Ops(<<"ADD">>)
       \o swapInstruction(slotPosition) \o Push(1, <<"SUB">>)
       \o (IF bytePosition = 1 THEN Ops(<<"MUL">>)
           ELSE dupInstruction(bytePosition + 1) \o Ops(<<"MUL">>) \o swapInstruction(bytePosition) \o Ops(<<"POP">>))

clearStorageLoop(t) == callLowLevelFunction(LowLevelFunction("clearStorageLoop", <<t>>, 2, 1))
clearArray(t) == callLowLevelFunction(LowLevelFunction("clearArray", <<t>>, 2, 0))
resizeDynamicArray(t) == callLowLevelFunction(LowLevelFunction("resizeDynamicArray", <<t>>, 2, 0))

\* Slots are cleared whole where values are packed.
ClearedBase(p, t) == IF storageBytes(p, t.baseType) < WordBytes THEN uint256 ELSE t.baseType

clearDynamicArray(p, t) ==
    retrieveLength(t, 0) \o Push(0, <<"DUP3", "SSTORE">>) \o Code(p, "convertLengthToSize", <<t>>) \o Ops(<<"SWAP1">>)
    \o computeHashStatic \o Ops(<<"SWAP1", "DUP2", "ADD", "SWAP1">>) \o clearStorageLoop(ClearedBase(p, t))
    \o Ops(<<"JUMPDEST", "POP">>)

incrementDynamicArraySize == Ops(<<"DUP1", "SLOAD">>) \o Push(1, <<"ADD", "DUP1", "DUP3", "SSTORE", "SWAP1", "POP">>)

\* On the stack: source, target
copyArrayToStorage(p, target, source) ==
    Ops(<<"SWAP1">>) \o retrieveLength(source, 0)
    \o (IF source.location = "memory" /\ isDynamicallySized(source)
        THEN Ops(<<"SWAP1">>) \o Push(WordBytes, <<"ADD", "SWAP1">>) ELSE << >>)
    \o callLowLevelFunction(LowLevelFunction("copyArrayToStorage", <<target, source>>, 3, 1))

-----------------------------------------------------------------------------
(* Structs and arrays in storage *)

MemberType(p, t, m) == withLocationIfReference(t.location, p.type[m])
MemberOffsets(p, t, m) == storageOffsetsOfMember(p, t.struct, p.nodes[m].name)

\* Member by member; on the stack: source, target
StructStore(p, t, from) ==
    LET Offsets(m) == MemberOffsets(p, t, m)
        Retrieved(m) ==
            IF from.location = "storage"
            THEN Push(Offsets(m)[1], <<"DUP3", "ADD">>) \o Push(Offsets(m)[2], << >>)
                 \o Code(p, "StorageRetrieve", <<MemberType(p, from, m), TRUE>>)
            ELSE Push(memoryOffsetOfMember(p, t.struct, p.nodes[m].name), <<"DUP3", "ADD">>) \o MemoryRetrieve(TRUE)
        Stored(m) ==
            dupInstruction(1 + sizeOnStack(MemberType(p, from, m))) \o Push(Offsets(m)[1], <<"ADD">>)
            \o Push(Offsets(m)[2], << >>) \o Code(p, "StorageStore", <<MemberType(p, t, m), MemberType(p, from, m), TRUE>>)
        members == memoryMembers(p, t.struct)
    IN FlattenSeq([i \in DOMAIN members |-> Retrieved(members[i]) \o Stored(members[i])])

\* StorageItem::storeValue
StorageStore(p, t, from, move) ==
    CASE isValueType(t) -> StorageStoreValue(p, t, from, move)
      [] t.category = "Array" -> Ops(<<"POP">>) \o Code(p, "copyArrayToStorage", <<t, from>>) \o Pops(IF move THEN 1 ELSE 0)
      [] t.category = "Struct" ->
            Ops(<<"POP">>) \o StructStore(p, t, from) \o (IF move THEN Pops(2) ELSE Ops(<<"SWAP1", "POP">>))

\* StorageItem::setToZero; mappings in structs stay.
StorageSetToZero(p, t, remove) ==
    LET members == SelectSeq(p.nodes[t.struct].members, LAMBDA m : p.type[m].category # "Mapping")
        Zeroed(m) == Push(MemberOffsets(p, t, m)[1], <<"DUP3", "ADD">>) \o Push(MemberOffsets(p, t, m)[2], << >>)
                     \o Code(p, "StorageSetToZero", <<MemberType(p, t, m), TRUE>>)
        kept == IF remove THEN << >> ELSE copyToStackTop(2, 2)
    IN CASE t.category = "Array" -> kept \o clearArray(t)
         [] t.category = "Struct" -> FlattenSeq([i \in DOMAIN members |-> Zeroed(members[i])]) \o Pops(IF remove THEN 2 ELSE 0)
         [] OTHER -> kept \o Code(p, "ValueSetToZero", <<t>>)

popStorageArrayElement(p, t) ==
    retrieveLength(t, 0) \o Ops(<<"DUP1", "ISZERO">>) \o appendConditionalInvalid \o Push(1, <<"SWAP1", "SUB">>)
    \o Ops(<<"DUP2", "DUP2">>) \o Code(p, "accessIndex", <<t, FALSE>>) \o Code(p, "StorageSetToZero", <<t.baseType, TRUE>>)
    \o Ops(<<"SWAP1", "SSTORE">>)

-----------------------------------------------------------------------------
(* Structs and arrays in memory *)

\* On the stack: length, target, source
memoryCopy32 ==
    Push(0, << >>)
    \o LoopUntil(Ops(<<"DUP4", "DUP2", "LT", "ISZERO">>),
                 Ops(<<"DUP1", "DUP3", "ADD", "MLOAD", "DUP2", "DUP5", "ADD", "MSTORE">>) \o Push(WordBytes, <<"ADD">>))
    \o Pops(4)

\* On the stack: target, source; the end of the copy is left.
ElementToMemory(p, base) ==
    Code(p, IF base.category = "Array" THEN "copyArrayToMemory" ELSE "storeInMemoryDynamic", <<base>>)

\* The elements of an array in storage, if there are any
StorageArrayToMemory(p, t) ==
    LET base == t.baseType
        packed == Packed(p, base)
    IN Push(calldataEncodedSize(p, base, TRUE), <<"MUL", "DUP3", "ADD", "SWAP2">>)
       \o (IF isDynamicallySized(t) THEN Ops(<<"SWAP1">>) \o computeHashStatic \o Ops(<<"SWAP1">>) ELSE << >>)
       \o (IF packed THEN Push(0, <<"SWAP1">>) ELSE << >>)
       \o LoopWhile((IF packed THEN Ops(<<"DUP3", "DUP3">>) ELSE Ops(<<"DUP2">>) \o Push(0, << >>))
                    \o Code(p, "StorageRetrieve", <<base, TRUE>>) \o ElementToMemory(p, base)
                    \o (IF packed THEN incrementByteOffset(storageBytes(p, base), 2, 3)
                        ELSE Ops(<<"SWAP1">>) \o Push(storageSize(p, base), <<"ADD", "SWAP1">>))
                    \o Ops(<<"DUP1">>) \o dupInstruction(IF packed THEN 5 ELSE 4) \o Ops(<<"GT">>))
       \o (IF packed THEN Ops(<<"SWAP1", "POP">>) ELSE << >>)

copyArrayToMemory(p, t) ==
    LET base == t.baseType
        baseSize == calldataEncodedSize(p, base, TRUE)
        elements ==
            Push(0, <<"SWAP3">>)
            \o LoopUntil(Ops(<<"DUP2", "DUP5", "LT", "ISZERO">>),
                         Ops(<<"DUP3", "DUP5">>) \o Code(p, "accessIndex", <<t, FALSE>>) \o MemoryRetrieve(TRUE)
                         \o ElementToMemory(p, base) \o Ops(<<"SWAP3">>) \o Push(1, <<"ADD", "SWAP3">>))
            \o Ops(<<"SWAP3">>) \o Pops(3)
        words ==
            (IF isDynamicallySized(t) THEN Ops(<<"SWAP1">>) \o Push(WordBytes, <<"ADD", "SWAP1">>) ELSE << >>)
            \o Push(baseSize, <<"MUL", "DUP1", "DUP4", "DUP4">>) \o memoryCopy32 \o Ops(<<"SWAP1", "POP", "ADD">>)
    IN IF t.location = "memory" THEN retrieveLength(t, 0) \o (IF isValueType(base) THEN words ELSE elements)
       ELSE retrieveLength(t, 0) \o Ops(<<"DUP1", "ISZERO">>) \o ConditionalJumpOver(StorageArrayToMemory(p, t)) \o Pops(2)

pushZeroValue(p, t) ==
    IF ~isReference(t) \/ t.location = "storage" THEN Repeated(Push(0, << >>), sizeOnStack(t))
    ELSE IF isDynamicallySized(t) THEN Push(zeroPointer, << >>)
    ELSE callLowLevelFunction(LowLevelFunction("pushZeroValue", <<t>>, 0, 1))

\* On the stack: length, position; the end is left.  Words are copied from behind the end
\* of the code.
zeroInitialiseMemoryArray(p, t) ==
    (IF hasSimpleZeroValueInMemory(t.baseType)
     THEN Push(memoryStride(p, t), <<"DUP3", "MUL", "DUP1", "CODESIZE", "DUP4", "CODECOPY", "DUP1", "DUP3", "ADD",
                                     "SWAP2", "POP", "POP">>)
     ELSE LoopWhile(Code(p, "pushZeroValue", <<t.baseType>>) \o Code(p, "storeInMemoryDynamic", <<t.baseType>>) \o Ops(<<"SWAP1">>)
                    \o Push(1, <<"SWAP1", "SUB", "SWAP1", "DUP2">>)))
    \o Ops(<<"SWAP1", "POP">>)

\* On the stack: the length, replaced by the array
NewArray(p, t) ==
    fetchFreeMemoryPointer \o Ops(<<"SWAP1", "DUP1", "DUP3", "MSTORE", "DUP1">>)
    \o Push(memoryHeadSize(p, t.baseType), <<"MUL">>) \o Push(WordBytes, <<"ADD", "DUP3", "ADD">>)
    \o storeFreeMemoryPointer \o Ops(<<"DUP1", "ISZERO">>)
    \o ConditionalJumpOver(Ops(<<"DUP2">>) \o Push(WordBytes, <<"ADD">>) \o Code(p, "zeroInitialiseMemoryArray", <<t>>))
    \o Ops(<<"POP">>)

ArrayToMemory(p, from, to, cleanup) ==
    LET elements ==
            Push(0, <<"SWAP1">>)
            \o LoopUntil(Ops(<<"DUP3", "DUP3", "LT", "ISZERO">>),
                         copyToStackTop(4, 1) \o copyToStackTop(3, 1) \o Code(p, "accessIndex", <<from, FALSE>>)
                         \o Code(p, "StorageRetrieve", <<from.baseType, TRUE>>) \o Code(p, "convertType", <<from.baseType, to.baseType, cleanup>>)
                         \o Code(p, "storeInMemoryDynamic", <<to.baseType>>) \o Ops(<<"SWAP1">>) \o Push(1, <<"ADD", "SWAP1">>))
            \o Ops(<<"POP">>)
    IN retrieveLength(from, 0) \o Ops(<<"DUP1">>) \o Code(p, "convertLengthToSize", <<to>>)
       \o (IF isDynamicallySized(to) THEN Push(WordBytes, <<"ADD">>) ELSE << >>) \o allocateMemory \o Ops(<<"DUP1">>)
       \o moveIntoStack(3, 1)
       \o (IF isDynamicallySized(to) THEN Ops(<<"DUP2">>) \o Code(p, "storeInMemoryDynamic", <<uint256>>) ELSE << >>)
       \o (IF isValueType(to.baseType) THEN copyToStackTop(3, 1) \o Code(p, "copyArrayToMemory", <<from>>) ELSE elements) \o Pops(3)

StructToMemory(p, from, to) ==
    LET members == memoryMembers(p, from.struct)
        Copied(m) == Push(MemberOffsets(p, from, m)[1], <<"DUP3", "ADD">>) \o Push(MemberOffsets(p, from, m)[2], << >>)
                     \o Code(p, "StorageRetrieve", <<MemberType(p, from, m), TRUE>>)
                     \o Code(p, "convertType", <<MemberType(p, from, m), MemberType(p, to, m), TRUE>>)
                     \o Code(p, "storeInMemoryDynamic", <<MemberType(p, to, m)>>)
    IN allocateMemoryOf(StructMemorySize(p, from.struct)) \o Ops(<<"SWAP1", "DUP2">>)
       \o FlattenSeq([i \in DOMAIN members |-> Copied(members[i])]) \o Pops(2)

\* Component by component, each copied to the top, converted and moved back
TupleConversion(p, from, to, cleanup) ==
    LET Depth(i) == Total([j \in 1..(Len(from.components) + 1 - i) |-> sizeOnStack(from.components[i + j - 1])])
        Converted(i) ==
            LET source == from.components[i]
                target == to.components[i]
                sourceSize == sizeOnStack(source)
                targetSize == sizeOnStack(target)
                grown == targetSize - sourceSize
            IN IF source = NoType \/ (source = target /\ ~cleanup) THEN << >>
               ELSE (IF target = NoType THEN << >>
                     ELSE copyToStackTop(Depth(i), sourceSize) \o Code(p, "convertType", <<source, target, cleanup>>))
                    \o Repeated(swapInstruction(Depth(i) + grown) \o Ops(<<"POP">>), Min({sourceSize, targetSize}))
                    \o Repeated(moveToStackTop(Depth(i) - 1, 1) \o Ops(<<"POP">>), -grown)
                    \o (IF grown > 0 THEN moveIntoStack(Depth(i) + grown - 1, grown) ELSE << >>)
    IN FlattenSeq([i \in DOMAIN from.components |-> Converted(i)])

convertType(p, from, to, cleanup) ==
    CASE from = to /\ ~cleanup -> << >>
      [] (from # to \/ cleanup) /\ from.category = "Tuple" -> TupleConversion(p, from, to, cleanup)
      [] (from # to \/ cleanup) /\ isReference(from) ->
            IF to.location # "memory" \/ from.location = "memory" THEN << >>
            ELSE IF from.category = "Array" THEN ArrayToMemory(p, from, to, cleanup) ELSE StructToMemory(p, from, to)
      [] OTHER -> Code(p, "ConvertValue", <<from, to, cleanup, FALSE, FALSE>>)

-----------------------------------------------------------------------------
(* Arguments and results *)

\* On the stack: position, length
abiDecode(p, types, fromMemory) ==
    LET Decoded(t) == loadFromMemoryDynamic(p, encodingType(p, t), ~fromMemory, TRUE) \o moveToStackTop(1, 1)
                      \o moveIntoStack(3, 1)
    IN RevertIf(Push(Len(types) * WordBytes, <<"DUP2", "LT">>)) \o Ops(<<"DUP2", "ADD", "SWAP1", "DUP1">>)
       \o FlattenSeq([i \in DOMAIN types |-> Decoded(types[i])]) \o Pops(3)

\* On the stack: the values and a position in memory; the end of the encoding is left.
\* The heads come first, those of dynamic arrays are filled in once it is known where
\* their elements are.
EncodedAs(p, given, encoded, argSize) ==
    LET Before(i) == Total([j \in 1..(i - 1) |-> sizeOnStack(given[j])])
        DynamicBefore(i) == Len(SelectSeq(SubSeq(encoded, 1, i - 1), isDynamicallySized))
        Head_(i) ==
            IF isDynamicallySized(encoded[i]) THEN Ops(<<"DUP1">>) \o Push(WordBytes, <<"ADD">>)
            ELSE copyToStackTop(argSize - Before(i) + DynamicBefore(i) + 2, sizeOnStack(given[i]))
                 \o (IF dataStoredIn(given[i], "storage") THEN Code(p, "copyArrayToMemory", <<given[i]>>)
                     ELSE Code(p, "convertType", <<given[i], encoded[i], TRUE>>)
                          \o Code(p, IF encoded[i].category = "Array" THEN "copyArrayToMemory" ELSE "storeInMemoryDynamic",
                                  <<encoded[i]>>))
        Tail_(i, heads) ==
            IF ~isDynamicallySized(encoded[i]) THEN << >>
            ELSE dupInstruction(2 + heads) \o Ops(<<"DUP2", "SUB">>) \o dupInstruction(2 + heads - DynamicBefore(i))
                 \o Ops(<<"MSTORE">>) \o copyToStackTop(argSize - Before(i) + heads + 2, sizeOnStack(given[i]))
                 \o dupInstruction(1 + sizeOnStack(given[i])) \o retrieveLength(given[i], 1)
                 \o Code(p, "storeInMemoryDynamic", <<uint256>>) \o swapInstruction(sizeOnStack(given[i]) + 1) \o Ops(<<"POP">>)
                 \o Code(p, "copyArrayToMemory", <<given[i]>>)
    IN Ops(<<"DUP1">>) \o FlattenSeq([i \in DOMAIN given |-> Head_(i)])
       \o With(DynamicBefore(Len(given) + 1), LAMBDA heads :
               FlattenSeq([i \in DOMAIN given |-> Tail_(i, heads)])
               \o swapInstruction(argSize + heads + 1) \o Pops(argSize + heads + 1))

encodeToMemory(p, given, targets) ==
    IF given = << >> THEN << >>
    ELSE With([i \in DOMAIN targets |-> fullEncodingType(p, targets[i])], LAMBDA encoded :
              With(sizeOnStack(TupleType(given)), LAMBDA argSize : EncodedAs(p, given, encoded, argSize)))

-----------------------------------------------------------------------------
(* The low level functions themselves *)

\* One element; on the stack: target, target end, source position, target position, source
\* end, and the bytes of target and source where they are packed, all before the value.
\* Structs in memory are not implemented: compilation ends here.
ElementToStorage(p, to, from, source, targetPacked, sourcePacked, packed) ==
    CASE from.category = "Array" ->
            Ops(<<"DUP3">>) \o Ops(IF from.location = "memory" THEN <<"MLOAD", "DUP3">> ELSE <<"DUP3">>)
            \o Code(p, "copyArrayToStorage", <<to, from>>) \o Ops(<<"POP">>)
      [] from.category # "Array" ->
            dupInstruction(3 + packed)
            \o (CASE source.location = "storage" ->
                        (IF sourcePacked THEN Ops(<<"DUP2">>) ELSE Push(0, << >>)) \o Code(p, "StorageRetrieve", <<from, TRUE>>)
                  [] source.location # "storage" /\ isValueType(from) -> loadFromMemoryDynamic(p, from, FALSE, FALSE)
                  [] OTHER -> Ops(<<"UNIMPLEMENTED">>))
            \o dupInstruction(2 + packed + sizeOnStack(from))
            \o (IF targetPacked THEN dupInstruction(1 + packed + sizeOnStack(from)) ELSE Push(0, << >>))
            \o Code(p, "StorageStore", <<to, from, TRUE>>)

\* On the stack: target, source, length of the source.  What the target had more is cleared.
CopyArrayBody(p, target, source) ==
    LET to == target.baseType
        from == source.baseType
        inStorage == source.location = "storage"
    IN With(inStorage /\ isValueType(from) /\ from = to, LAMBDA directCopy :
    With(~directCopy /\ inStorage /\ Packed(p, from), LAMBDA sourcePacked :
    With(~directCopy /\ Packed(p, to), LAMBDA targetPacked :
    With(Bool(sourcePacked) + Bool(targetPacked), LAMBDA packed :
    With(incrementByteOffset(storageBytes(p, to), packed, packed + 2), LAMBDA nextTarget :
    LET Advanced(position, size) == swapInstruction(position) \o Push(size, <<"ADD">>) \o swapInstruction(position)
        element == (IF directCopy THEN Ops(<<"DUP3", "SLOAD", "DUP3", "SSTORE">>)
                    ELSE ElementToStorage(p, to, from, source, targetPacked, sourcePacked, packed))
                   \o (IF sourcePacked THEN incrementByteOffset(storageBytes(p, from), 1, IF targetPacked THEN 5 ELSE 4)
                       ELSE Advanced(2 + packed, IF inStorage THEN storageSize(p, from) ELSE memoryHeadSize(p, from)))
                   \o (IF targetPacked THEN nextTarget ELSE Advanced(1 + packed, storageSize(p, to)))
        restOfSlot == LoopUntil(dupInstruction(packed) \o Ops(<<"ISZERO">>),
                                dupInstruction(2 + packed) \o dupInstruction(1 + packed) \o Code(p, "ValueSetToZero", <<to>>) \o nextTarget)
        elements == (IF inStorage /\ isDynamicallySized(source) THEN computeHashStatic ELSE << >>)
                    \o Ops(<<"SWAP2">>) \o Code(p, "convertLengthToSize", <<source>>) \o Ops(<<"DUP3", "ADD">>)
                    \o Repeated(Push(0, << >>), packed)
                    \o LoopUntil(dupInstruction(3 + packed) \o dupInstruction(2 + packed) \o Ops(<<"GT", "ISZERO">>), element)
                    \o (IF targetPacked THEN restOfSlot ELSE << >>) \o Pops(packed)
    IN Ops(<<"DUP3">>) \o retrieveLength(target, 0)
       \o (IF isDynamicallySized(target) THEN Ops(<<"DUP3", "DUP3", "SSTORE">>) ELSE << >>)
       \o (IF from.category = "Mapping" THEN Pops(4)
           ELSE Ops(<<"SWAP1">>) \o (IF isDynamicallySized(target) THEN computeHashStatic ELSE << >>)
                \o Ops(<<"SWAP1">>) \o Code(p, "convertLengthToSize", <<target>>) \o Ops(<<"DUP2", "ADD", "SWAP3", "DUP3", "ISZERO">>)
                \o ConditionalJumpOver(elements) \o Ops(<<"POP", "SWAP1", "POP">>) \o clearStorageLoop(to) \o Ops(<<"POP">>)))))))

\* On the stack: slot, byte.  Short arrays are unrolled.
ClearArrayBody(p, t) ==
    LET base == t.baseType
        size == storageSize(p, t)
        nextElement == Push(0, << >>) \o Code(p, "StorageSetToZero", <<base, FALSE>>) \o Ops(<<"POP">>)
                       \o Push(storageSize(p, base), <<"ADD">>)
    IN Ops(<<"POP">>)
       \o (IF isDynamicallySized(t) THEN Code(p, "clearDynamicArray", <<t>>)
           ELSE IF t.length = 0 \/ base.category = "Mapping" THEN Ops(<<"POP">>)
           ELSE IF isValueType(base) /\ size <= 5
           THEN Repeated(Push(0, <<"DUP2", "SSTORE">>) \o Push(1, <<"ADD">>), size - 1) \o Push(0, <<"SWAP1", "SSTORE">>)
           ELSE IF ~isValueType(base) /\ t.length <= 4
           THEN Repeated(nextElement, t.length - 1) \o Push(0, << >>) \o Code(p, "StorageSetToZero", <<base, TRUE>>)
           ELSE Ops(<<"DUP1">>) \o Push(t.length, << >>) \o Code(p, "convertLengthToSize", <<t>>) \o Ops(<<"ADD", "SWAP1">>)
                \o clearStorageLoop(ClearedBase(p, t)) \o Ops(<<"POP">>))

\* On the stack: end, position; the end is left.  The loop returns by a jump of its own.
ClearStorageBody(p, t) ==
    LET loop == LoopUntil(Ops(<<"DUP1", "DUP3", "GT", "ISZERO">>),
                          Push(0, << >>) \o Code(p, "StorageSetToZero", <<t, FALSE>>) \o Ops(<<"POP">>)
                          \o Push(storageSize(p, t), <<"ADD">>))
        code == Ops(<<"SWAP2", "SWAP1">>) \o PushRelative(2) \o Ops(<<"JUMP">>) \o loop \o Ops(<<"POP", "SWAP1", "JUMP">>)
    IN IF t.category = "Mapping" THEN Ops(<<"POP">>) ELSE PushRelative(Len(code) + 1) \o code \o Ops(<<"JUMPDEST">>)

\* On the stack: reference, new length
ResizeBody(p, t) ==
    LET cleared == Code(p, "convertLengthToSize", <<t>>) \o Ops(<<"DUP2">>) \o Code(p, "convertLengthToSize", <<t>>) \o Ops(<<"DUP4">>)
                   \o computeHashStatic \o Ops(<<"SWAP2", "DUP3", "ADD", "SWAP2", "ADD">>)
                   \o clearStorageLoop(ClearedBase(p, t))
    IN retrieveLength(t, 1) \o Ops(<<"DUP2", "DUP4", "SSTORE", "DUP2", "DUP2", "GT", "ISZERO">>)
       \o ConditionalJumpOver(cleared) \o Pops(3)

ZeroValueBody(p, t) ==
    LET members == memoryMembers(p, t.struct)
        Zero_(m) == With(withLocationIfReference("memory", p.type[m]), LAMBDA u :
                         Code(p, "pushZeroValue", <<u>>) \o Code(p, "storeInMemoryDynamic", <<u>>))
    IN allocateMemoryOf(Max({WordBytes, calldataEncodedSize(p, t, TRUE)})) \o Ops(<<"DUP1">>)
       \o (IF t.category = "Struct" THEN FlattenSeq([i \in DOMAIN members |-> Zero_(members[i])])
           ELSE IF t.length > 0 THEN Push(t.length, <<"SWAP1">>) \o Code(p, "zeroInitialiseMemoryArray", <<t>>) ELSE << >>)
       \o Ops(<<"POP">>)

LowLevelBody(p, f) ==
    CASE f.name = "copyArrayToStorage" -> CopyArrayBody(p, f.types[1], f.types[2])
      [] f.name = "clearArray" -> ClearArrayBody(p, f.types[1])
      [] f.name = "clearStorageLoop" -> ClearStorageBody(p, f.types[1])
      [] f.name = "resizeDynamicArray" -> ResizeBody(p, f.types[1])
      [] f.name = "pushZeroValue" -> ZeroValueBody(p, f.types[1])

Code(p, name, x) ==
    CASE name = "ConvertValue" -> ConvertValue(p, x[1], x[2], x[3], x[4], x[5])
      [] name = "storeInMemoryDynamic" -> storeInMemoryDynamic(p, x[1])
      [] name = "MemoryStore" -> MemoryStore(p, x[1], x[2], x[3])
      [] name = "StorageRetrieve" -> StorageRetrieve(p, x[1], x[2])
      [] name = "StorageStore" -> StorageStore(p, x[1], x[2], x[3])
      [] name = "StorageSetToZero" -> StorageSetToZero(p, x[1], x[2])
      [] name = "accessIndex" -> accessIndex(p, x[1], x[2])
      [] name = "convertLengthToSize" -> convertLengthToSize(p, x[1])
      [] name = "copyArrayToMemory" -> copyArrayToMemory(p, x[1])
      [] name = "convertType" -> convertType(p, x[1], x[2], x[3])
      [] name = "zeroInitialiseMemoryArray" -> zeroInitialiseMemoryArray(p, x[1])
      [] name = "encodeToMemory" -> encodeToMemory(p, x[1], x[2])
      [] name = "abiDecode" -> abiDecode(p, x[1], x[2])
      [] name = "popStorageArrayElement" -> popStorageArrayElement(p, x[1])
      [] name = "clearDynamicArray" -> clearDynamicArray(p, x[1])
      [] name = "pushZeroValue" -> pushZeroValue(p, x[1])
      [] name = "copyArrayToStorage" -> copyArrayToStorage(p, x[1], x[2])
      [] name = "ValueSetToZero" -> ValueSetToZero(p, x[1])
      [] name = "NewArray" -> NewArray(p, x[1])
      [] name = "LowLevelBody" -> LowLevelBody(p, x[1])
=============================================================================
