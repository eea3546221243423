------------------------- MODULE ExpressionCompiler -------------------------
(***************************************************************************)
(* Code generation for expressions (ExpressionCompiler.cpp) and the places  *)
(* they assign to (LValue.cpp), on a compiler context (CompilerContext.cpp) *)
(* that counts the height of the stack and remembers where local variables  *)
(* are, which functions have been asked for and which of them have been     *)
(* compiled.                                                                *)
(*                                                                         *)
(* A label of a function is one tag: the two halves for creation and        *)
(* runtime code are left out with the values of function types, but a       *)
(* label with both halves asks the runtime code for the function as well.   *)
(* External calls, contract creation, inline assembly, libraries and byte   *)
(* arrays are left out.                                                     *)
(***************************************************************************)
EXTENDS CompilerUtils

NoLValue == [kind |-> "none"]

\* Local variables have one base offset for each time their declaration is active.
CompilerContext(p, contract, isCreation, orderLiterals) ==
    [p |-> p, contract |-> contract, isCreation |-> isCreation, orderLiterals |-> orderLiterals, items |-> << >>, height |-> 0,
     variables |-> << >>, lvalue |-> NoLValue, tags |-> 0,
     entries |-> << >>, queue |-> << >>, compiled |-> {}, runtimeEntries |-> << >>, lows |-> << >>,
     function |-> 0, modifierDepth |-> -1, scopeHeights |-> << >>,
     returnTags |-> << >>, breakTags |-> << >>, continueTags |-> << >>,
     failed |-> FALSE, broken |-> FALSE]

MaxReach == 16   \* how deep DUP and SWAP reach

\* DUP and SWAP are written with their number or with a depth that is computed.
DupDepth == ("DUP1" :> 1) @@ ("DUP2" :> 2) @@ ("DUP3" :> 3) @@ ("DUP4" :> 4) @@ ("DUP5" :> 5) @@ ("DUP6" :> 6)
SwapDepth == ("SWAP1" :> 1) @@ ("SWAP2" :> 2) @@ ("SWAP3" :> 3)

Deposit(item) ==
    CASE item.op \in {"PUSH", "PUSHREL", "PUSHTAG", "PUSHLOW", "PUSHFUN", "PUSHSIZE", "DUP"} \cup DOMAIN DupDepth -> 1
      [] item.op \in {"SWAP", "TAG", "FUNTAG", "LOWTAG", "UNIMPLEMENTED"} \cup DOMAIN SwapDepth -> 0
      [] item.op = "ADJUST" -> item.arg
      [] OTHER -> instructionInfo[item.op].ret - instructionInfo[item.op].args

RequestedBy(code, op) == With(SelectSeq(code, LAMBDA item : item.op = op), LAMBDA items :
                              [i \in DOMAIN items |-> items[i].arg])

\* functionEntryLabel: a function is queued the first time it is asked for.
functionEntryLabel(c, function) ==
    IF function \in ToSet(c.entries) THEN c
    ELSE [c EXCEPT !.entries = Append(@, function), !.queue = Append(@, function)]

\* A piece of CompilerUtils is named where it is used and expanded when it is appended.
Piece(name, arguments) == <<Item("PIECE", [name |-> name, arguments |-> arguments])>>
Expanded(p, code) ==
    FlattenSeq(<< >> \o [i \in DOMAIN code |-> IF code[i].op = "PIECE" THEN Code(p, code[i].arg.name, code[i].arg.arguments)
                                      ELSE <<code[i]>>])

\* An element of the stack out of reach, or what is not implemented, is an error.
AppendItems(c, code) ==
    [c EXCEPT !.items = @ \o code,
              !.height = @ + Total([i \in DOMAIN code |-> Deposit(code[i])]),
              !.lows = FoldLeft(AddTo, @, RequestedBy(code, "PUSHLOW")),
              !.failed = @ \/ \E i \in DOMAIN code : \/ code[i].op \in {"DUP", "SWAP"} /\ code[i].arg > MaxReach
                                                    \/ code[i].op = "UNIMPLEMENTED"]

\* What has to be done goes through here: items and pieces to be appended, a value to be
\* stored, an expression to be compiled.
RECURSIVE Compile(_, _, _)
Emit(c, code) == Compile("items", c, code)
Visit(c, id) == Compile("expression", c, id)

pushFunctionEntryLabel(c, function) == Emit(functionEntryLabel(c, function), <<Item("PUSHFUN", function)>>)

\* pushCombinedFunctionEntryLabel
pushCombinedFunctionEntryLabel(c, function) ==
    With(pushFunctionEntryLabel(c, function), LAMBDA d :
         IF d.isCreation THEN [d EXCEPT !.runtimeEntries = AddTo(@, function)] ELSE d)

PushTag(tag) == <<Item("PUSHTAG", tag)>>
Tag(tag) == <<Item("TAG", tag)>>
JumpTo(tag) == PushTag(tag) \o Ops(<<"JUMP">>)
JumpIf(tag) == PushTag(tag) \o Ops(<<"JUMPI">>)
newTags(c, n) == [c EXCEPT !.tags = @ + n]

addVariable(c, declaration, offsetToCurrent) ==
    [c EXCEPT !.variables =
        (declaration :> Append(IF declaration \in DOMAIN @ THEN @[declaration] ELSE << >>, c.height - offsetToCurrent)) @@ @]
isLocalVariableOf(c, declaration) == declaration \in DOMAIN c.variables /\ c.variables[declaration] # << >>
baseStackOffsetOfVariable(c, declaration) == Last(c.variables[declaration])
baseToCurrentStackOffset(c, base) == c.height - base - 1

removeVariable(c, declaration) == [c EXCEPT !.variables[declaration] = Front(@)]
removeVariablesAboveStackHeight(c, height) ==
    [c EXCEPT !.variables = [d \in DOMAIN @ |-> IF @[d] # << >> /\ Last(@[d]) >= height THEN Front(@[d]) ELSE @[d]]]

-----------------------------------------------------------------------------
(* Virtual functions, from the contract being compiled on *)

LikeFunction(p, candidate, function) ==
    /\ p.nodes[candidate].name = p.nodes[function].name /\ ~p.nodes[candidate].isConstructor
    /\ SameParameters(p, candidate, function)

InContracts(p, contracts, kind) == FlattenSeq([i \in DOMAIN contracts |-> MembersOf(p, contracts[i], kind)])

ResolveFrom(c, contracts, function) ==
    FirstIn(SelectSeq(InContracts(c.p, contracts, "FunctionDefinition"), LAMBDA f : LikeFunction(c.p, f, function)))

resolveVirtualFunction(c, function) == ResolveFrom(c, c.p.bases[c.contract], function)

\* Of the contracts after the given one
After(contracts, contract) == SubSeq(contracts, 1 + CHOOSE i \in DOMAIN contracts : contracts[i] = contract, Len(contracts))
superFunction(c, function, contract) == ResolveFrom(c, After(c.p.bases[c.contract], contract), function)

resolveVirtualFunctionModifier(c, modifier) ==
    FirstIn(SelectSeq(InContracts(c.p, c.p.bases[c.contract], "ModifierDefinition"),
                      LAMBDA m : c.p.nodes[m].name = c.p.nodes[modifier].name))

nextConstructor(c, contract) ==
    FirstIn(SelectSeq(InContracts(c.p, After(c.p.bases[c.contract], contract), "FunctionDefinition"),
                      LAMBDA f : c.p.nodes[f].isConstructor))

-----------------------------------------------------------------------------
(* LValue *)

StackVariable(type, base) == [kind |-> "stack", type |-> type, base |-> base]
MemoryItem(type) == [kind |-> "memory", type |-> type]
StorageItem(type) == [kind |-> "storage", type |-> type]
StorageArrayLength(type) == [kind |-> "length", type |-> type]
TupleObject(lvalues) == [kind |-> "tuple", lvalues |-> lvalues]

RECURSIVE LValueSize(_)
LValueSize(lv) ==
    CASE lv.kind = "storage" -> 2
      [] lv.kind \in {"memory", "length"} -> 1
      [] lv.kind \in {"stack", "none"} -> 0
      [] lv.kind = "tuple" -> Total([i \in DOMAIN lv.lvalues |-> LValueSize(lv.lvalues[i])])

retrieveValue(c, lv, remove) ==
    CASE lv.kind = "stack" ->
            Emit(c, Repeated(dupInstruction(baseToCurrentStackOffset(c, lv.base) + 1), sizeOnStack(lv.type)))
      [] lv.kind = "memory" -> Emit(c, MemoryRetrieve(remove))
      [] lv.kind = "storage" -> Emit(c, Piece("StorageRetrieve", <<lv.type, remove>>))
      [] lv.kind = "length" ->
            Emit(c, retrieveLength(lv.type, 0) \o (IF remove THEN Ops(<<"SWAP1", "POP">>) ELSE << >>))

StoreOnStack(c, lv, move) ==
    LET size == sizeOnStack(lv.type)
        depth == baseToCurrentStackOffset(c, lv.base) - size + 1
        stored == Emit(c, IF depth > 0 THEN Repeated(swapInstruction(depth) \o Ops(<<"POP">>), size) ELSE << >>)
    IN IF move THEN stored ELSE With(stored, LAMBDA d : retrieveValue(d, lv, FALSE))

\* A tuple is stored from right to left; valuePos is how deep its next value is.
StoreComponent(s, lv, type) ==
    IF lv.kind = "none" THEN s
    ELSE LET size == sizeOnStack(type)
             position == s.valuePos + size
             stored == Compile("store", Emit(s.c, copyToStackTop(position, size) \o moveToStackTop(size, LValueSize(lv))),
                               <<lv, type, TRUE>>)
         IN With(stored, LAMBDA d : [c |-> d, valuePos |-> position + d.height - s.c.height])

storeValue(c, lv, from, move) ==
    CASE lv.kind = "stack" -> StoreOnStack(c, lv, move)
      [] lv.kind = "memory" -> Emit(c, Piece("MemoryStore", <<lv.type, from, move>>))
      [] lv.kind = "storage" -> Emit(c, Piece("StorageStore", <<lv.type, from, move>>))
      [] lv.kind = "length" -> Emit(c, Ops(<<IF move THEN "SWAP1" ELSE "DUP2">>) \o resizeDynamicArray(lv.type))
      [] lv.kind = "tuple" ->
            Emit(FoldLeft(LAMBDA s, i : StoreComponent(s, lv.lvalues[i], from.components[i]),
                          [c |-> c, valuePos |-> LValueSize(lv)],
                          Reverse([i \in DOMAIN lv.lvalues |-> i])).c,
                 Pops(sizeOnStack(from)))

setToZero(c, lv) ==
    CASE lv.kind = "stack" -> With(Emit(c, Piece("pushZeroValue", <<lv.type>>)), LAMBDA d : StoreOnStack(d, lv, TRUE))
      [] lv.kind = "memory" -> Emit(c, Piece("pushZeroValue", <<lv.type>>) \o Piece("storeInMemoryDynamic", <<lv.type>>) \o Ops(<<"POP">>))
      [] lv.kind = "storage" -> Emit(c, Piece("StorageSetToZero", <<lv.type, TRUE>>))
      [] lv.kind = "length" -> Emit(c, Piece("clearDynamicArray", <<lv.type>>))

\* Kept for the assignment if the expression is to be assigned to, otherwise read
setLValue(c, id, lv) ==
    IF id \in c.p.lValueRequested THEN [c EXCEPT !.lvalue = lv] ELSE retrieveValue(c, lv, TRUE)

storageLocationOfVariable(c, declaration) ==
    With(contractStateVariables(c.p, c.contract), LAMBDA all :
         CHOOSE v \in ToSet(all) : v[1] = declaration)

setLValueFromDeclaration(c, declaration, id) ==
    IF isLocalVariableOf(c, declaration)
    THEN setLValue(c, id, StackVariable(c.p.type[declaration], baseStackOffsetOfVariable(c, declaration)))
    ELSE With(storageLocationOfVariable(c, declaration), LAMBDA at :
              setLValue(Emit(c, Push(at[2], << >>) \o Push(at[3], << >>)), id, StorageItem(c.p.type[declaration])))

-----------------------------------------------------------------------------
(* Expressions.  Visit leaves the value of an expression on the stack, or the
   reference to its place if it is assigned to. *)

acceptAndConvert(c, id, to, cleanup) ==
    With(Visit(c, id), LAMBDA d : Emit(d, Piece("convertType", <<d.p.type[id], to, cleanup>>)))

AcceptAll(c, ids, types, cleanup, after(_)) ==
    FoldLeft(LAMBDA d, i : Emit(acceptAndConvert(d, ids[i], types[i], cleanup), after(types[i])), c, [i \in DOMAIN ids |-> i])
Nothing(t) == << >>

\* A plausible slip: the bits above an exponent are left as they are.
cleanupNeededExceptForExponents(category, op) ==
    isCompareOp(op) \/ isShiftOp(op) \/ (category = "Integer" /\ op \in {"/", "%"})

cleanupNeededForOp(category, op) == isCompareOp(op) \/ isShiftOp(op) \/ (category = "Integer" /\ op \in {"/", "%", "**"})

isSignedInteger(t) == t.category = "Integer" /\ t.isSigned

ArithmeticInstruction == ("+" :> "ADD") @@ ("-" :> "SUB") @@ ("*" :> "MUL") @@ ("**" :> "EXP")
BitInstruction == ("|" :> "OR") @@ ("&" :> "AND") @@ ("^" :> "XOR")

\* Divisions by zero are invalid.
appendOrdinaryBinaryOperatorCode(op, t) ==
    CASE op \in DOMAIN ArithmeticInstruction -> Ops(<<ArithmeticInstruction[op]>>)
      [] op \in DOMAIN BitInstruction -> Ops(<<BitInstruction[op]>>)
      [] op \in {"/", "%"} ->
            Ops(<<"DUP2", "ISZERO">>) \o appendConditionalInvalid
            \o Ops(<<IF op = "/" THEN IF isSignedInteger(t) THEN "SDIV" ELSE "DIV"
                     ELSE IF isSignedInteger(t) THEN "SMOD" ELSE "MOD">>)

\* On the stack: amount, value.  Negative amounts are invalid.
appendShiftOperatorCode(op, valueType, amountType) ==
    (IF isSignedInteger(amountType) THEN Push(0, <<"DUP3", "SLT">>) \o appendConditionalInvalid ELSE << >>)
    \o Ops(<<"SWAP1", IF op = "<<" THEN "SHL" ELSE IF isSignedInteger(valueType) THEN "SAR" ELSE "SHR">>)

appendCompareOperatorCode(op, t) ==
    LET less == IF isSignedInteger(t) THEN "SLT" ELSE "LT"
        greater == IF isSignedInteger(t) THEN "SGT" ELSE "GT"
    IN Ops(CASE op = "==" -> <<"EQ">>
             [] op = "!=" -> <<"EQ", "ISZERO">>
             [] op = "<" -> <<less>>
             [] op = ">" -> <<greater>>
             [] op = "<=" -> <<greater, "ISZERO">>
             [] op = ">=" -> <<less, "ISZERO">>)

OperatorCode(op, t, amountType) ==
    CASE isShiftOp(op) -> appendShiftOperatorCode(op, t, amountType)
      [] isCompareOp(op) -> appendCompareOperatorCode(op, t)
      [] OTHER -> appendOrdinaryBinaryOperatorCode(op, t)

compileConditional(c, id) ==
    LET n == c.p.nodes[id]
        t == c.p.type[id]
        trueTag == c.tags + 1
        endTag == c.tags + 2
        condition == Emit(Visit(newTags(c, 2), n.condition), JumpIf(trueTag))
        false == Emit(acceptAndConvert(condition, n.falseExpression, t, FALSE),
                      JumpTo(endTag) \o Tag(trueTag) \o adjustStackOffset(-sizeOnStack(t)))
    IN Emit(acceptAndConvert(false, n.trueExpression, t, FALSE), Tag(endTag))

\* The value first, then the place
CompoundAssignment(c, lv, t, op, amountType, cleanup) ==
    LET size == LValueSize(lv)
        copied == IF size = 0 THEN c ELSE Emit(c, copyToStackTop(size + 1, 1) \o copyToStackTop(1 + size, size))
        retrieved == With(copied, LAMBDA d : retrieveValue(d, lv, TRUE))
        updated == Emit(retrieved, Piece("convertType", <<t, t, cleanup>>) \o OperatorCode(op, t, amountType)
                                   \o (IF size = 0 THEN << >> ELSE swapInstruction(1 + size) \o Ops(<<"POP">>)))
    IN With(updated, LAMBDA d : Compile("store", d, <<lv, t, FALSE>>))

compileAssignment(c, id) ==
    LET n == c.p.nodes[id]
        leftType == c.p.type[n.left]
        op == IF n.op = "=" THEN "=" ELSE AssignmentToBinaryOp[n.op]
        cleanup == op # "=" /\ cleanupNeededForOp(leftType.category, op)
        intermediate == IF op # "=" /\ isShiftOp(op) THEN mobileType(c.p.type[n.right])
                        ELSE closestTemporaryType(c.p.type[n.right], leftType)
        Stored(d, lv) == IF op = "=" THEN Compile("store", d, <<lv, intermediate, FALSE>>)
                         ELSE CompoundAssignment(d, lv, leftType, op, intermediate, cleanup)
    IN With(Visit(acceptAndConvert(c, n.right, intermediate, cleanup), n.left),
            LAMBDA d : Stored([d EXCEPT !.lvalue = NoLValue], d.lvalue))

InlineArray(c, id) ==
    LET n == c.p.nodes[id]
        t == c.p.type[id]
        Stored(u) == Piece("storeInMemoryDynamic", <<u>>)
    IN Emit(AcceptAll(Emit(c, allocateMemoryOf(Max({WordBytes, ArrayMemorySize(c.p, t)})) \o Ops(<<"DUP1">>)),
                      n.components, [i \in DOMAIN n.components |-> t.baseType], TRUE, Stored),
            Ops(<<"POP">>))

compileTuple(c, id) ==
    LET n == c.p.nodes[id]
        requested == id \in c.p.lValueRequested
        Component(s, e) ==
            IF e = 0 THEN [s EXCEPT !.lvalues = Append(@, NoLValue)]
            ELSE With(Visit(s.c, e), LAMBDA d :
                      [c |-> [d EXCEPT !.lvalue = NoLValue], lvalues |-> Append(s.lvalues, d.lvalue)])
        Result(s) == IF ~requested THEN s.c
                     ELSE [s.c EXCEPT !.lvalue = IF Len(s.lvalues) = 1 THEN s.lvalues[1] ELSE TupleObject(s.lvalues)]
    IN IF n.isInlineArray THEN InlineArray(c, id)
       ELSE With(FoldLeft(Component, [c |-> c, lvalues |-> << >>], n.components), Result)

Increment(c, lv, n, t) ==
    LET size == LValueSize(lv)
        Swaps(from) == FlattenSeq([i \in 1..from |-> swapInstruction(from + 1 - i)])
        code == (IF n.isPrefix THEN << >> ELSE Ops(<<"DUP1">>) \o (IF size > 0 THEN Swaps(1 + size) ELSE << >>))
                \o Push(1, IF n.op = "++" THEN <<"ADD">> ELSE <<"SWAP1", "SUB">>) \o Swaps(size)
    IN With(Emit(retrieveValue(c, lv, FALSE), code), LAMBDA d : Compile("store", d, <<lv, t, ~n.isPrefix>>))

compileUnary(c, id) ==
    LET n == c.p.nodes[id]
        t == c.p.type[id]
        Applied(d) ==
            CASE n.op = "!" -> Emit(d, Ops(<<"ISZERO">>))
              [] n.op = "~" -> Emit(d, Ops(<<"NOT">>))
              [] n.op = "-" -> Emit(d, Push(0, <<"SUB">>))
              [] n.op = "delete" -> setToZero([d EXCEPT !.lvalue = NoLValue], d.lvalue)
              [] n.op \in {"++", "--"} -> Increment([d EXCEPT !.lvalue = NoLValue], d.lvalue, n, t)
    IN IF t.category = "RationalNumber" THEN Emit(c, Push(literalValue(t, ""), << >>))
       ELSE With(Visit(c, n.sub), Applied)

\* The right operand first, unless the left one decides, or the right one is a literal that
\* the optimiser wants to come last
compileBinary(c, id) ==
    LET n == c.p.nodes[id]
        common == c.p.commonType[id]
        cleanup == cleanupNeededForOp(common.category, n.op)
        rightType == IF isShiftOp(n.op) THEN mobileType(c.p.type[n.right]) ELSE common
        IsLiteral(e) == c.p.nodes[e].kind = "Literal" \/ c.p.type[e].category = "RationalNumber"
        swap == /\ c.orderLiterals /\ n.op \in {"|", "^", "&", "+", "*", "==", "!="}
                /\ IsLiteral(n.right) /\ ~IsLiteral(n.left)
        Left(d) == acceptAndConvert(d, n.left, common, cleanup)
        Right(d) == acceptAndConvert(d, n.right, rightType, cleanup)
        endTag == c.tags + 1
        left == Emit(Visit(newTags(c, 1), n.left),
                     Ops(IF n.op = "&&" THEN <<"DUP1", "ISZERO">> ELSE <<"DUP1">>) \o JumpIf(endTag) \o Ops(<<"POP">>))
    IN IF n.op \in {"&&", "||"} THEN Emit(Visit(left, n.right), Tag(endTag))
       ELSE IF common.category = "RationalNumber" THEN Emit(c, Push(literalValue(common, ""), << >>))
       ELSE Emit(IF swap THEN Right(Left(c)) ELSE Left(Right(c)), OperatorCode(n.op, common, rightType))

-----------------------------------------------------------------------------
(* Calls *)

InternalCall(c, n, t) ==
    LET returnTag == c.tags + 1
        arguments == AcceptAll(Emit(newTags(c, 1), PushTag(returnTag)), n.arguments, t.parameterTypes, FALSE, Nothing)
        called == c.p.ref[n.expression]
        byName == c.p.nodes[n.expression].kind = "Identifier" /\ c.p.nodes[called].kind = "FunctionDefinition"
        labelled == IF byName
                    THEN With(arguments, LAMBDA d : pushFunctionEntryLabel(d, resolveVirtualFunction(d, called)))
                    ELSE Visit(arguments, n.expression)
    IN Emit(labelled, Ops(<<"JUMP">>) \o Tag(returnTag)
                      \o adjustStackOffset(sizeOnStack(TupleType(t.returnParameterTypes))
                                           - sizeOnStack(TupleType(t.parameterTypes)) - 1))

StructConstructorCall(c, id) ==
    LET n == c.p.nodes[id]
        t == c.p.type[id]
        Stored(u) == Piece("storeInMemoryDynamic", <<u>>)
    IN Emit(AcceptAll(Emit(c, allocateMemoryOf(Max({WordBytes, StructMemorySize(c.p, t.struct)})) \o Ops(<<"DUP1">>)),
                      n.arguments, StructConstructor(c.p, t).parameterTypes, FALSE, Stored),
            Ops(<<"POP">>))

\* The indexed arguments from the last one on, then the others
EventCall(c, n, t) ==
    LET event == c.p.nodes[t.declaration]
        all == [i \in DOMAIN n.arguments |-> i]
        indexed == Reverse(SelectSeq(all, LAMBDA i : c.p.nodes[event.parameters[i]].isIndexed))
        others == SelectSeq(all, LAMBDA i : ~c.p.nodes[event.parameters[i]].isIndexed)
        Arguments(is) == [i \in DOMAIN is |-> n.arguments[is[i]]]
        Types(is) == [i \in DOMAIN is |-> t.parameterTypes[is[i]]]
        topics == Len(indexed) + Bool(~event.anonymous)
        withTopics == Emit(AcceptAll(c, Arguments(indexed), Types(indexed), TRUE, Nothing),
                           IF event.anonymous THEN << >> ELSE Push(SignatureHash(externalSignature(c.p, t)), << >>))
        given == TypesOf(c.p, Arguments(others))
    IN Emit(AcceptAll(withTopics, Arguments(others), given, FALSE, Nothing),
            fetchFreeMemoryPointer \o Piece("encodeToMemory", <<given, Types(others)>>) \o toSizeAfterFreeMemoryPointer
            \o Ops(<<(<<"LOG0", "LOG1", "LOG2", "LOG3", "LOG4">>)[topics + 1]>>))

\* On the stack: reference, value
ArrayPush(c, argument, t) ==
    LET base == t.parameterTypes[1]
        array == NewArrayType("storage", base, Dynamic)
        given == c.p.type[argument]
        size == sizeOnStack(given)
        type == closestTemporaryType(given, base)
    IN Emit(Visit(c, argument),
            moveToStackTop(size, 1) \o Ops(<<"DUP1">>) \o incrementDynamicArraySize
            \o Ops(<<"SWAP1">>) \o Push(1, <<"DUP3", "SUB">>) \o Piece("accessIndex", <<array, FALSE>>)
            \o moveToStackTop(3, size) \o Piece("convertType", <<given, type, FALSE>>)
            \o Repeated(moveToStackTop(1 + sizeOnStack(type), 1), 2) \o Piece("StorageStore", <<base, type, TRUE>>))

AssertOrRequire(c, n, t) ==
    Emit(acceptAndConvert(c, n.arguments[1], BoolType, FALSE),
         Ops(<<"ISZERO", "ISZERO">>)
         \o ConditionalJumpOver(IF t.kind = "Assert" THEN Ops(<<"INVALID">>) ELSE appendRevert))

\* The modulus first, which must not be zero
AddOrMulMod(c, n, t) ==
    LET modulus == Emit(acceptAndConvert(c, n.arguments[3], uint256, FALSE), Ops(<<"DUP1", "ISZERO">>) \o appendConditionalInvalid)
    IN Emit(acceptAndConvert(acceptAndConvert(modulus, n.arguments[2], uint256, FALSE), n.arguments[1], uint256, FALSE),
            Ops(<<IF t.kind = "AddMod" THEN "ADDMOD" ELSE "MULMOD">>))

ArrayPop(c, n) ==
    Emit(Visit(c, n.expression), Piece("popStorageArrayElement", <<c.p.type[c.p.nodes[n.expression].expression]>>))

BuiltinCall(c, id, n, t) ==
    CASE t.kind = "Revert" -> Emit(c, appendRevert)
      [] t.kind \in {"Assert", "Require"} -> AssertOrRequire(c, n, t)
      [] t.kind \in {"AddMod", "MulMod"} -> AddOrMulMod(c, n, t)
      [] t.kind = "Event" -> EventCall(c, n, t)
      [] t.kind = "ArrayPush" -> ArrayPush(Visit(c, n.expression), n.arguments[1], t)
      [] t.kind = "ArrayPop" -> ArrayPop(c, n)
      [] t.kind = "ObjectCreation" -> Emit(acceptAndConvert(c, n.arguments[1], uint256, FALSE), Piece("NewArray", <<c.p.type[id]>>))

compileFunctionCall(c, id) ==
    LET n == c.p.nodes[id]
        t == c.p.type[n.expression]
    IN CASE c.p.callKind[id] = "TypeConversion" -> acceptAndConvert(c, n.arguments[1], c.p.type[id], FALSE)
         [] c.p.callKind[id] = "StructConstructorCall" -> StructConstructorCall(c, id)
         [] OTHER -> IF t.kind = "Internal" THEN InternalCall(c, n, t) ELSE BuiltinCall(c, id, n, t)

-----------------------------------------------------------------------------
(* Access *)

\* Constants are compiled wherever they are used.
appendVariable(c, declaration, id) ==
    IF c.p.nodes[declaration].isConstant THEN acceptAndConvert(c, c.p.nodes[declaration].value, c.p.type[declaration], FALSE)
    ELSE setLValueFromDeclaration(c, declaration, id)

MagicMember ==
    ("sender" :> Ops(<<"CALLER">>)) @@ ("value" :> Ops(<<"CALLVALUE">>)) @@ ("timestamp" :> Ops(<<"TIMESTAMP">>))
    @@ ("number" :> Ops(<<"NUMBER">>)) @@ ("origin" :> Ops(<<"ORIGIN">>)) @@ ("gasprice" :> Ops(<<"GASPRICE">>))
    @@ ("sig" :> Push(0, <<"CALLDATALOAD">>) \o Push(2 ^ (WordBits - SelectorBytes * ByteBits) - 1, <<"NOT", "AND">>))

StructMember(c, id, n, t) ==
    IF t.location = "storage"
    THEN With(storageOffsetsOfMember(c.p, t.struct, n.memberName), LAMBDA at :
              setLValue(Emit(c, Push(at[1], <<"ADD">>) \o Push(at[2], << >>)), id, StorageItem(c.p.type[id])))
    ELSE setLValue(Emit(c, Push(memoryOffsetOfMember(c.p, t.struct, n.memberName), <<"ADD">>)), id,
                   MemoryItem(c.p.type[id]))

ArrayMember(c, id, n, t) ==
    CASE n.memberName # "length" -> c
      [] n.memberName = "length" /\ ~isDynamicallySized(t) -> Emit(c, Ops(<<"POP">>) \o Push(t.length, << >>))
      [] n.memberName = "length" /\ isDynamicallySized(t) ->
            IF t.location = "storage" THEN setLValue(c, id, StorageArrayLength(t)) ELSE Emit(c, Ops(<<"MLOAD">>))

memberValue(p, t, name) == IndexOfMember(p, p.nodes[t.enum].members, name) - 1

\* A function of a named contract is exactly that one; super depends on the contract
\* being compiled.
compileMemberAccess(c, id) ==
    LET n == c.p.nodes[id]
        t == c.p.type[n.expression]
        declaration == c.p.ref[id]
        OfContract == CASE declaration = 0 -> c
                        [] declaration # 0 /\ c.p.nodes[declaration].kind = "VariableDeclaration" -> appendVariable(c, declaration, id)
                        [] declaration # 0 /\ c.p.nodes[declaration].kind = "FunctionDefinition" ->
                                pushCombinedFunctionEntryLabel(c, declaration)
                        [] OTHER -> c
        Member_(d) ==
            CASE t.category = "Contract" /\ t.super ->
                    pushCombinedFunctionEntryLabel(d, superFunction(d, declaration, t.contract))
              [] t.category = "Magic" -> Emit(d, MagicMember[n.memberName])
              [] t.category = "Struct" -> StructMember(d, id, n, t)
              [] t.category = "TypeType" ->
                    IF t.actualType.category = "Enum" THEN Emit(d, Push(memberValue(d.p, t.actualType, n.memberName), << >>))
                    ELSE d
              [] t.category = "Array" -> ArrayMember(d, id, n, t)
              [] t.category = "FixedBytes" -> Emit(d, Ops(<<"POP">>) \o Push(t.numBytes, << >>))
    IN IF t.category = "TypeType" /\ t.actualType.category = "Contract" THEN OfContract
       ELSE With(Visit(c, n.expression), Member_)

compileIndexAccess(c, id) ==
    LET n == c.p.nodes[id]
        t == c.p.type[n.base]
        index == With(Visit(c, n.base), LAMBDA d : acceptAndConvert(d, n.index, uint256, TRUE))
        key == acceptAndConvert(Emit(Visit(c, n.base), Push(0, << >>)), n.index, t.keyType, TRUE)
    IN CASE t.category = "Mapping" ->
                setLValue(Emit(key, Piece("storeInMemoryDynamic", <<t.keyType>>) \o Ops(<<"SWAP1">>) \o Piece("storeInMemoryDynamic", <<uint256>>)
                                    \o Push(0, <<"KECCAK256">>) \o Push(0, << >>)),
                          id, StorageItem(c.p.type[id]))
         [] t.category = "Array" ->
                setLValue(Emit(index, Piece("accessIndex", <<t, TRUE>>)), id,
                          IF t.location = "storage" THEN StorageItem(c.p.type[id]) ELSE MemoryItem(c.p.type[id]))
         [] t.category = "FixedBytes" ->
                Emit(index, Push(t.numBytes, <<"DUP2", "LT", "ISZERO">>) \o appendConditionalInvalid \o Ops(<<"BYTE">>)
                            \o leftShiftNumberOnStack(WordBits - ByteBits))
         [] t.category = "TypeType" -> Visit(c, n.base)

compileIdentifier(c, id) ==
    LET declaration == c.p.ref[id]
        d == c.p.nodes[declaration]
    IN CASE d.kind = "VariableDeclaration" -> appendVariable(c, declaration, id)
         [] d.kind = "FunctionDefinition" -> pushCombinedFunctionEntryLabel(c, resolveVirtualFunction(c, declaration))
         [] d.kind = "MagicVariableDeclaration" ->
                IF d.name = "now" THEN Emit(c, Ops(<<"TIMESTAMP">>))
                ELSE IF d.name = "this" THEN Emit(c, Ops(<<"ADDRESS">>)) ELSE c
         [] OTHER -> c

ExpressionCode(c, id) ==
    LET n == c.p.nodes[id]
    IN CASE n.kind = "Conditional" -> compileConditional(c, id)
         [] n.kind = "Assignment" -> compileAssignment(c, id)
         [] n.kind = "TupleExpression" -> compileTuple(c, id)
         [] n.kind = "UnaryOperation" -> compileUnary(c, id)
         [] n.kind = "BinaryOperation" -> compileBinary(c, id)
         [] n.kind = "FunctionCall" -> compileFunctionCall(c, id)
         [] n.kind = "MemberAccess" -> compileMemberAccess(c, id)
         [] n.kind = "IndexAccess" -> compileIndexAccess(c, id)
         [] n.kind = "Identifier" -> compileIdentifier(c, id)
         [] n.kind = "Literal" -> Emit(c, Push(literalValue(c.p.type[id], n.token), << >>))
         [] OTHER -> c

-----------------------------------------------------------------------------
(* State variables: their first values and the functions that read public ones *)

appendStateVariableInitialization(c, variable) ==
    LET n == c.p.nodes[variable]
        t == c.p.type[variable]
        from == closestTemporaryType(c.p.type[n.value], t)
        at == storageLocationOfVariable(c, variable)
    IN IF n.value = 0 THEN c
       ELSE Emit(acceptAndConvert(c, n.value, from, FALSE),
                 Push(at[2], << >>) \o Push(at[3], << >>) \o Piece("StorageStore", <<t, from, TRUE>>))

\* The keys and indices are below the position that has been reached; n - i of them follow.
RECURSIVE AccessorSteps(_, _, _, _)
AccessorSteps(p, t, n, i) ==
    IF i = n THEN << >>
    ELSE IF t.category = "Mapping"
    THEN Ops(<<"POP">>) \o storeInMemory(WordBytes) \o copyToStackTop(n - i, 1) \o storeInMemory(0)
         \o Push(2 * WordBytes, << >>) \o Push(0, <<"KECCAK256">>) \o Push(0, << >>) \o AccessorSteps(p, t.valueType, n, i + 1)
    ELSE Ops(<<"POP">>) \o copyToStackTop(n - i + 1, 1) \o Piece("accessIndex", <<t, TRUE>>) \o AccessorSteps(p, t.baseType, n, i + 1)

ReturnJump(size) == dupInstruction(size + 1) \o Ops(<<"JUMP">>)

AccessedMembers(p, t, returned) ==
    LET members == AccessibleMembers(p, t.struct)
        Read(i) ==
            With(storageOffsetsOfMember(p, t.struct, p.nodes[members[i]].name), LAMBDA at :
                 Ops(<<"DUP1">>) \o Push(at[1], <<"ADD">>) \o Push(at[2], << >>))
            \o Piece("StorageRetrieve", <<p.type[members[i]], TRUE>>) \o Piece("convertType", <<p.type[members[i]], returned[i], FALSE>>)
            \o moveToStackTop(sizeOnStack(returned[i]), 1)
    IN Ops(<<"POP">>) \o FlattenSeq([i \in DOMAIN members |-> Read(i)]) \o Ops(<<"POP">>)

appendStateVariableAccessor(c, variable) ==
    LET accessor == AccessorTypeOf(c.p, variable)
        n == Len(accessor.parameterTypes)
        value == AccessorValue(c.p.type[variable])
        returned == accessor.returnParameterTypes
        at == storageLocationOfVariable(c, variable)
        indicesRemoved == CASE n = 0 -> << >>
                            [] n = 1 -> Ops(<<"SWAP2", "POP", "SWAP1">>)
                            [] n >= 2 -> swapInstruction(n) \o Ops(<<"POP">>) \o swapInstruction(n) \o Pops(n - 1)
    IN Emit(c,
           adjustStackOffset(1 + n) \o Push(at[2], << >>) \o Push(at[3], << >>)
           \o AccessorSteps(c.p, c.p.type[variable], n, 0) \o indicesRemoved
           \o (IF value.category = "Struct" THEN AccessedMembers(c.p, value, returned)
               ELSE Piece("StorageRetrieve", <<value, TRUE>>) \o Piece("convertType", <<value, returned[1], FALSE>>))
           \o ReturnJump(sizeOnStack(TupleType(returned))))

appendConstStateVariableAccessor(c, variable) ==
    Emit(acceptAndConvert(c, c.p.nodes[variable].value, c.p.type[variable], FALSE),
         ReturnJump(sizeOnStack(c.p.type[variable])))

\* An error ends the compilation.
Compile(what, c, x) ==
    IF c.failed THEN c ELSE
    CASE what = "items" -> With(Expanded(c.p, x), LAMBDA code : AppendItems(c, code))
      [] what = "store" -> storeValue(c, x[1], x[2], x[3])
      [] what = "expression" -> ExpressionCode(c, x)
      [] what = "converted" -> acceptAndConvert(c, x[1], x[2], FALSE)
      [] what = "arguments" -> AcceptAll(c, x[1], x[2], FALSE, Nothing)
      [] what = "initialisation" -> appendStateVariableInitialization(c, x)
      [] what = "accessor" ->
            IF c.p.nodes[x].isConstant THEN appendConstStateVariableAccessor(c, x) ELSE appendStateVariableAccessor(c, x)
=============================================================================
