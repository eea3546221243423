-------------------------- MODULE ContractCompiler --------------------------
(***************************************************************************)
(* Code generation for contracts: the function selector, functions with     *)
(* their modifiers, statements, constructors (ContractCompiler.cpp) and the *)
(* queue of the functions that still have to be compiled                    *)
(* (CompilerContext.cpp).                                                   *)
(***************************************************************************)
EXTENDS ExpressionCompiler

\* What has to be done goes through here: statements, modifiers and functions; the rest
\* is the expression compiler's.
RECURSIVE Generate(_, _, _)
append(c, code) == Generate("items", c, code)
Statement(c, id) == Generate("statement", c, id)
appendModifierOrFunctionCode(c) == Generate("modifiers", c, 0)
compileFunction(c, function) == Generate("function", c, function)

\* StackHeightChecker: a statement leaves the stack as it was.
Checked(c, height) == With(c, LAMBDA d : [d EXCEPT !.broken = @ \/ d.height # height])

compileExpression(c, id, to) == IF to = NoType THEN Generate("expression", c, id) ELSE Generate("converted", c, <<id, to>>)

appendStackVariableInitialisation(c, variable) ==
    append(addVariable(c, variable, 0), Piece("pushZeroValue", <<c.p.type[variable]>>))

\* The value on top of the stack becomes that of the variable.
moveToStackVariable(c, variable) ==
    LET size == sizeOnStack(c.p.type[variable])
        position == baseToCurrentStackOffset(c, baseStackOffsetOfVariable(c, variable))
    IN append(c, Repeated(swapInstruction(position - size + 1) \o Ops(<<"POP">>), size))

\* The rest of the statement is compiled for the height before.
popAndJump(c, height, tag) ==
    append(c, Pops(c.height - height) \o JumpTo(tag) \o adjustStackOffset(c.height - height))

TagAt(tag, c) == [tag |-> tag, height |-> c.height]

storeStackHeight(c, node) == [c EXCEPT !.scopeHeights = (<<c.modifierDepth, node>> :> c.height) @@ @]
popScopedVariables(c, node) ==
    With(c.scopeHeights[<<c.modifierDepth, node>>], LAMBDA height :
         append([removeVariablesAboveStackHeight(c, height) EXCEPT !.broken = @ \/ c.height < height],
                     Pops(c.height - height)))

compileBlock(c, id) ==
    With(FoldLeft(LAMBDA d, s : Statement(d, s), storeStackHeight(c, id), c.p.nodes[id].statements),
         LAMBDA d : popScopedVariables(d, id))

compileIf(c, id) ==
    LET n == c.p.nodes[id]
        falseTag == c.tags + 1
        endTag == c.tags + 2
        condition == append(compileExpression(newTags(c, 2), n.condition, NoType), Ops(<<"ISZERO">>) \o JumpIf(falseTag))
        true == Statement(condition, n.trueBody)
    IN IF n.falseBody = 0 THEN append(true, Tag(falseTag))
       ELSE append(Statement(append(true, JumpTo(endTag) \o Tag(falseTag)), n.falseBody), Tag(endTag))

EnterLoop(c, breakTag, continueTag) ==
    [c EXCEPT !.breakTags = Append(@, TagAt(breakTag, c)), !.continueTags = Append(@, TagAt(continueTag, c))]
LeaveLoop(c) == [c EXCEPT !.breakTags = Front(@), !.continueTags = Front(@)]

compileWhile(c, id) ==
    LET n == c.p.nodes[id]
        loopStart == c.tags + 1
        loopEnd == c.tags + 2
        condition == c.tags + 3
        begun == append(EnterLoop(newTags(c, 3), loopEnd, IF n.isDoWhile THEN condition ELSE loopStart), Tag(loopStart))
        looped ==
            IF n.isDoWhile
            THEN append(compileExpression(append(Statement(begun, n.body), Tag(condition)), n.condition, NoType),
                      Ops(<<"ISZERO", "ISZERO">>) \o JumpIf(loopStart))
            ELSE append(Statement(append(compileExpression(begun, n.condition, NoType), Ops(<<"ISZERO">>) \o JumpIf(loopEnd)),
                                n.body),
                      JumpTo(loopStart))
    IN LeaveLoop(append(looped, Tag(loopEnd)))

compileFor(c, id) ==
    LET n == c.p.nodes[id]
        loopStart == c.tags + 1
        loopEnd == c.tags + 2
        loopNext == c.tags + 3
        Optionally(d, s) == IF s = 0 THEN d ELSE Statement(d, s)
        begun == With(Optionally(storeStackHeight(newTags(c, 3), id), n.init),
                      LAMBDA d : append(EnterLoop(d, loopEnd, loopNext), Tag(loopStart)))
        condition == IF n.condition = 0 THEN begun
                     ELSE append(compileExpression(begun, n.condition, NoType), Ops(<<"ISZERO">>) \o JumpIf(loopEnd))
        body == append(Statement(condition, n.body), Tag(loopNext))
        looped == LeaveLoop(append(Optionally(body, n.loop), JumpTo(loopStart) \o Tag(loopEnd)))
    IN With(looped, LAMBDA d : popScopedVariables(d, id))

compileReturn(c, id) ==
    LET n == c.p.nodes[id]
        parameters == c.p.nodes[c.p.returns[id]].returnParameters
        types == TypesOf(c.p, parameters)
        expected == IF c.p.type[n.expression].category = "Tuple" \/ Len(types) # 1 THEN TupleType(types) ELSE types[1]
        moved == IF n.expression = 0 THEN c
                 ELSE FoldLeft(moveToStackVariable, compileExpression(c, n.expression, expected), Reverse(parameters))
    IN With(moved, LAMBDA d : popAndJump(d, Last(d.returnTags).height, Last(d.returnTags).tag))

compileVariableDeclaration(c, id) ==
    LET n == c.p.nodes[id]
        t == c.p.type[n.value]
        values == IF t.category = "Tuple" THEN t.components ELSE <<t>>
        Moved(d, i) ==
            LET v == n.variables[i]
            IN IF v = 0 THEN append(d, Pops(sizeOnStack(values[i])))
               ELSE With(append(d, Piece("convertType", <<values[i], c.p.type[v], FALSE>>)),
                         LAMBDA e : moveToStackVariable(e, v))
        Initialised(d) == FoldLeft(Moved, compileExpression(d, n.value, NoType), Reverse([i \in DOMAIN n.variables |-> i]))
    IN With(FoldLeft(appendStackVariableInitialisation, c, NotNull(n.variables)),
            LAMBDA d : IF n.value = 0 THEN d ELSE Checked(Initialised(d), d.height))

compileExpressionStatement(c, id) ==
    With(c.p.nodes[id].expression, LAMBDA e : append(compileExpression(c, e, NoType), Pops(sizeOnStack(c.p.type[e]))))

\* Declarations and blocks change the height, blocks within themselves.
StatementCode(c, id) ==
    LET kind == c.p.nodes[id].kind
    IN CASE kind = "Block" -> compileBlock(c, id)
         [] kind = "IfStatement" -> Checked(compileIf(c, id), c.height)
         [] kind = "WhileStatement" -> Checked(compileWhile(c, id), c.height)
         [] kind = "ForStatement" -> Checked(compileFor(c, id), c.height)
         [] kind = "Continue" -> popAndJump(c, Last(c.continueTags).height, Last(c.continueTags).tag)
         [] kind = "Break" -> popAndJump(c, Last(c.breakTags).height, Last(c.breakTags).tag)
         [] kind = "Return" -> compileReturn(c, id)
         [] kind = "EmitStatement" -> Checked(compileExpression(c, c.p.nodes[id].call, NoType), c.height)
         [] kind = "VariableDeclarationStatement" -> compileVariableDeclaration(c, id)
         [] kind = "ExpressionStatement" -> Checked(compileExpressionStatement(c, id), c.height)
         [] kind = "PlaceholderStatement" -> Checked(appendModifierOrFunctionCode(c), c.height)

-----------------------------------------------------------------------------
(* Functions *)

CodeBlock(c, body, surplus, added) ==
    LET tag == c.tags + 1
        begun == [newTags(c, 1) EXCEPT !.returnTags = Append(@, TagAt(tag, c))]
        ended == append(Statement(begun, body), Tag(tag) \o Pops(surplus))
    IN FoldLeft(removeVariable, [ended EXCEPT !.returnTags = Front(@)], added)

ModifierParameter(c, parameter, argument) ==
    compileExpression(addVariable(c, parameter, 0), argument, c.p.type[parameter])

\* The modifier that the contract being compiled has for the name
ModifierCode(c, invocation) ==
    LET modifier == c.p.nodes[resolveVirtualFunctionModifier(c, c.p.ref[invocation.name])]
        parameters == modifier.parameters
    IN With(FoldLeft(LAMBDA d, i : ModifierParameter(d, parameters[i], invocation.arguments[i]), c, [i \in DOMAIN parameters |-> i]),
            LAMBDA d : CodeBlock(d, modifier.body, sizeOnStack(TupleType(TypesOf(c.p, parameters))), parameters))

\* Around the body of the function are its modifiers, in order; names of base contracts
\* are no modifiers.
ModifierOrFunctionCode(c) ==
    LET function == c.p.nodes[c.function]
        depth == c.modifierDepth + 1
        invocation == c.p.nodes[function.modifiers[depth + 1]]
        Inner(d) ==
            CASE depth >= Len(function.modifiers) -> CodeBlock(d, function.body, 0, << >>)
              [] depth < Len(function.modifiers) ->
                    IF c.p.nodes[c.p.ref[invocation.name]].kind = "ContractDefinition" THEN appendModifierOrFunctionCode(d)
                    ELSE ModifierCode(d, invocation)
    IN [Inner([c EXCEPT !.modifierDepth = depth]) EXCEPT !.modifierDepth = c.modifierDepth]

\* The return address goes above the return values, the arguments away: each element of
\* the layout says where it belongs, -1 is nowhere.
RECURSIVE Reshuffled(_)
Reshuffled(layout) ==
    LET top == Last(layout)
        n == Len(layout)
    IN IF top = n - 1 THEN << >>
       ELSE IF top < 0 THEN Ops(<<"POP">>) \o Reshuffled(Front(layout))
       ELSE swapInstruction(n - top - 1) \o Reshuffled([layout EXCEPT ![top + 1] = top, ![n] = layout[top + 1]])

startFunction(c, function) ==
    [c EXCEPT !.queue = IF @ # << >> /\ Head(@) = function THEN Tail(@) ELSE @, !.compiled = @ \cup {function}]

RECURSIVE AddParameters(_, _, _)
AddParameters(c, parameters, size) ==
    IF parameters = << >> THEN c
    ELSE AddParameters(addVariable(c, Head(parameters), size), Tail(parameters),
                       size - sizeOnStack(c.p.type[Head(parameters)]))

\* With the arguments given by a contract between, if there are parameters
appendBaseConstructor(c, base) ==
    LET parameters == c.p.nodes[base].parameters
        arguments == c.p.nodes[c.p.baseArguments[c.contract][base]].arguments
    IN compileFunction(IF parameters = << >> THEN c
                       ELSE Generate("arguments", c, <<arguments, TypesOf(c.p, parameters)>>), base)

FunctionCode(c, function) ==
    LET n == c.p.nodes[function]
        arguments == sizeOnStack(TupleType(TypesOf(c.p, n.parameters)))
        results == sizeOnStack(TupleType(TypesOf(c.p, n.returnParameters)))
        layout == <<results>> \o [i \in 1..arguments |-> -1] \o [i \in 1..results |-> i - 1]
        entered == AddParameters(append(startFunction(c, function),
                                      IF n.isConstructor THEN << >> ELSE adjustStackOffset(arguments + 1)),
                                 n.parameters, arguments)
        prepared == FoldLeft(appendStackVariableInitialisation, entered, n.returnParameters)
        base == IF n.isConstructor THEN nextConstructor(c, c.p.scope[function]) ELSE 0
        based == IF base = 0 THEN prepared ELSE With(prepared, LAMBDA d : appendBaseConstructor(d, base))
        coded == appendModifierOrFunctionCode([based EXCEPT !.function = function, !.modifierDepth = -1,
                                                            !.scopeHeights = << >>, !.breakTags = << >>, !.continueTags = << >>])
        left == append(coded, Reshuffled(layout) \o adjustStackOffset(-results)
                            \o (IF n.isConstructor \/ isFallback(n) THEN << >> ELSE Ops(<<"JUMP">>)))
        removed == FoldLeft(removeVariable, left, n.parameters \o n.returnParameters)
    IN [removed EXCEPT !.failed = @ \/ Len(layout) > MaxReach + 1]

CompileAccessor(c, variable) == Generate("accessor", startFunction(c, variable), variable)

-----------------------------------------------------------------------------
(* The queues.  A function is left in the queue until it is compiled; one that has
   been compiled before it came first is dropped. *)

RECURSIVE NextIn(_, _)
NextIn(queue, compiled) ==
    IF queue = << >> \/ Head(queue) \notin compiled THEN queue ELSE NextIn(Tail(queue), compiled)
nextFunctionToCompile(c) == FirstIn(NextIn(c.queue, c.compiled))

\* One round of the loop of appendMissingFunctions
appendMissingFunction(c) ==
    With(nextFunctionToCompile(c), LAMBDA function :
         With(append([c EXCEPT !.queue = NextIn(@, c.compiled), !.height = 0], <<Item("FUNTAG", function)>>), LAMBDA begun :
              IF c.p.nodes[function].kind = "VariableDeclaration" THEN CompileAccessor(begun, function)
              ELSE compileFunction(begun, function)))

missingLowLevelFunctions(c) == SelectSeq(c.lows, LAMBDA f : Item("LOWTAG", f) \notin ToSet(c.items))

\* And of appendMissingLowLevelFunctions
appendMissingLowLevelFunction(c) ==
    With(Head(missingLowLevelFunctions(c)), LAMBDA f :
         Checked(append([c EXCEPT !.height = f.inArgs + 1],
                        <<Item("LOWTAG", f)>> \o Piece("LowLevelBody", <<f>>) \o moveToStackTop(f.outArgs, 1) \o Ops(<<"JUMP">>)),
                 f.outArgs))

-----------------------------------------------------------------------------
(* The runtime code *)

appendCallValueCheck == Ops(<<"CALLVALUE">>) \o appendConditionalRevert

ExpectedExecutions == 200   \* expectedExecutionsPerDeployment by default
CreateDataGas == 200        \* GasCosts::createDataGas

RECURSIVE appendInternalSelector(_, _, _, _)
\* ids are sorted; entries are their tags.
appendInternalSelector(c, ids, entries, notFound) ==
    LET pivot == Len(ids) \div 2
        less == c.tags + 1
        larger == appendInternalSelector(
                      append(newTags(c, 1), dupInstruction(1) \o Push(ids[pivot + 1], <<"GT">>) \o JumpIf(less)),
                      SubSeq(ids, pivot + 1, Len(ids)), SubSeq(entries, pivot + 1, Len(ids)), notFound)
        linear == FlattenSeq([i \in DOMAIN ids |-> dupInstruction(1) \o Push(ids[i], <<"EQ">>) \o JumpIf(entries[i])])
    IN IF Len(ids) > 4 /\ (\/ ExpectedExecutions > (17 * CreateDataGas) \div 6
                           \/ ExpectedExecutions * 6 * (Len(ids) - 4) > 17 * CreateDataGas)
       THEN appendInternalSelector(append(larger, Tag(less)), SubSeq(ids, 1, pivot), SubSeq(entries, 1, pivot), notFound)
       ELSE append(c, linear \o JumpTo(notFound))

InterfaceHash(p, t) == SignatureHash(externalSignature(p, t))
interfaceFunctions(p, contract) ==
    With(interfaceFunctionList(p, contract), LAMBDA list :
         SortSeq(list, LAMBDA a, b : InterfaceHash(p, a) < InterfaceHash(p, b)))

isPayableFunction(t) == t.stateMutability = "payable"
hasPayableFunctions(p, contract) ==
    \/ LET f == fallbackFunction(p, contract) IN f # 0 /\ p.nodes[f].stateMutability = "payable"
    \/ \E t \in ToSet(interfaceFunctionList(p, contract)) : isPayableFunction(t)

appendReturnValuePacker(types) ==
    IF types = << >> THEN Ops(<<"STOP">>)
    ELSE fetchFreeMemoryPointer \o Piece("encodeToMemory", <<types, types>>) \o toSizeAfterFreeMemoryPointer \o Ops(<<"RETURN">>)

\* What is called for one function of the interface
CallDataUnpacker(c, t, entry, checkValue) ==
    LET returnTag == c.tags + 1
        parameters == t.parameterTypes
        unpacked == IF parameters = << >> THEN << >>
                    ELSE Push(SelectorBytes, <<"DUP1", "CALLDATASIZE", "SUB">>) \o Piece("abiDecode", <<parameters, FALSE>>)
    IN append(functionEntryLabel([newTags(c, 1) EXCEPT !.height = 0], t.declaration),
              Tag(entry) \o (IF ~isPayableFunction(t) /\ checkValue THEN appendCallValueCheck ELSE << >>)
              \o PushTag(returnTag) \o unpacked \o <<Item("PUSHFUN", t.declaration)>> \o Ops(<<"JUMP">>) \o Tag(returnTag)
              \o adjustStackOffset(sizeOnStack(TupleType(t.returnParameterTypes)) - sizeOnStack(TupleType(parameters)) - 1)
              \o appendReturnValuePacker(t.returnParameterTypes))

\* A contract without payable functions checks once that no value is sent.
Fallback(c, once) ==
    LET fallback == fallbackFunction(c.p, c.contract)
        Called(f) == compileFunction(append(c, IF c.p.nodes[f].stateMutability # "payable" /\ ~once THEN appendCallValueCheck
                                               ELSE << >>), f)
    IN With(fallback, LAMBDA f : IF f = 0 THEN append(c, appendRevert) ELSE append(Called(f), Ops(<<"STOP">>)))

Selector(c, functions, once) ==
    LET notFound == c.tags + 1
        entries == [i \in DOMAIN functions |-> c.tags + 1 + i]
        begun == append(newTags(c, 1 + Len(functions)),
                        (IF once THEN appendCallValueCheck ELSE << >>)
                        \o Push(SelectorBytes, <<"CALLDATASIZE", "LT">>) \o JumpIf(notFound)
                        \o (IF functions = << >> THEN << >>
                            ELSE Push(0, <<"CALLDATALOAD">>) \o rightShiftNumberOnStack(WordBits - SelectorBytes * ByteBits)))
        selected == IF functions = << >> THEN begun
                    ELSE appendInternalSelector(begun, [i \in DOMAIN functions |-> InterfaceHash(c.p, functions[i])],
                                                entries, notFound)
    IN FoldLeft(LAMBDA d, i : CallDataUnpacker(d, functions[i], entries[i], ~once),
                Fallback(append(selected, Tag(notFound)), once), [i \in DOMAIN functions |-> i])

appendFunctionSelector(c) ==
    With(interfaceFunctions(c.p, c.contract), LAMBDA functions :
         With(~hasPayableFunctions(c.p, c.contract) /\ functions # << >>, LAMBDA once : Selector(c, functions, once)))

compileContract(c) == appendFunctionSelector(append(c, initialiseFreeMemoryPointer))

-----------------------------------------------------------------------------
(* The code that creates a contract *)

appendConstructor(c, constructor_) ==
    LET n == c.p.nodes[constructor_]
        size == <<Item("PUSHSIZE", 0)>>
        arguments == fetchFreeMemoryPointer \o size \o Ops(<<"CODESIZE", "SUB", "DUP1">>) \o size
                     \o Ops(<<"DUP4", "CODECOPY", "DUP2", "DUP2", "ADD">>) \o storeFreeMemoryPointer
                     \o Piece("abiDecode", <<TypesOf(c.p, n.parameters), TRUE>>)
    IN compileFunction(append(c, (IF n.stateMutability = "payable" THEN << >> ELSE appendCallValueCheck)
                                      \o (IF n.parameters = << >> THEN << >> ELSE arguments)),
                       constructor_)

initializeStateVariables(c, contract) ==
    FoldLeft(LAMBDA d, v : Generate("initialisation", d, v), c,
             SelectSeq(stateVariables(c.p, contract), LAMBDA v : ~c.p.nodes[v].isConstant))

appendInitAndConstructorCode(c) ==
    LET own == constructor(c.p, c.contract)
        base == nextConstructor(c, c.contract)
        initialised == FoldLeft(initializeStateVariables, c, Reverse(c.p.bases[c.contract]))
    IN With(initialised, LAMBDA d :
            IF own # 0 THEN appendConstructor(d, own)
            ELSE IF base # 0 THEN appendBaseConstructor(d, base)
            ELSE append(d, appendCallValueCheck))

DeployTag == 1

\* compileConstructor up to the functions it needs
compileConstructor(c) ==
    append(appendInitAndConstructorCode(append(newTags(c, DeployTag), initialiseFreeMemoryPointer)), JumpTo(DeployTag))

\* After them: the runtime code is returned.  Functions that were asked for at runtime
\* from here have been added to it before.  STOP stands for the items that copy the bytes
\* of the runtime code to memory and return them: the machine runs items and installs the
\* runtime code where the creation code ends.
deployRoutine(c) == append(c, Tag(DeployTag) \o Ops(<<"STOP">>))
\* A plausible slip: what the creation code refers to is not asked for at runtime.
addNoRuntimeEntries(runtime, creation) == runtime

addRuntimeEntries(runtime, creation) == FoldLeft(functionEntryLabel, runtime, creation.runtimeEntries)

Generate(what, c, x) ==
    IF c.failed THEN c ELSE
    CASE what = "statement" -> StatementCode(c, x)
      [] what = "modifiers" -> ModifierOrFunctionCode(c)
      [] what = "function" -> FunctionCode(c, x)
      [] what = "runtime" -> compileContract(c)
      [] what = "creation" -> compileConstructor(c)
      [] what = "missing function" -> appendMissingFunction(c)
      [] what = "missing low level function" -> appendMissingLowLevelFunction(c)
      [] what = "deploy" -> deployRoutine(c)
      [] OTHER -> Compile(what, c, x)
=============================================================================
