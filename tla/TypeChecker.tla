----------------------------- MODULE TypeChecker -----------------------------
(***************************************************************************)
(* The type checker (TypeChecker.cpp): the type of each expression, which   *)
(* of them can be assigned to, which are constant, and what a call calls.   *)
(*                                                                         *)
(* p is the program with its annotations: a flag is the set of the nodes    *)
(* that have it, and a node without arguments is not called.  A fatal error *)
(* ends the analysis: nothing is visited after it.  Warnings, libraries,    *)
(* inline assembly, new contracts, the abi functions, named arguments and   *)
(* the limit on the size of arrays are left out.                            *)
(*                                                                         *)
(* Then the checks around it, in the order of CompilerStack::analyze: the   *)
(* syntax of a source (SyntaxChecker.cpp), a contract and its bases         *)
(* (ContractLevelChecker.cpp), constants that depend on themselves          *)
(* (PostTypeChecker.cpp), divisions by zero (StaticAnalyzer.cpp), and view  *)
(* and pure functions (ViewPureChecker.cpp).  Here, too, warnings and       *)
(* libraries are left out, and the second version of the ABI encoder.       *)
(***************************************************************************)
EXTENDS NameAndTypeResolver

typeError(p) == [p EXCEPT !.errors = @ + 1]
fatalTypeError(p) == [p EXCEPT !.errors = @ + 1, !.fatal = TRUE]
Check(p, holds) == IF holds THEN p ELSE typeError(p)
FatalCheck(p, holds) == IF holds THEN p ELSE fatalTypeError(p)

\* What follows a step that may end the analysis
Then(p, F(_)) == IF p.fatal THEN p ELSE F(p)

Annotate(p, id, type, isPure) ==
    [p EXCEPT !.type[id] = type, !.pure = IF isPure THEN @ \cup {id} ELSE @ \ {id}]

AllPure(p, ids) == ToSet(ids) \subseteq p.pure
isInterface(p) == p.nodes[p.contract].contractKind = "interface"

\* isLValue of a declaration
isLValue(p, declaration) ==
    /\ p.nodes[declaration].kind = "VariableDeclaration"
    /\ ~isExternalCallableParameter(p, declaration) /\ ~p.nodes[declaration].isConstant

RECURSIVE typeSupportedByOldABIEncoder(_)
typeSupportedByOldABIEncoder(t) ==
    /\ t.category # "Struct"
    /\ t.category = "Array" => /\ typeSupportedByOldABIEncoder(t.baseType)
                               /\ ~isDynamicallySized(t.baseType)

RECURSIVE visit(_, _)
VisitAll(p, ids) == FoldLeft(LAMBDA q, id : visit(q, id), p, ids)

expectType(p, id, expected) ==
    Then(visit(p, id), LAMBDA q : Check(q, isImplicitlyConvertibleTo(q, q.type[id], expected)))

requireLValue(p, id) ==
    Then(visit([p EXCEPT !.lValueRequested = @ \cup {id}], id),
         LAMBDA q : Check(q, id \notin q.constant /\ id \in q.lValue))

-----------------------------------------------------------------------------
(* Expressions *)

visitConditional(p, id) ==
    LET n == p.nodes[id]
        Typed(q, t, f) ==
            LET common == IF NoType \in {t, f} THEN IF f = NoType THEN t ELSE f ELSE commonType(q, t, f)
                known == Check(Check(Check(q, t # NoType), f # NoType), common # NoType)
            IN IF t = NoType /\ f = NoType THEN fatalTypeError(q)
               ELSE Check(Annotate(known, id, IF common = NoType THEN t ELSE common,
                                   AllPure(q, <<n.condition, n.trueExpression, n.falseExpression>>)),
                          id \notin q.lValueRequested)
    IN Then(VisitAll(expectType(p, n.condition, BoolType), <<n.trueExpression, n.falseExpression>>),
            LAMBDA q : Typed(q, mobileType(q.type[n.trueExpression]), mobileType(q.type[n.falseExpression])))

\* A mapping is assigned only to a local variable, which refers to it.
RECURSIVE checkExpressionAssignment(_, _, _)
checkExpressionAssignment(p, t, id) ==
    LET n == p.nodes[id]
        types == IF t.category = "Tuple" THEN t.components ELSE <<t>>
        both == SelectSeq([i \in 1..Min({Len(types), Len(n.components)}) |-> i], LAMBDA i : types[i] # NoType)
        local == n.kind = "Identifier" /\ p.ref[id] # 0 /\ isLocalOrReturn(p, p.ref[id])
    IN IF n.kind = "TupleExpression"
       THEN FoldLeft(LAMBDA q, i : checkExpressionAssignment(q, types[i], n.components[i]), p, both)
       ELSE Check(p, t.category = "Mapping" => local)

visitAssignment(p, id) ==
    LET n == p.nodes[id]
        Compound(q, t) ==
            LET result == binaryOperatorResult(q, t, AssignmentToBinaryOp[n.op], q.type[n.right])
            IN Check(q, result # NoType /\ Same(result, t))
        Assigned(q, t) ==
            CASE t.category = "Tuple" ->
                    expectType(Check([q EXCEPT !.type[id] = EmptyTuple], n.op = "="), n.right, t)
              [] t.category # "Tuple" /\ n.op = "=" -> expectType(q, n.right, t)
              [] OTHER -> Then(visit(q, n.right), LAMBDA r : Compound(r, t))
    IN Then(requireLValue(p, n.left), LAMBDA q :
            Assigned(checkExpressionAssignment([q EXCEPT !.type[id] = q.type[n.left]], q.type[n.left], n.left),
                     q.type[n.left]))

OneOrTuple(types) == IF Len(types) = 1 THEN types[1] ELSE TupleType(types)

\* A tuple that is assigned to: its components have to be lvalues.
TupleOfLValues(p, id) ==
    LET n == p.nodes[id]
        given == NotNull(n.components)
        TypeAt(q, c) == IF c = 0 THEN NoType ELSE q.type[c]
    IN IF n.isInlineArray THEN fatalTypeError(p)
       ELSE Then(FoldLeft(LAMBDA q, c : IF q.fatal THEN q ELSE requireLValue(q, c), p, given), LAMBDA q :
                 [q EXCEPT !.type[id] = OneOrTuple([i \in DOMAIN n.components |-> TypeAt(q, n.components[i])]),
                           !.lValue = @ \cup {id}])

CheckComponent(p, n, c) ==
    Then(visit(p, c), LAMBDA q :
         LET t == q.type[c]
         IN IF t = EmptyTuple THEN IF n.isInlineArray THEN fatalTypeError(q) ELSE typeError(q)
            ELSE FatalCheck(q, t.category = "RationalNumber" /\ Len(n.components) > 1 => mobileType(t) # NoType))

\* The common type of the elements of an inline array; Fatal if one has no type
InlineArrayType(p, types) ==
    FoldLeft(LAMBDA t, u : CASE t = Fatal -> Fatal
                             [] t = NoType -> NoType
                             [] OTHER -> IF mobileType(u) = NoType THEN Fatal ELSE commonType(p, t, u),
             IF mobileType(types[1]) = NoType THEN Fatal ELSE mobileType(types[1]), Tail(types))

TupleOfValues(p, id) ==
    LET n == p.nodes[id]
        Typed(q, types) ==
            LET element == InlineArrayType(q, types)
            IN IF ~n.isInlineArray THEN Annotate(q, id, OneOrTuple(types), AllPure(q, n.components))
               ELSE IF types = << >> \/ element \in {Fatal, NoType} THEN fatalTypeError(q)
               ELSE IF ~canLiveOutsideStorage(element) THEN fatalTypeError(q)
               ELSE Annotate(q, id, NewArrayType("memory", element, Len(types)), AllPure(q, n.components))
    IN IF 0 \in ToSet(n.components) THEN fatalTypeError(p)
       ELSE Then(FoldLeft(LAMBDA q, c : IF q.fatal THEN q ELSE CheckComponent(q, n, c), p, n.components),
                 LAMBDA q : Typed(q, TypesOf(q, n.components)))

visitTupleExpression(p, id) == IF id \in p.lValueRequested THEN TupleOfLValues(p, id) ELSE TupleOfValues(p, id)

visitUnaryOperation(p, id) ==
    LET n == p.nodes[id]
        modifying == n.op \in {"++", "--", "delete"}
        Typed(q, t, result) ==
            Annotate(Check(q, result # NoType), id, IF result = NoType THEN t ELSE result,
                     ~modifying /\ n.sub \in q.pure)
    IN Then(IF modifying THEN requireLValue(p, n.sub) ELSE visit(p, n.sub),
            LAMBDA q : Typed(q, q.type[n.sub], unaryOperatorResult(n.op, q.type[n.sub])))

endVisitBinaryOperation(p, id) ==
    LET n == p.nodes[id]
        Typed(q, result) ==
            LET common == IF result = NoType THEN q.type[n.left] ELSE result
            IN [Annotate(Check(q, result # NoType), id, IF isCompareOp(n.op) THEN BoolType ELSE common,
                         AllPure(q, <<n.left, n.right>>))
                EXCEPT !.commonType = (id :> common) @@ @]
    IN Then(VisitAll(p, <<n.left, n.right>>),
            LAMBDA q : Typed(q, binaryOperatorResult(q, q.type[n.left], n.op, q.type[n.right])))

\* The result is in memory unless the argument refers to another location.
typeCheckTypeConversion(p, n) ==
    LET actual == p.type[n.expression].actualType
        argument == p.type[n.arguments[1]]
        location == IF isReference(argument) THEN argument.location ELSE "memory"
        result == IF isReference(actual) THEN withLocation(actual, location, actual.isPointer) ELSE actual
        payable == isExplicitlyConvertibleTo(p, argument, AddressType("payable"))
    IN IF Len(n.arguments) # 1 THEN [type |-> actual, valid |-> FALSE]
       ELSE [type |-> IF result.category = "Address" THEN AddressType(IF payable THEN "payable" ELSE "nonpayable")
                      ELSE result,
             valid |-> isExplicitlyConvertibleTo(p, argument, result)]

\* constructorType of a struct
StructConstructor(p, t) ==
    LET members == memoryMembers(p, t.struct)
    IN FunctionType([i \in DOMAIN members |-> withLocationIfReference("memory", p.type[members[i]])],
                    <<withLocation(t, "memory", FALSE)>>, "Internal", "nonpayable", 0)

isPureFunction(t) == t.kind \in {"AddMod", "MulMod", "ObjectCreation"}

typeCheckFunctionCall(p, n, t) ==
    LET arguments == TypesOf(p, n.arguments)
        emitted == Check(p, t.kind = "Event" => p.insideEmit)
    IN IF Len(arguments) # Len(t.parameterTypes) THEN typeError(emitted)
       ELSE FoldLeft(LAMBDA q, i : Check(q, isImplicitlyConvertibleTo(p, arguments[i], t.parameterTypes[i])),
                     emitted, [i \in DOMAIN arguments |-> i])

CallAs(p, id, kind, type, isPure) == [Annotate(p, id, type, isPure) EXCEPT !.callKind = (id :> kind) @@ @]

\* The arguments first: overloaded names are resolved by their types.
visitFunctionCall(p, id) ==
    LET n == p.nodes[id]
        Called(q, t) ==
            LET pureArguments == AllPure(q, n.arguments)
            IN CASE t.category = "Function" ->
                        CallAs(typeCheckFunctionCall(q, n, t), id, "FunctionCall", OneOrTuple(t.returnParameterTypes),
                               pureArguments /\ n.expression \in q.pure /\ isPureFunction(t))
                 [] t.category = "TypeType" ->
                        IF t.actualType.category = "Struct"
                        THEN With(StructConstructor(q, t.actualType), LAMBDA c :
                                  CallAs(typeCheckFunctionCall(q, n, c), id, "StructConstructorCall",
                                         c.returnParameterTypes[1], pureArguments))
                        ELSE With(typeCheckTypeConversion(q, n), LAMBDA c :
                                  CallAs(Check(q, c.valid), id, "TypeConversion", c.type, pureArguments))
                 [] OTHER -> CallAs(typeError(q), id, "FunctionCall", EmptyTuple, pureArguments)
        arguments == VisitAll(p, n.arguments)
    IN Then(arguments, LAMBDA q :
            Then(visit([q EXCEPT !.arguments = (n.expression :> TypesOf(q, n.arguments)) @@ @], n.expression),
                 LAMBDA r : Called(r, r.type[n.expression])))

endVisitNewExpression(p, id) ==
    LET t == p.type[p.nodes[id].typeName]
    IN IF p.nodes[p.nodes[id].typeName].kind = "UserDefinedTypeName" \/ t.category # "Array" THEN fatalTypeError(p)
       ELSE IF ~canLiveOutsideStorage(t) THEN fatalTypeError(p)
       ELSE Annotate(Check(p, isDynamicallySized(t)), id,
                     FunctionType(<<uint256>>, <<withLocationIfReference("memory", t)>>, "ObjectCreation", "pure", 0),
                     TRUE)

MemberIsLValue(p, t, n, member) ==
    CASE t.category = "Struct" -> t.location # "calldata"
      [] t.category = "Array" -> n.memberName = "length" /\ t.location = "storage" /\ isDynamicallySized(t)
      [] t.category = "TypeType" -> t.actualType.category = "Contract" /\ isLValue(p, member.declaration)
      [] OTHER -> FALSE

visitMemberAccess(p, id) ==
    LET n == p.nodes[id]
        Fitting(q, named) ==
            IF Len(named) > 1 /\ id \in DOMAIN q.arguments
            THEN SelectSeq(named, LAMBDA m : m.type.category = "Function" => canTakeArguments(q, m.type, q.arguments[id]))
            ELSE named
        Found(q, t, m) ==
            [Annotate(q, id, m.type, t.category = "TypeType" /\ t.actualType.category = "Enum")
             EXCEPT !.ref[id] = m.declaration,
                    !.lValue = IF MemberIsLValue(q, t, n, m) THEN @ \cup {id} ELSE @]
    IN Then(visit(p, n.expression), LAMBDA q :
            With(Fitting(q, SelectSeq(nativeMembers(q, q.type[n.expression], q.contract),
                                      LAMBDA m : m.name = n.memberName)),
                 LAMBDA possible : IF Len(possible) # 1 THEN fatalTypeError(q)
                                   ELSE Found(q, q.type[n.expression], possible[1])))

\* Outside of the bounds of an array, as far as this is known
OutOfBounds(t, length) == t.category = "RationalNumber" /\ Wrap(t.value.num) >= length

visitIndexAccess(p, id) ==
    LET n == p.nodes[id]
        Result(q, t, lValue) ==
            Then(q, LAMBDA r :
                 [Annotate(r, id, t, AllPure(r, <<n.base>> \o Given(n.index)))
                  EXCEPT !.lValue = IF lValue THEN @ \cup {id} ELSE @])
        InArray(q, t) ==
            CASE n.index = 0 -> typeError(q)
              [] n.index # 0 /\ isString(t) -> visit(typeError(q), n.index)
              [] OTHER -> Then(expectType(q, n.index, uint256), LAMBDA r :
                               Check(r, r.errors = 0 /\ ~isDynamicallySized(t) => ~OutOfBounds(r.type[n.index], t.length)))
        ArrayOf(q, t) ==
            IF n.index = 0 THEN Result(q, TypeType(NewArrayType("memory", t, Dynamic)), FALSE)
            ELSE Then(expectType(q, n.index, uint256), LAMBDA r :
                      IF ~isImplicitlyConvertibleTo(r, r.type[n.index], uint256)
                      THEN Result(r, TypeType(NewArrayType("memory", t, 1)), FALSE)
                      ELSE IF r.type[n.index].category # "RationalNumber" THEN fatalTypeError(r)
                      ELSE Result(r, TypeType(NewArrayType("memory", t, r.type[n.index].value.num)), FALSE))
        InBytes(q, t) ==
            IF n.index = 0 THEN typeError(q)
            ELSE Then(expectType(q, n.index, uint256), LAMBDA r :
                      IF ~isImplicitlyConvertibleTo(r, r.type[n.index], uint256) THEN fatalTypeError(r)
                      ELSE Check(r, ~OutOfBounds(r.type[n.index], t.numBytes)))
        Indexed(q, t) ==
            CASE t.category = "Array" -> Result(InArray(q, t), t.baseType, t.location # "calldata")
              [] t.category = "Mapping" ->
                    Result(IF n.index = 0 THEN typeError(q) ELSE expectType(q, n.index, t.keyType), t.valueType, TRUE)
              [] t.category = "TypeType" -> ArrayOf(Check(q, t.actualType.category # "Contract"), t.actualType)
              [] t.category = "FixedBytes" -> Result(InBytes(q, t), FixedBytesType(1), FALSE)
              [] OTHER -> fatalTypeError(q)
    IN Then(visit(p, n.base), LAMBDA q : Indexed(q, q.type[n.base]))

\* Of several declarations the one that takes the arguments; without a call it can
\* only be a variable.
OverloadCandidates(p, id) ==
    LET all == p.overloads[id]
    IN IF id \notin DOMAIN p.arguments
       THEN SelectSeq(all, LAMBDA d : p.nodes[d].kind = "VariableDeclaration")
       ELSE IF Len(all) = 1 THEN all
       ELSE SelectSeq(all, LAMBDA d : canTakeArguments(p, FunctionTypeOfDeclaration(p, d), p.arguments[id]))

visitIdentifier(p, id) ==
    LET candidates == IF p.ref[id] # 0 THEN <<p.ref[id]>> ELSE OverloadCandidates(p, id)
        Refers(d, t) ==
            LET kind == p.nodes[d].kind
                isConstant == kind = "VariableDeclaration" /\ p.nodes[d].isConstant
                isPure == CASE kind = "VariableDeclaration" -> isConstant
                            [] kind = "MagicVariableDeclaration" -> t.category = "Function"
                            [] OTHER -> t.category = "TypeType"
            IN IF t = NoType THEN fatalTypeError(p)
               ELSE [Annotate(p, id, t, isPure)
                     EXCEPT !.ref[id] = d,
                            !.constant = IF isConstant THEN @ \cup {id} ELSE @,
                            !.lValue = IF isLValue(p, d) THEN @ \cup {id} ELSE @]
    IN IF Len(candidates) # 1 THEN fatalTypeError(p)
       ELSE Refers(candidates[1], TypeOfDeclaration(p, candidates[1]))

-----------------------------------------------------------------------------
(* Statements *)

endVisitReturn(p, id) ==
    LET n == p.nodes[id]
        function == p.returns[id]
        returned == IF function = 0 THEN << >> ELSE TypesOf(p, p.nodes[function].returnParameters)
        Fits(q, t) == IF t.category = "Tuple" THEN isImplicitlyConvertibleTo(q, t, TupleType(returned))
                      ELSE Len(returned) = 1 /\ isImplicitlyConvertibleTo(q, t, returned[1])
    IN IF n.expression = 0 THEN Check(p, returned = << >>)
       ELSE Then(visit(p, n.expression), LAMBDA q : Check(q, function # 0 /\ Fits(q, q.type[n.expression])))

endVisitEmitStatement(p, id) ==
    LET call == p.nodes[id].call
        t(q) == q.type[q.nodes[call].expression]
    IN Then(visit([p EXCEPT !.insideEmit = TRUE], call), LAMBDA q :
            [Check(q, q.callKind[call] = "FunctionCall" /\ t(q).category = "Function" /\ t(q).kind = "Event")
             EXCEPT !.insideEmit = FALSE])

\* References and mappings in storage have to be given a value.
visitVariableDeclarationStatement(p, id) ==
    LET n == p.nodes[id]
        variables == n.variables
        first == variables[1]
        Declare(q, types) ==
            FoldLeft(LAMBDA r, i :
                        IF variables[i] = 0 THEN r
                        ELSE Then(visit(r, variables[i]), LAMBDA s :
                                  Check(s, isImplicitlyConvertibleTo(s, types[i], s.type[variables[i]]))),
                     Check(q, Len(types) = Len(variables)),
                     [i \in 1..Min({Len(types), Len(variables)}) |-> i])
    IN IF n.value = 0 THEN visit(Check(p, ~dataStoredIn(p.type[first], "storage")), first)
       ELSE Then(visit(p, n.value), LAMBDA q :
                 Declare(q, IF q.type[n.value].category = "Tuple" THEN q.type[n.value].components ELSE <<q.type[n.value]>>))

endVisitExpressionStatement(p, id) ==
    LET e == p.nodes[id].expression
    IN Then(visit(p, e), LAMBDA q :
            Check(q, q.type[e].category = "RationalNumber" => mobileType(q.type[e]) # NoType))

VisitStatement(p, id) ==
    LET n == p.nodes[id]
    IN CASE n.kind = "IfStatement" -> VisitAll(expectType(p, n.condition, BoolType), <<n.trueBody, n.falseBody>>)
         [] n.kind = "WhileStatement" -> visit(expectType(p, n.condition, BoolType), n.body)
         [] n.kind = "ForStatement" ->
                VisitAll(IF n.condition = 0 THEN visit(p, n.init)
                         ELSE expectType(visit(p, n.init), n.condition, BoolType), <<n.loop, n.body>>)
         [] n.kind = "Return" -> endVisitReturn(p, id)
         [] n.kind = "EmitStatement" -> endVisitEmitStatement(p, id)
         [] n.kind = "VariableDeclarationStatement" -> visitVariableDeclarationStatement(p, id)
         [] n.kind = "ExpressionStatement" -> endVisitExpressionStatement(p, id)
         [] n.kind = "Block" -> VisitAll(p, n.statements)

-----------------------------------------------------------------------------
(* Declarations *)

ParameterTypes(p, contract) ==
    LET c == constructor(p, contract) IN IF c = 0 THEN << >> ELSE TypesOf(p, p.nodes[c].parameters)

ConvertEach(p, ids, types) ==
    FoldLeft(LAMBDA q, i : Check(q, isImplicitlyConvertibleTo(q, q.type[ids[i]], types[i])), p,
             [i \in 1..Min({Len(ids), Len(types)}) |-> i])

endVisitInheritanceSpecifier(p, id) ==
    LET n == p.nodes[id]
        base == p.ref[n.baseName]
        types == IF p.nodes[base].contractKind = "interface" THEN << >> ELSE ParameterTypes(p, base)
        allowed == Check(p, ~isInterface(p))
    IN IF ~n.given THEN allowed
       ELSE Then(VisitAll(allowed, n.arguments), LAMBDA q :
                 ConvertEach(Check(q, Len(types) = Len(n.arguments)), n.arguments, types))

\* A struct contains itself if it does so without a dynamic array in between.
RECURSIVE StaticElement(_), ContainedStructs(_, _)
StaticElement(t) == IF t.category = "Array" /\ ~isDynamicallySized(t) THEN StaticElement(t.baseType) ELSE t
ContainedStructs(p, structs) ==
    LET types == {StaticElement(p.type[m]) : m \in UNION {ToSet(p.nodes[s].members) : s \in structs}}
        all == structs \cup {t.struct : t \in {u \in types : u.category = "Struct"}}
    IN IF all = structs THEN all ELSE ContainedStructs(p, all)
isRecursiveStruct(p, id) ==
    \E s \in ContainedStructs(p, {id}) :
        \E m \in ToSet(p.nodes[s].members) :
            LET t == StaticElement(p.type[m]) IN t.category = "Struct" /\ t.struct = id

visitStructDefinition(p, id) ==
    IF isRecursiveStruct(p, id) THEN fatalTypeError(p)
    ELSE [VisitAll([p EXCEPT !.insideStruct = TRUE], p.nodes[id].members) EXCEPT !.insideStruct = p.insideStruct]

checkArgumentAndReturnParameter(p, function, id) ==
    LET t == p.type[id]
        public == isPublic(p.nodes[function])
        allowed == CASE t.category = "Mapping" -> Check(p, p.nodes[id].location = "storage" /\ ~public)
                     [] OTHER -> IF public THEN FatalCheck(Check(p, canLiveOutsideStorage(t)), interfaceType(p, t) # NoType)
                                 ELSE p
    IN Then(allowed, LAMBDA q : visit(Check(q, public => typeSupportedByOldABIEncoder(t)), id))

\* The arguments of a modifier, or of the constructor of a base
visitModifierInvocation(p, id, bases) ==
    LET n == p.nodes[id]
        Invoked(q) ==
            LET d == q.ref[n.name]
                isModifier == q.nodes[d].kind = "ModifierDefinition"
                types == IF isModifier THEN TypesOf(q, q.nodes[d].parameters) ELSE ParameterTypes(q, d)
            IN IF ~isModifier /\ d \notin ToSet(bases) THEN typeError(q)
               ELSE IF Len(types) # Len(n.arguments) THEN typeError(q)
               ELSE ConvertEach(q, n.arguments, types)
    IN Then(visit(VisitAll(p, n.arguments), n.name), Invoked)

visitModifiers(p, function) ==
    LET n == p.nodes[function]
        bases == IF n.isConstructor THEN p.bases[p.scope[function]] ELSE << >>
        RefOf(q, i) == q.ref[q.nodes[n.modifiers[i]].name]
        Twice(q, i) == /\ q.nodes[RefOf(q, i)].kind = "ContractDefinition"
                       /\ \E j \in 1..(i - 1) : RefOf(q, j) = RefOf(q, i)
    IN FoldLeft(LAMBDA q, i : IF q.fatal THEN q
                              ELSE Then(visitModifierInvocation(q, n.modifiers[i], bases),
                                        LAMBDA r : Check(r, ~Twice(r, i))),
                p, [i \in DOMAIN n.modifiers |-> i])

visitFunctionDefinition(p, id) ==
    LET n == p.nodes[id]
        payable == Check(p, n.stateMutability = "payable" =>
                                n.isConstructor \/ isFallback(n) \/ isPartOfExternalInterface(n))
        InInterface(q) == Check(Check(Check(q, ~isImplemented(n)), visibility(n) = "external"), ~n.isConstructor)
    IN Then(FoldLeft(LAMBDA q, v : IF q.fatal THEN q ELSE checkArgumentAndReturnParameter(q, id, v),
                     payable, n.parameters \o n.returnParameters), LAMBDA q :
            Then(visitModifiers(q, id), LAMBDA r :
                 With(IF isInterface(r) THEN InInterface(r) ELSE r,
                      LAMBDA s : IF isImplemented(n) THEN visit(s, n.body) ELSE Check(s, ~n.isConstructor))))

CheckConstant(p, n) ==
    IF ~n.isConstant THEN p
    ELSE Check(Check(p, isValueType(p.type[n.typeName])), n.value # 0 /\ n.value \in p.pure)

visitVariableDeclaration(p, id) ==
    LET n == p.nodes[id]
        t == p.type[id]
        allowed == Check(p, isInterface(p) => isCallableParameter(p, id) \/ p.insideStruct)
        getter == AccessorTypeOf(p, id)
        Placed(q) ==
            IF ~n.isStateVariable
            THEN Check(q, isReference(t) /\ t.location # "storage" => canLiveOutsideStorage(t))
            ELSE IF visibility(n) # "public" THEN q
            ELSE Check(Check(q, \A o \in ToSet(getter.parameterTypes \o getter.returnParameterTypes) :
                                    typeSupportedByOldABIEncoder(o)),
                       interfaceFunctionType(q, getter) # NoType)
    IN Then(visit(allowed, n.typeName), LAMBDA q :
            Then(IF n.value = 0 THEN q ELSE expectType(q, n.value, t), LAMBDA r : Placed(CheckConstant(r, n))))

visitEventDefinition(p, id) ==
    LET n == p.nodes[id]
        indexed == {v \in ToSet(n.parameters) : p.nodes[v].isIndexed}
        CheckParameter(q, v) ==
            LET t == q.type[v]
            IN Check(Check(Check(q, canLiveOutsideStorage(t)), interfaceType(q, t) # NoType),
                     typeSupportedByOldABIEncoder(t))
    IN Check(FoldLeft(CheckParameter, p, n.parameters), Cardinality(indexed) <= IF n.anonymous THEN 4 ELSE 3)

VisitDeclaration(p, id) ==
    LET n == p.nodes[id]
    IN CASE n.kind = "InheritanceSpecifier" -> endVisitInheritanceSpecifier(p, id)
         [] n.kind = "StructDefinition" -> visitStructDefinition(p, id)
         [] n.kind = "FunctionDefinition" -> visitFunctionDefinition(p, id)
         [] n.kind = "VariableDeclaration" -> visitVariableDeclaration(p, id)
         [] n.kind = "EventDefinition" -> visitEventDefinition(p, id)
         [] OTHER -> VisitAll(p, Children(n))

VisitExpression(p, id) ==
    LET n == p.nodes[id]
    IN CASE n.kind = "Conditional" -> visitConditional(p, id)
         [] n.kind = "Assignment" -> visitAssignment(p, id)
         [] n.kind = "TupleExpression" -> visitTupleExpression(p, id)
         [] n.kind = "UnaryOperation" -> visitUnaryOperation(p, id)
         [] n.kind = "BinaryOperation" -> endVisitBinaryOperation(p, id)
         [] n.kind = "FunctionCall" -> visitFunctionCall(p, id)
         [] n.kind = "NewExpression" -> Then(visit(p, n.typeName), LAMBDA q : endVisitNewExpression(q, id))
         [] n.kind = "MemberAccess" -> visitMemberAccess(p, id)
         [] n.kind = "IndexAccess" -> visitIndexAccess(p, id)

visit(p, id) ==
    CASE p.fatal \/ id = 0 -> p
      [] OTHER ->
           LET n == p.nodes[id]
           IN CASE n.kind \in Declarations -> VisitDeclaration(p, id)
                [] n.kind \in Statements -> VisitStatement(p, id)
                [] n.kind \in Expressions -> VisitExpression(p, id)
                [] n.kind = "Identifier" -> visitIdentifier(p, id)
                [] n.kind = "ElementaryTypeNameExpression" ->
                       Annotate(p, id, TypeType(fromElementaryTypeName(n.token)), TRUE)
                [] n.kind = "Literal" -> Annotate(p, id, forLiteral(n.token), TRUE)
                [] OTHER -> VisitAll(p, Children(n))

\* visit(ContractDefinition) in the steps of its nodes
checkTypeRequirements(p, contract) ==
    VisitAll([p EXCEPT !.contract = contract], p.nodes[contract].baseContracts \o p.nodes[contract].subNodes)

-----------------------------------------------------------------------------
CONSTANT SignatureHash(_)   \* the selector of an external signature

-----------------------------------------------------------------------------
(* SyntaxChecker *)

\* What is wrong with a node; inLoop is whether a loop is around it.
isSyntaxError(p, id, inLoop) ==
    LET n == p.nodes[id]
        IsDeclaration(s) == s # 0 /\ p.nodes[s].kind = "VariableDeclarationStatement"
    IN CASE n.kind = "ModifierDefinition" ->
                \A s \in ToSet(Subtree(p.nodes, n.body)) : p.nodes[s].kind # "PlaceholderStatement"
         [] n.kind = "IfStatement" -> IsDeclaration(n.trueBody) \/ IsDeclaration(n.falseBody)
         [] n.kind \in {"WhileStatement", "ForStatement"} -> IsDeclaration(n.body)
         [] n.kind \in {"Continue", "Break"} -> ~inLoop
         [] n.kind = "Throw" -> TRUE
         [] n.kind = "UnaryOperation" -> n.op = "+"
         [] n.kind = "ContractDefinition" -> \E f \in ToSet(definedFunctions(p, id)) : p.nodes[f].name = n.name
         [] n.kind = "FunctionDefinition" ->
                n.visibility = "default" \/ (~isImplemented(n) /\ n.modifiers # << >>)
         [] n.kind = "VariableDeclarationStatement" -> NotNull(n.variables) = << >>
         [] n.kind = "StructDefinition" -> n.members = << >>
         [] OTHER -> FALSE

RECURSIVE checkSyntax(_, _, _)
checkSyntax(p, id, inLoop) ==
    LET n == p.nodes[id]
        inside == inLoop \/ n.kind \in {"WhileStatement", "ForStatement"}
    IN FoldLeft(LAMBDA q, c : checkSyntax(q, c, inside), Check(p, ~isSyntaxError(p, id, inside)), Children(n))

-----------------------------------------------------------------------------
(* ContractLevelChecker *)

\* The types that callers inside and outside have to agree on
CallableType(p, id) ==
    LET t == FunctionTypeOfDeclaration(p, id)
        InMemory(u) == IF isReference(u) /\ u.location = "calldata" THEN withLocation(u, "memory", TRUE) ELSE u
    IN [t EXCEPT !.parameterTypes = [i \in DOMAIN @ |-> InMemory(@[i])]]

SameParameters(p, a, b) == hasEqualParameterTypes(CallableType(p, a), CallableType(p, b))
Later(ids, i) == {ids[j] : j \in (i + 1)..Len(ids)}

\* One error for each definition that is followed by another like it
findDuplicateDefinitions(p, ids) ==
    LET Duplicated(i) == \E o \in Later(ids, i) : p.nodes[o].name = p.nodes[ids[i]].name /\ SameParameters(p, o, ids[i])
    IN FoldLeft(LAMBDA q, i : Check(q, ~Duplicated(i)), p, [i \in DOMAIN ids |-> i])

checkDuplicates(p, contract) ==
    LET functions == definedFunctions(p, contract)
        constructors == SelectSeq(functions, LAMBDA f : p.nodes[f].isConstructor)
        fallbacks == SelectSeq(functions, LAMBDA f : isFallback(p.nodes[f]))
        ordinary == SelectSeq(functions, LAMBDA f : isOrdinary(p.nodes[f]))
    IN findDuplicateDefinitions(
           findDuplicateDefinitions(Check(Check(p, Len(constructors) <= 1), Len(fallbacks) <= 1), ordinary),
           MembersOf(p, contract, "EventDefinition"))

\* From outside only to public, and otherwise nothing but the code may change.
checkFunctionOverride(p, function, super) ==
    LET f == p.nodes[function]
        s == p.nodes[super]
        returned == CallableType(p, function).returnParameterTypes = CallableType(p, super).returnParameterTypes
    IN IF ~SameParameters(p, function, super) THEN p
       ELSE Check(Check(Check(p, returned),
                        \/ visibility(f) = visibility(s)
                        \/ visibility(s) = "external" /\ visibility(f) = "public"),
                  f.stateMutability = s.stateMutability)

\* The functions and the modifiers of each base against those of the more derived ones
checkIllegalOverrides(p, contract) ==
    LET functions == SelectSeq(InBases(p, contract, "FunctionDefinition"), LAMBDA f : ~p.nodes[f].isConstructor)
        modifiers == InBases(p, contract, "ModifierDefinition")
        Overriding(q, i) ==
            FoldLeft(LAMBDA r, j : IF p.nodes[functions[j]].name # p.nodes[functions[i]].name THEN r
                                   ELSE checkFunctionOverride(r, functions[j], functions[i]),
                     q, [j \in 1..(i - 1) |-> j])
        FirstNamed(name) == FirstIn(SelectSeq(modifiers, LAMBDA m : p.nodes[m].name = name))
        Signature(m) == TypesOf(p, p.nodes[m].parameters)
        OverridesModifier(q, m) ==
            Check(Check(q, Signature(FirstNamed(p.nodes[m].name)) = Signature(m)),
                  p.nodes[m].name \notin {p.nodes[f].name : f \in ToSet(functions)})
    IN FoldLeft(OverridesModifier, FoldLeft(Overriding, p, [i \in DOMAIN functions |-> i]), modifiers)

\* Declarations without a body, from the most basic contract on; a body may follow
\* one but not the other way round.
registerFunction(q, p, id) ==
    LET implemented == p.nodes[id].kind = "VariableDeclaration" \/ isImplemented(p.nodes[id])
        Like(o) == p.nodes[o].name = p.nodes[id].name /\ SameParameters(p, o, id)
        known == SelectSeq(q.functions, LAMBDA f : Like(f.id))
    IN IF known = << >> THEN [q EXCEPT !.functions = Append(@, [id |-> id, implemented |-> implemented])]
       ELSE IF known[1].implemented THEN IF implemented THEN q ELSE [q EXCEPT !.errors = @ + 1]
       ELSE [q EXCEPT !.functions = [i \in DOMAIN @ |->
                         IF @[i].id = known[1].id THEN [@[i] EXCEPT !.implemented = implemented] ELSE @[i]]]

checkAbstractFunctions(p, contract) ==
    LET Own(c) == SelectSeq(stateVariables(p, c), LAMBDA v : isPartOfExternalInterface(p.nodes[v]))
                  \o SelectSeq(definedFunctions(p, c), LAMBDA f : ~p.nodes[f].isConstructor)
        all == FlattenSeq([i \in DOMAIN p.bases[contract] |-> Own(Reverse(p.bases[contract])[i])])
        found == FoldLeft(LAMBDA q, id : registerFunction(q, p, id), [functions |-> << >>, errors |-> 0], all)
        abstract == {f.id : f \in {g \in ToSet(found.functions) : ~g.implemented}}
    IN [p EXCEPT !.errors = @ + found.errors, !.unimplemented[contract] = abstract]

\* Who gives the arguments of the constructors of the bases; nobody may do it twice.
ConstructorArguments(p, contract) ==
    LET c == constructor(p, contract)
        modifiers == IF c = 0 THEN << >>
                     ELSE SelectSeq(p.nodes[c].modifiers, LAMBDA m :
                              p.nodes[p.ref[p.nodes[m].name]].kind = "ContractDefinition")
        specifiers == SelectSeq(p.nodes[contract].baseContracts, LAMBDA s : p.nodes[s].arguments # << >>)
    IN [i \in DOMAIN modifiers |-> <<p.ref[p.nodes[modifiers[i]].name], modifiers[i]>>]
       \o [i \in DOMAIN specifiers |-> <<p.ref[p.nodes[specifiers[i]].baseName], specifiers[i]>>]

annotateBaseConstructorArguments(p, contract, base, node) ==
    LET c == constructor(p, base)
    IN IF ~p.nodes[node].given THEN typeError(p)
       ELSE IF c = 0 THEN p
       ELSE IF c \in DOMAIN p.baseArguments[contract] THEN typeError(p)
       ELSE [p EXCEPT !.baseArguments[contract] = (c :> node) @@ @]

checkBaseConstructorArguments(p, contract) ==
    LET bases == p.bases[contract]
        all == FlattenSeq([i \in DOMAIN bases |-> ConstructorArguments(p, bases[i])])
        q == FoldLeft(LAMBDA r, a : annotateBaseConstructorArguments(r, contract, a[1], a[2]), p, all)
        missing(r) == {c \in {constructor(p, b) : b \in ToSet(Tail(bases))} :
                           c # 0 /\ p.nodes[c].parameters # << >> /\ c \notin DOMAIN r.baseArguments[contract]}
    IN With(q, LAMBDA r : [r EXCEPT !.unimplemented[contract] = @ \cup missing(r)])

checkConstructorAndFallback(p, contract) ==
    LET c == constructor(p, contract)
        f == fallbackFunction(p, contract)
        Changing(id) == p.nodes[id].stateMutability \in {"nonpayable", "payable"}
        checked == IF c = 0 THEN p
                   ELSE Check(Check(Check(p, p.nodes[c].returnParameters = << >>), Changing(c)),
                              visibility(p.nodes[c]) \in {"public", "internal"})
    IN IF f = 0 THEN checked
       ELSE Check(Check(Check(Check(checked, Changing(f)), p.nodes[f].parameters = << >>),
                        p.nodes[f].returnParameters = << >>), visibility(p.nodes[f]) = "external")

\* Two functions that only differ in types that are the same outside
checkExternalTypeClashes(p, contract) ==
    LET Candidates(c) == definedFunctions(p, c) \o stateVariables(p, c)
        all == FlattenSeq([i \in DOMAIN p.bases[contract] |-> Candidates(p.bases[contract][i])])
        External(id) == IF p.nodes[id].kind = "VariableDeclaration" THEN AccessorTypeOf(p, id)
                        ELSE FunctionTypeOf(p, id, FALSE)
        interface == SelectSeq(all, LAMBDA id : /\ isPartOfExternalInterface(p.nodes[id])
                                                /\ interfaceFunctionType(p, External(id)) # NoType)
        Clashing(i) == {o \in Later(interface, i) :
                            /\ externalSignature(p, External(o)) = externalSignature(p, External(interface[i]))
                            /\ ~SameParameters(p, o, interface[i])}
    IN [p EXCEPT !.errors = @ + Total([i \in DOMAIN interface |-> Cardinality(Clashing(i))])]

checkHashCollisions(p, contract) ==
    LET list == interfaceFunctionList(p, contract)
        Selector(i) == SignatureHash(externalSignature(p, list[i]))
    IN FoldLeft(LAMBDA q, i : Check(q, \A j \in 1..(i - 1) : Selector(j) # Selector(i)), p, [i \in DOMAIN list |-> i])

checkContract(p, contract) ==
    FoldLeft(LAMBDA q, i :
                CASE i = 1 -> checkDuplicates(q, contract)
                  [] i = 2 -> checkIllegalOverrides(q, contract)
                  [] i = 3 -> checkAbstractFunctions(q, contract)
                  [] i = 4 -> checkBaseConstructorArguments(q, contract)
                  [] i = 5 -> checkConstructorAndFallback(q, contract)
                  [] i = 6 -> checkExternalTypeClashes(q, contract)
                  [] i = 7 -> checkHashCollisions(q, contract),
             p, [i \in 1..7 |-> i])

-----------------------------------------------------------------------------
(* PostTypeChecker: constants defined by themselves *)

ConstantsIn(p, variable) ==
    {p.ref[id] : id \in {i \in ToSet(Subtree(p.nodes, variable)) :
        /\ p.nodes[i].kind = "Identifier"
        /\ p.nodes[p.ref[i]].kind = "VariableDeclaration" /\ p.nodes[p.ref[i]].isConstant}}

\* The constants of one contract only: nothing is known of those of others.
RECURSIVE ConstantsBehind(_, _, _)
ConstantsBehind(p, own, variables) ==
    LET all == variables \cup UNION {ConstantsIn(p, v) : v \in variables \cap own}
    IN IF all = variables THEN variables ELSE ConstantsBehind(p, own, all)

postCheck(p, contract) ==
    LET own == {v \in ToSet(stateVariables(p, contract)) : p.nodes[v].isConstant}
        \* A cycle is found wherever it begins
        cyclic == {v \in own : \E w \in ConstantsBehind(p, own, {v}) :
                       w \in ConstantsBehind(p, own, ConstantsIn(p, w))}
    IN [p EXCEPT !.errors = @ + Cardinality(cyclic)]

-----------------------------------------------------------------------------
(* StaticAnalyzer: divisions by a constant zero *)

isZero(t) == t.category = "RationalNumber" /\ t.value.num = 0

DividesByZero(p, id) ==
    LET n == p.nodes[id]
        ZeroAt(e) == e \in p.pure /\ isZero(evaluate(p, e, 0))
    IN CASE n.kind = "BinaryOperation" /\ n.op \in {"/", "%"} -> ZeroAt(n.right)
         [] n.kind = "FunctionCall" ->
                /\ p.callKind[id] = "FunctionCall" /\ p.type[n.expression].kind \in {"AddMod", "MulMod"}
                /\ ZeroAt(n.arguments[3])
         [] OTHER -> FALSE

staticAnalysis(p, contract) ==
    [p EXCEPT !.errors = @ + Cardinality({id \in ToSet(Subtree(p.nodes, contract)) : DividesByZero(p, id)})]

-----------------------------------------------------------------------------
(* ViewPureChecker *)

\* A plausible slip: a write counts as a read.
AccessMutabilityOfReads(p, id) == "view"

\* The least mutability of a function that may contain the node itself
AccessMutability(p, id) == IF id \in p.lValueRequested THEN "nonpayable" ELSE "view"

IdentifierMutability(p, id) ==
    LET d == p.ref[id]
        t == p.type[d]
    IN CASE p.nodes[d].kind = "VariableDeclaration" ->
                IF p.nodes[d].isStateVariable /\ ~p.nodes[d].isConstant THEN AccessMutability(p, id) ELSE "pure"
         [] p.nodes[d].kind = "MagicVariableDeclaration" ->
                IF (t.category = "Contract" /\ ~t.super) \/ t.category = "Integer" THEN "view" ELSE "pure"
         [] OTHER -> "pure"

MemberMutability(p, id) ==
    LET n == p.nodes[id]
        t == p.type[n.expression]
    IN CASE t.category = "Magic" ->
                IF t.kind = "Message" /\ n.memberName = "value" THEN "payable"
                ELSE IF t.kind = "Message" /\ n.memberName = "sig" THEN "pure" ELSE "view"
         [] t.category = "Struct" -> IF t.location = "storage" THEN AccessMutability(p, id) ELSE "pure"
         [] t.category = "Array" ->
                IF n.memberName = "length" /\ isDynamicallySized(t) /\ t.location = "storage"
                THEN AccessMutability(p, id) ELSE "pure"
         [] OTHER -> "pure"

\* To call a payable function nonpayable is enough.
CallMutability(p, id) ==
    LET t == p.type[p.nodes[id].expression]
    IN IF p.callKind[id] # "FunctionCall" THEN "pure"
       ELSE IF t.stateMutability = "payable" THEN "nonpayable" ELSE t.stateMutability

\* Modifiers are taken as inferred before, from the declaration the name refers to.
MutabilityOf(p, id, inferred) ==
    LET n == p.nodes[id]
    IN CASE n.kind = "Identifier" -> IdentifierMutability(p, id)
         [] n.kind = "MemberAccess" -> MemberMutability(p, id)
         [] n.kind = "IndexAccess" ->
                IF n.index # 0 /\ dataStoredIn(p.type[n.base], "storage") THEN AccessMutability(p, id) ELSE "pure"
         [] n.kind = "FunctionCall" -> CallMutability(p, id)
         [] n.kind = "ModifierInvocation" ->
                IF p.ref[n.name] \in DOMAIN inferred THEN inferred[p.ref[n.name]] ELSE "pure"
         [] OTHER -> "pure"

\* Not below this.f.selector, nor into the names of types
RECURSIVE Reported(_, _)
Reported(p, id) ==
    LET n == p.nodes[id]
        OfThis(e) == e.kind = "MemberAccess" /\ p.nodes[e.expression] = Identifier("this")
        selector == /\ n.kind = "MemberAccess" /\ n.memberName = "selector"
                    /\ p.type[n.expression].category = "Function" /\ OfThis(p.nodes[n.expression])
    IN IF selector THEN {id} ELSE {id} \cup UNION {Reported(p, c) : c \in ToSet(Children(n))}

Worst(mutabilities) == CHOOSE m \in mutabilities : \A o \in mutabilities : Mutability[o] <= Mutability[m]

inferMutability(p, modifier) ==
    Worst({"pure"} \cup {MutabilityOf(p, id, << >>) : id \in Reported(p, modifier)})

inferredMutability(p) ==
    [m \in {i \in DOMAIN p.nodes : p.nodes[i].kind = "ModifierDefinition"} |-> inferMutability(p, m)]

\* reportMutability: msg.value is for payable functions only if they are public.
isMutabilityError(f, mutability) ==
    /\ Mutability[mutability] > Mutability[f.stateMutability]
    /\ mutability = "payable" => f.stateMutability = "pure" \/ isPublic(f)

checkFunctionMutability(p, function, inferred) ==
    LET f == p.nodes[function]
    IN [p EXCEPT !.errors = @ + Cardinality({id \in Reported(p, function) :
                                    isMutabilityError(f, MutabilityOf(p, id, inferred))})]

checkMutability(p, contract) ==
    With(inferredMutability(p), LAMBDA inferred :
         FoldLeft(LAMBDA q, f : checkFunctionMutability(q, f, inferred), p, definedFunctions(p, contract)))

=============================================================================
