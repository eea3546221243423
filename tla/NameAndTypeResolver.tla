------------------------- MODULE NameAndTypeResolver -------------------------
(***************************************************************************)
(* Name resolution: the registration of declarations in their scopes        *)
(* (NameAndTypeResolver.cpp, DeclarationContainer.cpp), the linearisation   *)
(* of base contracts, and the resolution of names and of the types of       *)
(* declarations (ReferencesResolver.cpp, ConstantEvaluator.cpp).            *)
(*                                                                         *)
(* p is the program with its annotations.  A scope has the declarations     *)
(* that can be seen in it and the invisible ones: those of a block before   *)
(* their statement, and the members of a contract that only others call.    *)
(* Imports, inline assembly and the types of function pointers are left     *)
(* out; warnings are not errors and are not counted.  The merge of the      *)
(* orders of the bases is in ContractLayout.                                *)
(***************************************************************************)
EXTENDS PolynomialTypes

-----------------------------------------------------------------------------
(* GlobalContext: what is declared without a source.  The declarations that
   the modelled code generation knows. *)

MagicVariable(name) == [kind |-> "MagicVariableDeclaration", name |-> name]

MagicFunction(parameters, returned, kind) == FunctionType(parameters, returned, kind, "pure", 0)
magicVariables ==
    <<[name |-> "addmod", type |-> MagicFunction(<<uint256, uint256, uint256>>, <<uint256>>, "AddMod")],
      [name |-> "assert", type |-> MagicFunction(<<BoolType>>, << >>, "Assert")],
      [name |-> "block", type |-> MagicType("Block")],
      [name |-> "msg", type |-> MagicType("Message")],
      [name |-> "mulmod", type |-> MagicFunction(<<uint256, uint256, uint256>>, <<uint256>>, "MulMod")],
      [name |-> "now", type |-> uint256],
      [name |-> "require", type |-> MagicFunction(<<BoolType>>, << >>, "Require")],
      [name |-> "require", type |-> MagicFunction(<<BoolType, ByteArrayType("memory", TRUE)>>, << >>, "Require")],
      [name |-> "revert", type |-> MagicFunction(<< >>, << >>, "Revert")],
      [name |-> "revert", type |-> MagicFunction(<<ByteArrayType("memory", TRUE)>>, << >>, "Revert")],
      [name |-> "tx", type |-> MagicType("Transaction")]>>

\* The scope of the global declarations is 0.
GlobalScope == 0
Container(enclosing, visible) == [enclosing |-> enclosing, visible |-> visible, invisible |-> << >>]

ContractsOf(nodes) == SelectSeq([i \in DOMAIN nodes |-> i], LAMBDA i : nodes[i].kind = "ContractDefinition")

\* A parsed program before its analysis, with the annotations of all its phases: for
\* each contract there is a this and a super.
Program(nodes) ==
    LET contracts == ContractsOf(nodes)
        pointers == FlattenSeq([i \in DOMAIN contracts |->
                        <<[name |-> "this", type |-> ContractType(contracts[i], FALSE)],
                          [name |-> "super", type |-> ContractType(contracts[i], TRUE)]>>])
        magic == magicVariables \o pointers
        n == Len(nodes)
        ids == 1..(n + Len(magic))
    IN [nodes |-> nodes \o [i \in DOMAIN magic |-> MagicVariable(magic[i].name)],
        type |-> [i \in ids |-> IF i > n THEN magic[i - n].type ELSE NoType],
        scope |-> [i \in ids |-> GlobalScope],
        ref |-> [i \in ids |-> 0],
        overloads |-> [i \in ids |-> << >>],
        bases |-> [i \in ids |-> << >>],
        returns |-> [i \in ids |-> 0],
        scopes |-> GlobalScope :> Container(GlobalScope, [i \in DOMAIN magicVariables |-> n + i]),
        current |-> GlobalScope, function |-> 0, insideCode |-> FALSE,
        pure |-> {}, lValue |-> {}, constant |-> {}, lValueRequested |-> {}, arguments |-> << >>,
        callKind |-> << >>, commonType |-> << >>, contract |-> 0, insideStruct |-> FALSE, insideEmit |-> FALSE,
        unimplemented |-> [i \in ids |-> {}], baseArguments |-> [i \in ids |-> << >>],
        errors |-> 0, failed |-> FALSE, fatal |-> FALSE]

declarationError(p) == [p EXCEPT !.errors = @ + 1]
fatalError(p) == [p EXCEPT !.errors = @ + 1, !.fatal = TRUE]

-----------------------------------------------------------------------------
(* DeclarationContainer *)

Named(p, ids, name) == SelectSeq(ids, LAMBDA id : p.nodes[id].name = name)

\* Functions, events and magic variables are overloaded by their like; a container
\* may have a declaration already.
conflictingDeclaration(p, scope, id) ==
    LET container == p.scopes[scope]
        others == Named(p, container.visible \o container.invisible, p.nodes[id].name)
    IN IF p.nodes[id].kind \in {"FunctionDefinition", "EventDefinition", "MagicVariableDeclaration"}
       THEN FirstIn(SelectSeq(others, LAMBDA o : p.nodes[o].kind # p.nodes[id].kind))
       ELSE IF others = <<id>> THEN 0 ELSE FirstIn(others)

AddTo(ids, id) == IF id \in ToSet(ids) THEN ids ELSE Append(ids, id)

Register(p, scope, id, invisible) ==
    IF invisible THEN [p EXCEPT !.scopes[scope].invisible = AddTo(@, id)]
    ELSE [p EXCEPT !.scopes[scope].visible = AddTo(@, id)]

\* this and super are replaced for each contract.
updateDeclaration(p, id) ==
    [p EXCEPT !.scopes[GlobalScope].visible =
        Append(SelectSeq(@, LAMBDA o : p.nodes[o].name # p.nodes[id].name), id)]

activateVariable(p, name) ==
    LET hidden == Named(p, p.scopes[p.current].invisible, name)
    IN IF name = "" \/ hidden = << >> THEN p
       ELSE [p EXCEPT !.scopes[p.current] =
                [@ EXCEPT !.visible = Append(@, Head(hidden)),
                          !.invisible = SelectSeq(@, LAMBDA id : p.nodes[id].name # name)]]

resolveName(p, scope, name) == Named(p, p.scopes[scope].visible, name)

RECURSIVE NameFrom(_, _, _)
NameFrom(p, scope, name) ==
    LET here == resolveName(p, scope, name)
    IN IF here # << >> \/ scope = GlobalScope THEN here ELSE NameFrom(p, p.scopes[scope].enclosing, name)
nameFromCurrentScope(p, name) == NameFrom(p, p.current, name)

RECURSIVE FollowPath(_, _, _)
FollowPath(p, candidates, path) ==
    IF Len(candidates) # 1 THEN 0
    ELSE IF path = << >> THEN candidates[1]
    ELSE IF candidates[1] \notin DOMAIN p.scopes THEN 0
    ELSE FollowPath(p, resolveName(p, candidates[1], Head(path)), Tail(path))
pathFromCurrentScope(p, path) == FollowPath(p, nameFromCurrentScope(p, Head(path)), Tail(path))

-----------------------------------------------------------------------------
(* DeclarationRegistrationHelper *)

enterNewSubScope(p, id) ==
    [p EXCEPT !.scopes = @ @@ (id :> Container(p.current, << >>)), !.current = id]
closeCurrentScope(p) == [p EXCEPT !.current = p.scopes[@].enclosing]

\* A plausible slip: the variables of a block can be seen in all of it.
RegisterInAtOnce(p, id) ==
    LET n == p.nodes[id]
    IN IF n.name = "" THEN p
       ELSE IF conflictingDeclaration(p, p.current, id) # 0 THEN declarationError(p)
       ELSE Register(p, p.current, id, ~isVisibleInContract(n))

RegisterIn(p, id) ==
    LET n == p.nodes[id]
        inactive == p.current # GlobalScope /\ p.nodes[p.current].kind \in {"Block", "ForStatement"}
    IN IF n.name = "" THEN p
       ELSE IF conflictingDeclaration(p, p.current, id) # 0 THEN declarationError(p)
       ELSE Register(p, p.current, id, ~isVisibleInContract(n) \/ inactive)

registerDeclaration(p, id) == [RegisterIn(p, id) EXCEPT !.scope[id] = p.current]

OpensScope == {"ContractDefinition", "StructDefinition", "EnumDefinition", "FunctionDefinition",
               "ModifierDefinition", "EventDefinition"}
Declared == OpensScope \cup {"EnumValue", "VariableDeclaration"}

ThisOf(p, contract) ==
    CHOOSE id \in DOMAIN p.nodes : /\ p.nodes[id].kind = "MagicVariableDeclaration"
                                   /\ p.type[id] = ContractType(contract, FALSE)
setCurrentContract(p, contract) ==
    With(ThisOf(p, contract), LAMBDA this : updateDeclaration(updateDeclaration(p, this), this + 1))

RECURSIVE RegisterTree(_, _)
RegisterTree(p, id) ==
    LET n == p.nodes[id]
        named == IF n.kind \in Declared
                 THEN registerDeclaration(IF n.kind = "ContractDefinition" THEN setCurrentContract(p, id) ELSE p, id)
                 ELSE [p EXCEPT !.scope[id] = p.current]
        scoped == n.kind \in OpensScope \cup {"SourceUnit", "Block", "ForStatement"}
        inner == FoldLeft(LAMBDA q, c : RegisterTree(q, c),
                          IF scoped THEN enterNewSubScope(named, id) ELSE named, Children(n))
    IN IF scoped THEN closeCurrentScope(inner) ELSE inner

registerDeclarations(p, sourceUnit) == RegisterTree(p, sourceUnit)

-----------------------------------------------------------------------------
(* Base contracts *)

linearizeBaseContracts(p, contract) ==
    LET specifiers == p.nodes[contract].baseContracts
        direct == [i \in DOMAIN specifiers |-> p.ref[p.nodes[specifiers[i]].baseName]]
        usable == \A i \in DOMAIN direct : p.nodes[direct[i]].kind = "ContractDefinition" /\ p.bases[direct[i]] # << >>
    IN IF ~usable THEN fatalError(p)
       ELSE With(linearization(contract, direct, p.bases), LAMBDA result :
                IF result = << >> THEN fatalError(p) ELSE [p EXCEPT !.bases[contract] = result])

\* Variables and modifiers of a base are shadowed by those of the contract.
ImportInherited(p, id) ==
    LET other == conflictingDeclaration(p, p.current, id)
        kinds == {p.nodes[id].kind, p.nodes[other].kind}
    IN IF other = 0 THEN Register(p, p.current, id, FALSE)
       ELSE IF kinds \in {{"VariableDeclaration"}, {"ModifierDefinition"}} THEN p
       ELSE declarationError(p)

importInheritedScope(p, base) ==
    FoldLeft(ImportInherited, p,
             SelectSeq(p.scopes[base].visible,
                       LAMBDA id : p.scope[id] = base /\ isVisibleInDerivedContracts(p.nodes[id])))

-----------------------------------------------------------------------------
(* Constants in the lengths of arrays *)

MaxConstantDepth == 32

\* The type of an expression of constants; NoType if it is none, and Fatal for an
\* operator that does not fit and for constants defined by one another.
Fatal == [category |-> "Fatal"]
OnlyRational(t) == IF t.category \in {"RationalNumber", "Fatal"} THEN t ELSE NoType

EvaluateBinary(p, op, l, r) ==
    IF Fatal \in {l, r} THEN Fatal
    ELSE IF NoType \in {l, r} THEN NoType
    ELSE With(binaryOperatorResult(p, l, op, r), LAMBDA t :
              IF t = NoType THEN Fatal ELSE IF isCompareOp(op) THEN BoolType ELSE t)

RECURSIVE evaluate(_, _, _)
evaluate(p, id, depth) ==
    LET n == p.nodes[id]
        Unary(t) == IF t \in {Fatal, NoType} THEN t ELSE unaryOperatorResult(n.op, t)
        declared == p.ref[id]
    IN OnlyRational(
         CASE n.kind = "Literal" -> forLiteral(n.token)
           [] n.kind = "UnaryOperation" -> Unary(evaluate(p, n.sub, depth))
           [] n.kind = "BinaryOperation" -> EvaluateBinary(p, n.op, evaluate(p, n.left, depth), evaluate(p, n.right, depth))
           [] n.kind = "TupleExpression" ->
                IF ~n.isInlineArray /\ Len(n.components) = 1 THEN evaluate(p, n.components[1], depth) ELSE NoType
           [] n.kind = "Identifier" ->
                IF declared = 0 \/ p.nodes[declared].kind # "VariableDeclaration" THEN NoType
                ELSE IF ~p.nodes[declared].isConstant \/ p.nodes[declared].value = 0 THEN NoType
                ELSE IF depth > MaxConstantDepth THEN Fatal
                ELSE evaluate(p, p.nodes[declared].value, depth + 1)
           [] OTHER -> NoType)

-----------------------------------------------------------------------------
(* Variables (AST.cpp) *)

Callables == {"FunctionDefinition", "ModifierDefinition", "EventDefinition"}
ScopeOf(p, id) == IF p.scope[id] = GlobalScope THEN MagicVariable("") ELSE p.nodes[p.scope[id]]

isLocalVariable(p, id) == ScopeOf(p, id).kind \in Callables \cup {"Block", "ForStatement"}
isReturnParameter(p, id) ==
    ScopeOf(p, id).kind = "FunctionDefinition" /\ id \in ToSet(ScopeOf(p, id).returnParameters)
isCallableParameter(p, id) ==
    isReturnParameter(p, id) \/ (ScopeOf(p, id).kind \in Callables /\ id \in ToSet(ScopeOf(p, id).parameters))
isExternalCallableParameter(p, id) ==
    isCallableParameter(p, id) /\ visibility(ScopeOf(p, id)) = "external" /\ ~isReturnParameter(p, id)
isInternalCallableParameter(p, id) ==
    isCallableParameter(p, id) /\ Visibility[visibility(ScopeOf(p, id))] <= Visibility["internal"]
isLocalOrReturn(p, id) == isReturnParameter(p, id) \/ (isLocalVariable(p, id) /\ ~isCallableParameter(p, id))
isEventParameter(p, id) == ScopeOf(p, id).kind = "EventDefinition"

\* The first one is taken where none of them is given.
allowedDataLocations(p, id) ==
    LET n == p.nodes[id]
        t == p.type[n.typeName]
    IN CASE (~isReference(t) /\ t.category # "Mapping") \/ n.isStateVariable \/ isEventParameter(p, id) -> <<"default">>
         [] OTHER ->
              IF isExternalCallableParameter(p, id) THEN <<"calldata">>
              ELSE IF isCallableParameter(p, id)
                   THEN IF isInternalCallableParameter(p, id) THEN <<"storage", "memory">> ELSE <<"memory">>
              ELSE IF isLocalVariable(p, id)
                   THEN IF t.category = "Mapping" THEN <<"storage">> ELSE <<"storage", "memory">>
              ELSE <<"default">>

-----------------------------------------------------------------------------
(* ReferencesResolver *)

resolveError(p) == [p EXCEPT !.errors = @ + 1, !.failed = TRUE]
fatalResolveError(p) == [p EXCEPT !.errors = @ + 1, !.failed = TRUE, !.fatal = TRUE]

\* Of several declarations the first with each list of parameters
FunctionTypeOfDeclaration(p, id) ==
    LET n == p.nodes[id]
    IN CASE n.kind = "FunctionDefinition" -> FunctionTypeOf(p, id, TRUE)
         [] n.kind = "EventDefinition" -> EventTypeOf(p, id)
         [] n.kind = "VariableDeclaration" -> AccessorTypeOf(p, id)
         [] n.kind = "MagicVariableDeclaration" -> p.type[id]

cleanedDeclarations(p, ids) ==
    FoldLeft(LAMBDA unique, id :
                IF \E i \in DOMAIN unique : hasEqualParameterTypes(FunctionTypeOfDeclaration(p, id),
                                                                   FunctionTypeOfDeclaration(p, unique[i]))
                THEN unique ELSE Append(unique, id),
             << >>, ids)

ResolveIdentifier(p, id) ==
    With(nameFromCurrentScope(p, p.nodes[id].name), LAMBDA found :
        CASE found = << >> -> resolveError(p)
          [] Len(found) = 1 -> [p EXCEPT !.ref[id] = found[1]]
          [] OTHER -> IF \E i \in DOMAIN found : NoType \in ToSet(FunctionTypeOfDeclaration(p, found[i]).parameterTypes)
                      THEN fatalResolveError(p)
                      ELSE [p EXCEPT !.overloads[id] = cleanedDeclarations(p, found)])

endVisitUserDefinedTypeName(p, id) ==
    With(pathFromCurrentScope(p, p.nodes[id].path), LAMBDA d :
        IF d = 0 THEN fatalResolveError(p)
        ELSE LET found == [p EXCEPT !.ref[id] = d]
                 kind == p.nodes[d].kind
             IN CASE kind = "StructDefinition" -> [found EXCEPT !.type[id] = StructType(d, "storage", TRUE)]
                  [] kind = "EnumDefinition" -> [found EXCEPT !.type[id] = EnumType(d)]
                  [] kind = "ContractDefinition" -> [found EXCEPT !.type[id] = ContractType(d, FALSE)]
                  [] OTHER -> resolveError([found EXCEPT !.type[id] = EmptyTuple]))

endVisitMapping(p, id) ==
    LET n == p.nodes[id]
    IN [p EXCEPT !.type[id] = MappingType(withLocationIfReference("memory", p.type[n.keyType]),
                                          withLocationIfReference("storage", p.type[n.valueType]))]

endVisitArrayTypeName(p, id) ==
    LET n == p.nodes[id]
        base == p.type[n.baseType]
        Sized(q, t) ==
            IF t.category # "RationalNumber" THEN fatalResolveError(q)
            ELSE IF mobileType(t) = NoType \/ isFractional(t) \/ t.value.num <= 0 THEN fatalResolveError(q)
            ELSE [q EXCEPT !.type[id] = NewArrayType("storage", base, t.value.num)]
    IN IF base = NoType THEN p
       ELSE IF ~canBeStored(base) THEN fatalResolveError(p)
       ELSE IF n.length = 0 THEN [p EXCEPT !.type[id] = NewArrayType("storage", base, Dynamic)]
       ELSE With(evaluate(p, n.length, 0),
                 LAMBDA t : Sized([p EXCEPT !.type[n.length] = IF t = Fatal THEN NoType ELSE t], t))

endVisitVariableDeclaration(p, id) ==
    LET n == p.nodes[id]
        t == p.type[n.typeName]
        allowed == allowedDataLocations(p, id)
        q == IF n.isConstant /\ ~n.isStateVariable THEN declarationError(p) ELSE p
        given == n.location \in ToSet(allowed)
        location == IF given THEN n.location ELSE allowed[1]
        typeLocation == CASE n.isStateVariable -> IF n.isConstant THEN "memory" ELSE "storage"
                          [] isEventParameter(p, id) -> "memory"
                          [] OTHER -> IF ScopeOf(p, id).kind \in {"StructDefinition", "EnumDefinition"}
                                      THEN "storage" ELSE location
    IN IF p.type[id] # NoType THEN p
       ELSE [(IF given THEN q ELSE resolveError(q))
             EXCEPT !.type[id] = IF isReference(t) THEN withLocation(t, typeLocation, ~n.isStateVariable) ELSE t]

EndVisit(p, id) ==
    LET n == p.nodes[id]
    IN CASE p.fatal -> p
         [] ~p.fatal /\ n.kind = "UserDefinedTypeName" -> endVisitUserDefinedTypeName(p, id)
         [] ~p.fatal /\ n.kind = "Mapping" -> endVisitMapping(p, id)
         [] ~p.fatal /\ n.kind = "ArrayTypeName" -> endVisitArrayTypeName(p, id)
         [] ~p.fatal /\ n.kind = "VariableDeclaration" -> endVisitVariableDeclaration(p, id)
         [] ~p.fatal /\ n.kind = "VariableDeclarationStatement" ->
                IF p.insideCode THEN FoldLeft(LAMBDA q, v : activateVariable(q, p.nodes[v].name), p, NotNull(n.variables))
                ELSE p
         [] ~p.fatal /\ n.kind \in {"Block", "ForStatement"} -> [p EXCEPT !.current = p.scope[id]]
         [] OTHER -> p

RECURSIVE resolve(_, _)
resolve(p, id) ==
    LET n == p.nodes[id]
        entered == CASE n.kind \in {"Block", "ForStatement"} -> [p EXCEPT !.current = id]
                     [] n.kind = "FunctionDefinition" -> [p EXCEPT !.function = id]
                     [] n.kind = "Return" -> [p EXCEPT !.returns[id] = p.function]
                     [] OTHER -> p
    IN CASE p.fatal -> p
         [] ~p.fatal /\ n.kind \in {"Block", "ForStatement"} /\ ~p.insideCode -> p
         [] ~p.fatal /\ n.kind = "Identifier" -> ResolveIdentifier(p, id)
         [] ~p.fatal /\ n.kind = "ElementaryTypeName" -> [p EXCEPT !.type[id] = fromElementaryTypeName(n.token)]
         [] OTHER -> EndVisit(FoldLeft(LAMBDA q, c : resolve(q, c), entered, Children(n)), id)

\* A fatal error ends the resolution of one node.
resolveNode(p, id, insideCode) ==
    With(resolve([p EXCEPT !.insideCode = insideCode, !.function = 0,
                           !.current = IF id \in DOMAIN p.scopes THEN id ELSE @], id), LAMBDA q :
        [q EXCEPT !.fatal = FALSE])

ResolveNodes(p, contract, ids, insideCode) ==
    FoldLeft(LAMBDA q, id : resolveNode([q EXCEPT !.current = contract], id, insideCode), p, ids)

\* resolveNamesAndTypes for a contract: its bases, then the declarations of its
\* members, then the code in them.  failed is set if one of them could not be.
ResolveBases(p, contract) ==
    LET start == setCurrentContract([p EXCEPT !.current = p.scope[contract]], contract)
    IN With(FoldLeft(LAMBDA r, id : resolveNode(r, id, TRUE), start, p.nodes[contract].baseContracts), LAMBDA q :
    With(linearizeBaseContracts([q EXCEPT !.current = contract], contract), LAMBDA linear :
        IF q.failed THEN [q EXCEPT !.current = contract]
        ELSE IF linear.fatal THEN linear
        ELSE FoldLeft(importInheritedScope, linear, Tail(linear.bases[contract]))))

resolveNamesAndTypes(p, contract) ==
    With(ResolveBases([p EXCEPT !.failed = FALSE], contract), LAMBDA based :
    LET members == p.nodes[contract].subNodes
    IN IF based.fatal THEN [based EXCEPT !.fatal = FALSE, !.failed = TRUE]
       ELSE With(ResolveNodes(based, contract, members, FALSE), LAMBDA declared :
                IF declared.failed THEN declared ELSE ResolveNodes(declared, contract, members, TRUE)))

=============================================================================
