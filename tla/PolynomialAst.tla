---------------------------- MODULE PolynomialAst ----------------------------
(***************************************************************************)
(* The abstract syntax tree (AST.h) and the parser that builds it           *)
(* (Parser.cpp).                                                            *)
(*                                                                         *)
(* A source is a sequence of tokens.  A tree is the sequence of its nodes   *)
(* in the order of their creation, in which a node refers to others by      *)
(* their position (its id); 0 is the null pointer.                          *)
(***************************************************************************)
EXTENDS Instructions, SequencesExt

CONSTANT MaxLiteral    \* the largest number that occurs as a literal

-----------------------------------------------------------------------------
(* Tokens (liblangutil/Token.h).  A keyword or operator is written as itself;
   a number token is its digits; anything else is an identifier. *)

LiteralValue ==
    LET digits == {ToString(n) : n \in 0..MaxLiteral}
    IN [s \in digits |-> CHOOSE n \in 0..MaxLiteral : ToString(n) = s]

precedence(t) ==
    CASE t = "||" -> 4 [] t = "&&" -> 5
      [] t \in {"==", "!="} -> 6 [] t \in {"<", ">", "<=", ">="} -> 7
      [] t = "|" -> 8 [] t = "^" -> 9 [] t = "&" -> 10
      [] t \in {"<<", ">>"} -> 11 [] t \in {"+", "-"} -> 12
      [] t \in {"*", "/", "%"} -> 13 [] t = "**" -> 14
      [] OTHER -> 0

AssignmentToBinaryOp ==
    ("|=" :> "|") @@ ("^=" :> "^") @@ ("&=" :> "&") @@ ("<<=" :> "<<") @@ (">>=" :> ">>")
    @@ ("+=" :> "+") @@ ("-=" :> "-") @@ ("*=" :> "*") @@ ("/=" :> "/") @@ ("%=" :> "%")

isAssignmentOp(t) == t = "=" \/ t \in DOMAIN AssignmentToBinaryOp
isCountOp(t)      == t \in {"++", "--"}
isUnaryOp(t)      == t \in {"!", "~", "delete", "+", "-"} \/ isCountOp(t)
isCompareOp(t)    == precedence(t) \in {6, 7}
isBooleanOp(t)    == t \in {"||", "&&", "!"}
isShiftOp(t)      == t \in {"<<", ">>"}
isBitOp(t)        == t \in {"|", "^", "&", "~"}
isArithmeticOp(t) == precedence(t) \in 12..14
isVariableVisibilitySpecifier(t) == t \in {"public", "private", "internal"}
isVisibilitySpecifier(t)   == isVariableVisibilitySpecifier(t) \/ t = "external"
isLocationSpecifier(t)     == t \in {"memory", "storage", "calldata"}
isStateMutabilitySpecifier(t) == t \in {"pure", "view", "payable"}

\* Elementary types by their size in bytes.  A word has WordBytes bytes, and the
\* names without a size stand for a whole word.
SignedTypes   == ("int" :> 0) @@ ("int8" :> 1) @@ ("int16" :> 2) @@ ("int24" :> 3) @@ ("int32" :> 4)
UnsignedTypes == ("uint" :> 0) @@ ("uint8" :> 1) @@ ("uint16" :> 2) @@ ("uint24" :> 3) @@ ("uint32" :> 4)
FixedBytesTypes == ("bytes1" :> 1) @@ ("bytes2" :> 2) @@ ("bytes3" :> 3)
isElementaryTypeName(t) ==
    t \in {"bool", "address", "bytes", "string"} \cup DOMAIN SignedTypes \cup DOMAIN UnsignedTypes
          \cup DOMAIN FixedBytesTypes

Keywords ==
    {"anonymous", "break", "constant", "constructor", "continue", "contract", "do", "else", "enum", "emit",
     "event", "external", "for", "function", "if", "indexed", "interface", "internal", "is", "library",
     "mapping", "memory", "modifier", "new", "payable", "public", "private", "pure", "return", "returns",
     "storage", "calldata", "struct", "throw", "using", "view", "while", "delete", "true", "false", "EOS"}
Punctuators ==
    {"(", ")", "[", "]", "{", "}", ":", ";", ".", "?", "=>", ",", "=", "!", "~", "++", "--"}

isIdentifier(t) ==
    /\ t \notin Keywords \cup Punctuators \cup DOMAIN LiteralValue \cup DOMAIN AssignmentToBinaryOp
    /\ precedence(t) = 0 /\ ~isElementaryTypeName(t)

-----------------------------------------------------------------------------
(* The nodes.  Lists of parameters are fields of their owner. *)

SourceUnit(nodes) == [kind |-> "SourceUnit", nodes |-> nodes]
ContractDefinition(name, contractKind, baseContracts, subNodes) ==
    [kind |-> "ContractDefinition", name |-> name, contractKind |-> contractKind,
     baseContracts |-> baseContracts, subNodes |-> subNodes]
InheritanceSpecifier(name, given, arguments) ==
    [kind |-> "InheritanceSpecifier", baseName |-> name, given |-> given, arguments |-> arguments]
StructDefinition(name, members) == [kind |-> "StructDefinition", name |-> name, members |-> members]
EnumDefinition(name, members) == [kind |-> "EnumDefinition", name |-> name, members |-> members]
EnumValue(name) == [kind |-> "EnumValue", name |-> name]
FunctionDefinition(header, body) ==
    [kind |-> "FunctionDefinition", name |-> header.name, visibility |-> header.visibility,
     stateMutability |-> header.stateMutability, isConstructor |-> header.isConstructor,
     parameters |-> header.parameters, modifiers |-> header.modifiers,
     returnParameters |-> header.returnParameters, body |-> body]
VariableDeclaration(type, name, value, visibility, isStateVariable, isIndexed, isConstant, location) ==
    [kind |-> "VariableDeclaration", typeName |-> type, name |-> name, value |-> value,
     visibility |-> visibility, isStateVariable |-> isStateVariable, isIndexed |-> isIndexed,
     isConstant |-> isConstant, location |-> location]
ModifierDefinition(name, parameters, body) ==
    [kind |-> "ModifierDefinition", name |-> name, parameters |-> parameters, body |-> body]
ModifierInvocation(name, given, arguments) ==
    [kind |-> "ModifierInvocation", name |-> name, given |-> given, arguments |-> arguments]
EventDefinition(name, parameters, anonymous) ==
    [kind |-> "EventDefinition", name |-> name, parameters |-> parameters, anonymous |-> anonymous]
ElementaryTypeName(token) == [kind |-> "ElementaryTypeName", token |-> token]
UserDefinedTypeName(path) == [kind |-> "UserDefinedTypeName", path |-> path]
Mapping(keyType, valueType) == [kind |-> "Mapping", keyType |-> keyType, valueType |-> valueType]
ArrayTypeName(baseType, length) == [kind |-> "ArrayTypeName", baseType |-> baseType, length |-> length]
Block(statements) == [kind |-> "Block", statements |-> statements]
PlaceholderStatement == [kind |-> "PlaceholderStatement"]
IfStatement(condition, trueBody, falseBody) ==
    [kind |-> "IfStatement", condition |-> condition, trueBody |-> trueBody, falseBody |-> falseBody]
WhileStatement(condition, body, isDoWhile) ==
    [kind |-> "WhileStatement", condition |-> condition, body |-> body, isDoWhile |-> isDoWhile]
ForStatement(init, condition, loop, body) ==
    [kind |-> "ForStatement", init |-> init, condition |-> condition, loop |-> loop, body |-> body]
Continue == [kind |-> "Continue"]
Break    == [kind |-> "Break"]
Return(expression) == [kind |-> "Return", expression |-> expression]
Throw    == [kind |-> "Throw"]
EmitStatement(call) == [kind |-> "EmitStatement", call |-> call]
VariableDeclarationStatement(variables, value) ==
    [kind |-> "VariableDeclarationStatement", variables |-> variables, value |-> value]
ExpressionStatement(expression) == [kind |-> "ExpressionStatement", expression |-> expression]
Conditional(condition, trueExpression, falseExpression) ==
    [kind |-> "Conditional", condition |-> condition, trueExpression |-> trueExpression,
     falseExpression |-> falseExpression]
Assignment(left, op, right) == [kind |-> "Assignment", left |-> left, op |-> op, right |-> right]
TupleExpression(components, isInlineArray) ==
    [kind |-> "TupleExpression", components |-> components, isInlineArray |-> isInlineArray]
UnaryOperation(op, sub, isPrefix) ==
    [kind |-> "UnaryOperation", op |-> op, sub |-> sub, isPrefix |-> isPrefix]
BinaryOperation(left, op, right) == [kind |-> "BinaryOperation", left |-> left, op |-> op, right |-> right]
FunctionCall(expression, arguments) ==
    [kind |-> "FunctionCall", expression |-> expression, arguments |-> arguments]
NewExpression(typeName) == [kind |-> "NewExpression", typeName |-> typeName]
MemberAccess(expression, memberName) ==
    [kind |-> "MemberAccess", expression |-> expression, memberName |-> memberName]
IndexAccess(base, index) == [kind |-> "IndexAccess", base |-> base, index |-> index]
Identifier(name) == [kind |-> "Identifier", name |-> name]
ElementaryTypeNameExpression(token) == [kind |-> "ElementaryTypeNameExpression", token |-> token]
Literal(token) == [kind |-> "Literal", token |-> token]

\* What accept() of a node visits, in its order.
Given(id) == IF id = 0 THEN << >> ELSE <<id>>
NotNull(ids) == SelectSeq(ids, LAMBDA id : id # 0)

DeclarationChildren(n) ==
    CASE n.kind = "SourceUnit" -> n.nodes
      [] n.kind = "ContractDefinition" -> n.baseContracts \o n.subNodes
      [] n.kind = "InheritanceSpecifier" -> <<n.baseName>> \o n.arguments
      [] n.kind \in {"StructDefinition", "EnumDefinition"} -> n.members
      [] n.kind = "FunctionDefinition" -> n.parameters \o n.returnParameters \o n.modifiers \o Given(n.body)
      [] n.kind = "VariableDeclaration" -> Given(n.typeName) \o Given(n.value)
      [] n.kind = "ModifierDefinition" -> n.parameters \o <<n.body>>
      [] n.kind = "ModifierInvocation" -> <<n.name>> \o n.arguments
      [] n.kind = "EventDefinition" -> n.parameters

TypeNameChildren(n) ==
    CASE n.kind = "Mapping" -> <<n.keyType, n.valueType>>
      [] n.kind = "ArrayTypeName" -> <<n.baseType>> \o Given(n.length)

StatementChildren(n) ==
    CASE n.kind = "Block" -> n.statements
      [] n.kind = "IfStatement" -> <<n.condition, n.trueBody>> \o Given(n.falseBody)
      [] n.kind = "WhileStatement" -> <<n.condition, n.body>>
      [] n.kind = "ForStatement" -> Given(n.init) \o Given(n.condition) \o Given(n.loop) \o <<n.body>>
      [] n.kind \in {"Return", "ExpressionStatement"} -> Given(n.expression)
      [] n.kind = "EmitStatement" -> <<n.call>>
      [] n.kind = "VariableDeclarationStatement" -> NotNull(n.variables) \o Given(n.value)

ExpressionChildren(n) ==
    CASE n.kind = "Conditional" -> <<n.condition, n.trueExpression, n.falseExpression>>
      [] n.kind \in {"Assignment", "BinaryOperation"} -> <<n.left, n.right>>
      [] n.kind = "TupleExpression" -> NotNull(n.components)
      [] n.kind = "UnaryOperation" -> <<n.sub>>
      [] n.kind = "FunctionCall" -> <<n.expression>> \o n.arguments
      [] n.kind = "NewExpression" -> <<n.typeName>>
      [] n.kind = "MemberAccess" -> <<n.expression>>
      [] n.kind = "IndexAccess" -> <<n.base>> \o Given(n.index)

Declarations == {"SourceUnit", "ContractDefinition", "InheritanceSpecifier", "StructDefinition", "EnumDefinition",
                 "FunctionDefinition", "VariableDeclaration", "ModifierDefinition", "ModifierInvocation",
                 "EventDefinition"}
Statements == {"Block", "IfStatement", "WhileStatement", "ForStatement", "Return", "ExpressionStatement",
               "EmitStatement", "VariableDeclarationStatement"}
Expressions == {"Conditional", "Assignment", "BinaryOperation", "TupleExpression", "UnaryOperation",
                "FunctionCall", "NewExpression", "MemberAccess", "IndexAccess"}

Children(n) ==
    CASE n.kind \in Declarations -> DeclarationChildren(n)
      [] n.kind \in {"Mapping", "ArrayTypeName"} -> TypeNameChildren(n)
      [] n.kind \in Statements -> StatementChildren(n)
      [] n.kind \in Expressions -> ExpressionChildren(n)
      [] OTHER -> << >>

\* A node and all below it, parents first
RECURSIVE Subtree(_, _)
Subtree(nodes, id) ==
    <<id>> \o FlattenSeq([i \in DOMAIN Children(nodes[id]) |-> Subtree(nodes, Children(nodes[id])[i])])

-----------------------------------------------------------------------------
(* The parser.  Its state p has the tokens and the position in them, the nodes
   built so far, the node or list that the last call returned, the number of
   errors, whether a fatal one ended it, and whether it is inside a modifier. *)

ParserState(tokens) ==
    [tokens |-> tokens, at |-> 1, nodes |-> << >>, node |-> 0, list |-> << >>, errors |-> 0, fatal |-> FALSE,
     insideModifier |-> FALSE]

currentToken(p) == IF p.fatal \/ p.at > Len(p.tokens) THEN "EOS" ELSE p.tokens[p.at]
peekNextToken(p) == IF p.fatal \/ p.at >= Len(p.tokens) THEN "EOS" ELSE p.tokens[p.at + 1]
next(p) == [p EXCEPT !.at = @ + 1]

parserError(p) == [p EXCEPT !.errors = @ + 1]
fatalParserError(p) == [p EXCEPT !.errors = @ + 1, !.fatal = TRUE]

expectToken(p, t) ==
    IF p.fatal THEN p ELSE IF currentToken(p) = t THEN next(p) ELSE fatalParserError(p)

\* expectIdentifierToken; the name is the token before the new position.
expectIdentifierToken(p) == IF p.fatal \/ ~isIdentifier(currentToken(p)) THEN fatalParserError(p) ELSE next(p)
LiteralBefore(p) == IF p.fatal THEN "" ELSE p.tokens[p.at - 1]

createNode(p, node) == [p EXCEPT !.nodes = Append(@, node), !.node = Len(p.nodes) + 1]
Null(p) == [p EXCEPT !.node = 0]
Listed(p, list) == [p EXCEPT !.list = list]
Optional(p, t) == IF currentToken(p) = t THEN next(p) ELSE p

\* The rules of the grammar that refer to each other, by name, with what they are given
RECURSIVE Parsed(_, _, _)
RECURSIVE ContinueBinary(_, _, _), AccessSuffixes(_), TupleComponents(_, _, _, _), parseTypeNameSuffix(_, _)

\* A partially parsed expression is given by its node, or 0.
parseExpression(p, partial) ==
    LET left == Parsed("BinaryExpression", p, <<4, partial>>)
        t == currentToken(left)
        right == Parsed("Expression", next(left), 0)
        otherwise == Parsed("Expression", expectToken(right, ":"), 0)
    IN CASE isAssignmentOp(t) -> createNode(right, Assignment(left.node, t, right.node))
         [] t = "?" -> createNode(otherwise, Conditional(left.node, right.node, otherwise.node))
         [] OTHER -> left

parseBinaryExpression(p, minPrecedence, partial) ==
    LET left == Parsed("UnaryExpression", p, partial)
    IN ContinueBinary(left, minPrecedence, precedence(currentToken(left)))

\* A plausible slip: the right operand takes operators of the same strength too.
ContinueBinaryFromTheRight(left, minPrecedence, level) ==
    LET op == currentToken(left)
        right == Parsed("BinaryExpression", next(left), <<level, 0>>)
    IN CASE level < minPrecedence -> left
         [] level >= minPrecedence /\ precedence(op) = level ->
                ContinueBinary(createNode(right, BinaryOperation(left.node, op, right.node)), minPrecedence, level)
         [] OTHER -> ContinueBinary(left, minPrecedence, level - 1)

\* The two loops: operators of one precedence from left to right, then weaker ones.
ContinueBinary(left, minPrecedence, level) ==
    LET op == currentToken(left)
        right == Parsed("BinaryExpression", next(left), <<level + 1, 0>>)
    IN CASE level < minPrecedence -> left
         [] level >= minPrecedence /\ precedence(op) = level ->
                ContinueBinary(createNode(right, BinaryOperation(left.node, op, right.node)), minPrecedence, level)
         [] OTHER -> ContinueBinary(left, minPrecedence, level - 1)

parseUnaryExpression(p, partial) ==
    LET t == currentToken(p)
        operand == Parsed("UnaryExpression", next(p), 0)
        sub == Parsed("LeftHandSideExpression", p, partial)
        post == currentToken(sub)
    IN IF partial = 0 /\ isUnaryOp(t) THEN createNode(operand, UnaryOperation(t, operand.node, TRUE))
       ELSE IF isCountOp(post) THEN createNode(next(sub), UnaryOperation(post, sub.node, FALSE))
       ELSE sub

parseLeftHandSideExpression(p, partial) ==
    LET type == Parsed("TypeName", next(p), 0)
    IN AccessSuffixes(IF partial # 0 THEN [p EXCEPT !.node = partial]
                ELSE IF currentToken(p) = "new" THEN createNode(type, NewExpression(type.node))
                ELSE Parsed("PrimaryExpression", p, 0))

\* The indices, members and calls behind an expression
AccessSuffixes(p) ==
    LET index == IF peekNextToken(p) = "]" THEN Null(next(p)) ELSE Parsed("Expression", next(p), 0)
        member == expectIdentifierToken(next(p))
        call == Parsed("Arguments", next(p), << >>)
    IN CASE currentToken(p) = "[" -> AccessSuffixes(createNode(expectToken(index, "]"), IndexAccess(p.node, index.node)))
         [] currentToken(p) = "." -> AccessSuffixes(createNode(member, MemberAccess(p.node, LiteralBefore(member))))
         [] currentToken(p) = "(" -> AccessSuffixes(createNode(expectToken(call, ")"), FunctionCall(p.node, call.list)))
         [] OTHER -> p

parseFunctionCallListArguments(p, arguments) ==
    LET e == Parsed("Expression", p, 0)
        all == Append(arguments, e.node)
    IN IF arguments = << >> /\ currentToken(p) = ")" THEN Listed(p, << >>)
       ELSE IF e.fatal \/ currentToken(e) = ")" THEN Listed(e, all)
       ELSE Parsed("Arguments", expectToken(e, ","), all)

\* The components of a tuple or inline array up to the closing bracket; only
\* those of a tuple may be missing.
TupleComponents(p, components, isArray, close) ==
    LET e == IF currentToken(p) \notin {",", close} THEN Parsed("Expression", p, 0)
             ELSE IF isArray THEN parserError(Null(p)) ELSE Null(p)
        all == IF isArray /\ e.node = 0 THEN components ELSE Append(components, e.node)
    IN IF e.fatal \/ currentToken(e) = close THEN Listed(e, all)
       ELSE TupleComponents(expectToken(e, ","), all, isArray, close)

parsePrimaryExpression(p) ==
    LET t == currentToken(p)
        close == IF t = "(" THEN ")" ELSE "]"
        inside == IF peekNextToken(p) = close THEN Listed(next(p), << >>)
                  ELSE TupleComponents(next(p), << >>, t = "[", close)
    IN CASE t \in DOMAIN LiteralValue \cup {"true", "false"} -> createNode(next(p), Literal(t))
         [] t \in {"(", "["} -> createNode(expectToken(inside, close), TupleExpression(inside.list, t = "["))
         [] isElementaryTypeName(t) -> createNode(next(p), ElementaryTypeNameExpression(t))
         [] isIdentifier(t) -> createNode(next(p), Identifier(t))
         [] OTHER -> fatalParserError(p)

parseUserDefinedTypeName(p) ==
    LET n == CHOOSE k \in 0..Len(p.tokens) :
                 \/ p.at + 2 * k + 1 > Len(p.tokens)
                 \/ /\ \A j \in 0..(k - 1) : p.tokens[p.at + 2 * j + 1] = "."
                    /\ p.tokens[p.at + 2 * k + 1] # "."
        path == [j \in 1..(n + 1) |-> p.tokens[p.at + 2 * (j - 1)]]
    IN IF \A j \in DOMAIN path : isIdentifier(path[j])
       THEN createNode([p EXCEPT !.at = @ + 2 * n + 1], UserDefinedTypeName(path))
       ELSE fatalParserError(p)

parseTypeNameSuffix(p, type) ==
    LET length == IF peekNextToken(p) = "]" THEN Null(next(p)) ELSE Parsed("Expression", next(p), 0)
        array == createNode(expectToken(length, "]"), ArrayTypeName(type, length.node))
    IN IF currentToken(p) # "[" THEN [p EXCEPT !.node = type] ELSE parseTypeNameSuffix(array, array.node)

parseMapping(p) ==
    LET start == expectToken(next(p), "(")
        key == createNode(next(start), ElementaryTypeName(currentToken(start)))
        value == Parsed("TypeName", expectToken(key, "=>"), 0)
    IN IF start.fatal \/ ~isElementaryTypeName(currentToken(start)) THEN fatalParserError(start)
       ELSE createNode(expectToken(value, ")"), Mapping(key.node, value.node))

parseTypeName(p) ==
    LET t == currentToken(p)
        type == CASE isElementaryTypeName(t) -> createNode(next(p), ElementaryTypeName(t))
                  [] t = "mapping" -> parseMapping(p)
                  [] isIdentifier(t) -> parseUserDefinedTypeName(p)
                  [] OTHER -> fatalParserError(p)
    IN IF type.fatal THEN type ELSE parseTypeNameSuffix(type, type.node)

\* The specifiers between the type and the name of a variable.  options has the
\* fields of VarDeclParserOptions that are true; spec what has been seen.
NoSpecifiers == [visibility |-> "default", location |-> "default", isIndexed |-> FALSE, isConstant |-> FALSE]

RECURSIVE parseVariableSpecifiers(_, _, _)
parseVariableSpecifiers(p, options, spec) ==
    LET t == currentToken(p)
        More(q, s) == parseVariableSpecifiers(next(q), options, s)
    IN CASE "isStateVariable" \in options /\ isVariableVisibilitySpecifier(t) ->
                IF spec.visibility # "default" THEN More(parserError(p), spec)
                ELSE More(p, [spec EXCEPT !.visibility = t])
         [] "allowIndexed" \in options /\ t = "indexed" -> More(p, [spec EXCEPT !.isIndexed = TRUE])
         [] t = "constant" -> More(p, [spec EXCEPT !.isConstant = TRUE])
         [] "allowLocationSpecifier" \in options /\ isLocationSpecifier(t) ->
                IF spec.location # "default" THEN More(parserError(p), spec)
                ELSE More(p, [spec EXCEPT !.location = t])
         [] OTHER -> [state |-> p, spec |-> spec]

\* A type that has been parsed already is given by its node, or 0.
parseVariableDeclaration(p, options, lookAheadType) ==
    LET type == IF lookAheadType # 0 THEN [p EXCEPT !.node = lookAheadType] ELSE Parsed("TypeName", p, 0)
        specified == parseVariableSpecifiers(type, options, NoSpecifiers)
        s == specified.state
        unnamed == "allowEmptyName" \in options /\ ~isIdentifier(currentToken(s))
        named == IF unnamed THEN s ELSE expectIdentifierToken(s)
        name == IF unnamed THEN "" ELSE LiteralBefore(named)
        value == IF "allowInitialValue" \in options /\ currentToken(named) = "="
                 THEN Parsed("Expression", next(named), 0) ELSE Null(named)
    IN createNode(value, VariableDeclaration(type.node, name, value.node, specified.spec.visibility,
                                             "isStateVariable" \in options, specified.spec.isIndexed,
                                             specified.spec.isConstant, specified.spec.location))

RECURSIVE Parameters(_, _, _)
Parameters(p, options, parameters) ==
    LET parameter == Parsed("VariableDeclaration", p, <<options \cup {"allowEmptyName"}, 0>>)
        all == Append(parameters, parameter.node)
    IN IF parameter.fatal \/ currentToken(parameter) = ")" THEN Listed(parameter, all)
       ELSE IF currentToken(parameter) = "," /\ peekNextToken(parameter) = ")" THEN fatalParserError(parameter)
       ELSE Parameters(expectToken(parameter, ","), options, all)

parseParameterList(p, options, allowEmpty) ==
    LET start == expectToken(p, "(")
        inside == IF allowEmpty /\ currentToken(start) = ")" THEN Listed(start, << >>)
                  ELSE Parameters(start, options, << >>)
    IN IF inside.fatal THEN inside ELSE next(inside)

-----------------------------------------------------------------------------
(* Statements *)

\* peekStatementType
peekStatementType(p) ==
    LET t == currentToken(p)
        follows == peekNextToken(p)
        mightBeTypeName == isElementaryTypeName(t) \/ isIdentifier(t)
    IN CASE t \in {"mapping", "function", "var"} -> "VariableDeclaration"
         [] mightBeTypeName /\ (isIdentifier(follows) \/ isLocationSpecifier(follows)
                                \/ (isElementaryTypeName(t) /\ isStateMutabilitySpecifier(follows))) ->
                "VariableDeclaration"
         [] mightBeTypeName /\ follows \in {"[", "."} -> "IndexAccessStructure"
         [] OTHER -> "Expression"

RECURSIVE PathOf(_, _), IndicesOf(_, _)
\* The identifiers of a path, as nodes
PathOf(p, path) ==
    LET member == expectIdentifierToken(next(p))
        node == createNode(member, Identifier(LiteralBefore(member)))
    IN IF currentToken(p) # "." THEN Listed(p, path) ELSE PathOf(node, Append(path, node.node))

IndicesOf(p, indices) ==
    LET index == IF peekNextToken(p) = "]" THEN Null(next(p)) ELSE Parsed("Expression", next(p), 0)
    IN IF currentToken(p) # "[" THEN Listed(p, indices)
       ELSE IndicesOf(expectToken(index, "]"), Append(indices, index.node))

parseIndexAccessedPath(p) ==
    LET t == currentToken(p)
        first == createNode(next(p), IF isIdentifier(t) THEN Identifier(t) ELSE ElementaryTypeNameExpression(t))
        path == Parsed("Members", first, <<first.node>>)
        indices == IndicesOf(path, << >>)
    IN [state |-> indices, path |-> path.list, indices |-> indices.list]

RECURSIVE IndexedType(_, _), IndexedExpression(_, _)
IndexedType(p, indices) ==
    IF indices = << >> THEN p
    ELSE IndexedType(createNode(p, ArrayTypeName(p.node, Head(indices))), Tail(indices))
IndexedExpression(p, indices) ==
    IF indices = << >> THEN p
    ELSE IndexedExpression(createNode(p, IndexAccess(p.node, Head(indices))), Tail(indices))

typeNameFromIndexAccessStructure(iap) ==
    LET p == iap.state
        first == p.nodes[iap.path[1]]
    IN IndexedType(createNode(p, IF first.kind = "Identifier"
                                 THEN UserDefinedTypeName([i \in DOMAIN iap.path |-> p.nodes[iap.path[i]].name])
                                 ELSE ElementaryTypeName(first.token)),
                   iap.indices)

expressionFromIndexAccessStructure(iap) ==
    LET start == [iap.state EXCEPT !.node = iap.path[1]]
        members == FoldLeft(LAMBDA q, id : createNode(q, MemberAccess(q.node, q.nodes[id].name)),
                            start, Tail(iap.path))
    IN IndexedExpression(members, iap.indices)

\* tryParseIndexAccessedPath: whether a declaration or an expression follows, with
\* the node of its type or its beginning if that has been parsed to find out.
tryParseIndexAccessedPath(p) ==
    LET statementType == peekStatementType(p)
        iap == Parsed("Path", p, 0)
        t == currentToken(iap.state)
    IN CASE statementType # "IndexAccessStructure" -> [type |-> statementType, state |-> Null(p)]
         [] iap.state.fatal -> [type |-> "Expression", state |-> iap.state]
         [] isIdentifier(t) \/ isLocationSpecifier(t) ->
                [type |-> "VariableDeclaration", state |-> typeNameFromIndexAccessStructure(iap)]
         [] OTHER -> [type |-> "Expression", state |-> expressionFromIndexAccessStructure(iap)]

parseExpressionStatement(p, partial) ==
    LET e == Parsed("Expression", p, partial)
    IN createNode(e, ExpressionStatement(e.node))

parseVariableDeclarationStatement(p, lookAheadType) ==
    LET variable == Parsed("VariableDeclaration", p, <<{"allowLocationSpecifier"}, lookAheadType>>)
        value == IF currentToken(variable) = "=" THEN Parsed("Expression", next(variable), 0) ELSE Null(variable)
    IN createNode(value, VariableDeclarationStatement(<<variable.node>>, value.node))

RECURSIVE EmptyComponents(_, _), OtherVariables(_, _), OtherComponents(_, _)
EmptyComponents(p, n) == IF currentToken(p) # "," THEN [state |-> p, n |-> n] ELSE EmptyComponents(next(p), n + 1)

OtherVariables(p, variables) ==
    LET q == expectToken(p, ",")
        variable == IF currentToken(q) \in {",", ")"} THEN Null(q)
                    ELSE Parsed("VariableDeclaration", q, <<{"allowLocationSpecifier"}, 0>>)
    IN IF p.fatal \/ currentToken(p) = ")" THEN Listed(p, variables)
       ELSE OtherVariables(variable, Append(variables, variable.node))

OtherComponents(p, components) ==
    LET q == expectToken(p, ",")
        e == IF currentToken(q) \in {",", ")"} THEN Null(q) ELSE Parsed("Expression", q, 0)
    IN IF p.fatal \/ currentToken(p) = ")" THEN Listed(p, components)
       ELSE OtherComponents(e, Append(components, e.node))

\* A statement that begins with "(": several variables, or a tuple
parseTupleStatement(p) ==
    LET empty == EmptyComponents(next(p), 0)
        nulls == [i \in 1..empty.n |-> 0]
        found == Parsed("IndexAccessedPath", empty.state, 0)
        variable == Parsed("VariableDeclaration", found.state, <<{"allowLocationSpecifier"}, found.state.node>>)
        variables == OtherVariables(variable, Append(nulls, variable.node))
        value == Parsed("Expression", expectToken(expectToken(variables, ")"), "="), 0)
        e == Parsed("Expression", found.state, found.state.node)
        components == OtherComponents(e, Append(nulls, e.node))
        tuple == createNode(expectToken(components, ")"), TupleExpression(components.list, FALSE))
    IN IF found.type = "VariableDeclaration"
       THEN createNode(value, VariableDeclarationStatement(variables.list, value.node))
       ELSE Parsed("ExpressionStatement", tuple, tuple.node)

parseSimpleStatement(p) ==
    LET found == Parsed("IndexAccessedPath", p, 0)
    IN IF currentToken(p) = "(" THEN parseTupleStatement(p)
       ELSE IF found.type = "VariableDeclaration"
            THEN parseVariableDeclarationStatement(found.state, found.state.node)
       ELSE Parsed("ExpressionStatement", found.state, found.state.node)

parseEmitStatement(p) ==
    LET name == Parsed("Members", createNode(next(next(p)), Identifier(peekNextToken(p))), << >>)
        event == expressionFromIndexAccessStructure(
                     [state |-> name, path |-> <<Len(p.nodes) + 1>> \o name.list, indices |-> << >>])
        arguments == Parsed("Arguments", expectToken(event, "("), << >>)
        call == createNode(expectToken(arguments, ")"), FunctionCall(event.node, arguments.list))
    IN IF ~isIdentifier(peekNextToken(p)) THEN fatalParserError(p)
       ELSE createNode(call, EmitStatement(call.node))

RECURSIVE StatementsOf(_, _)

StatementsOf(p, statements) ==
    LET s == Parsed("Statement", p, 0)
    IN IF p.fatal \/ currentToken(p) = "}" THEN Listed(p, statements)
       ELSE StatementsOf(s, Append(statements, s.node))

parseBlock(p) ==
    LET inside == StatementsOf(expectToken(p, "{"), << >>)
    IN createNode(expectToken(inside, "}"), Block(inside.list))

\* "(" Expression ")"
Parenthesised(p) == expectToken(Parsed("Expression", expectToken(p, "("), 0), ")")

parseIfStatement(p) ==
    LET condition == Parenthesised(next(p))
        trueBody == Parsed("Statement", condition, 0)
        falseBody == IF currentToken(trueBody) = "else" THEN Parsed("Statement", next(trueBody), 0) ELSE Null(trueBody)
    IN createNode(falseBody, IfStatement(condition.node, trueBody.node, falseBody.node))

parseWhileStatement(p) ==
    LET condition == Parenthesised(next(p))
        body == Parsed("Statement", condition, 0)
    IN createNode(body, WhileStatement(condition.node, body.node, FALSE))

parseDoWhileStatement(p) ==
    LET body == Parsed("Statement", next(p), 0)
        condition == Parenthesised(expectToken(body, "while"))
    IN createNode(expectToken(condition, ";"), WhileStatement(condition.node, body.node, TRUE))

parseForStatement(p) ==
    LET start == expectToken(next(p), "(")
        init == IF currentToken(start) = ";" THEN Null(start) ELSE Parsed("SimpleStatement", start, 0)
        test == expectToken(init, ";")
        condition == IF currentToken(test) = ";" THEN Null(test) ELSE Parsed("Expression", test, 0)
        step == expectToken(condition, ";")
        loop == IF currentToken(step) = ")" THEN Null(step) ELSE Parsed("ExpressionStatement", step, 0)
        body == Parsed("Statement", expectToken(loop, ")"), 0)
    IN createNode(body, ForStatement(init.node, condition.node, loop.node, body.node))

parseStatement(p) ==
    LET t == currentToken(p)
        value == IF peekNextToken(p) = ";" THEN Null(next(p)) ELSE Parsed("Expression", next(p), 0)
        simple == CASE t = "continue" -> next(createNode(p, Continue))
                    [] t = "break" -> next(createNode(p, Break))
                    [] t = "throw" -> next(createNode(p, Throw))
                    [] t = "return" -> createNode(value, Return(value.node))
                    [] t = "emit" -> parseEmitStatement(p)
                    [] t = "_" /\ p.insideModifier -> next(createNode(p, PlaceholderStatement))
                    [] OTHER -> Parsed("SimpleStatement", p, 0)
    IN CASE t = "if" -> parseIfStatement(p)
         [] t = "while" -> parseWhileStatement(p)
         [] t = "do" -> parseDoWhileStatement(p)
         [] t = "for" -> parseForStatement(p)
         [] t = "{" -> Parsed("Block", p, 0)
         [] OTHER -> expectToken(simple, ";")

-----------------------------------------------------------------------------
(* Definitions *)

parseModifierInvocation(p) ==
    LET name == createNode(next(p), Identifier(currentToken(p)))
        given == currentToken(name) = "("
        arguments == IF given THEN Parsed("Arguments", next(name), << >>) ELSE Listed(name, << >>)
    IN createNode(IF given THEN expectToken(arguments, ")") ELSE arguments,
                  ModifierInvocation(name.node, given, arguments.list))

parseInheritanceSpecifier(p) ==
    LET name == parseUserDefinedTypeName(p)
        given == currentToken(name) = "("
        arguments == IF given THEN Parsed("Arguments", next(name), << >>) ELSE Listed(name, << >>)
    IN createNode(IF given THEN expectToken(arguments, ")") ELSE arguments,
                  InheritanceSpecifier(name.node, given, arguments.list))

\* The visibility, mutability and modifiers of a function
RECURSIVE FunctionSpecifiers(_, _)
FunctionSpecifiers(p, header) ==
    LET t == currentToken(p)
        modifier == parseModifierInvocation(p)
    IN CASE isIdentifier(t) ->
                FunctionSpecifiers(modifier, [header EXCEPT !.modifiers = Append(@, modifier.node)])
         [] isVisibilitySpecifier(t) ->
                IF header.visibility # "default" THEN FunctionSpecifiers(next(parserError(p)), header)
                ELSE FunctionSpecifiers(next(p), [header EXCEPT !.visibility = t])
         [] isStateMutabilitySpecifier(t) ->
                IF header.stateMutability # "nonpayable" THEN FunctionSpecifiers(next(parserError(p)), header)
                ELSE FunctionSpecifiers(next(p), [header EXCEPT !.stateMutability = t])
         [] OTHER -> [state |-> p, header |-> header]

parseFunctionHeader(p) ==
    LET isConstructor == currentToken(p) = "constructor"
        start == next(p)
        unnamed == isConstructor \/ currentToken(start) = "("
        named == IF unnamed THEN start ELSE expectIdentifierToken(start)
        options == {"allowLocationSpecifier"}
        parameters == Parsed("ParameterList", named, <<options, TRUE>>)
        specified == FunctionSpecifiers(parameters,
                         [name |-> IF unnamed THEN "" ELSE LiteralBefore(named), visibility |-> "default",
                          stateMutability |-> "nonpayable", isConstructor |-> isConstructor,
                          parameters |-> parameters.list, modifiers |-> << >>, returnParameters |-> << >>])
        s == specified.state
        returned == Parsed("ParameterList", next(s), <<options, FALSE>>)
    IN IF currentToken(s) = "returns"
       THEN [state |-> returned, header |-> [specified.header EXCEPT !.returnParameters = returned.list]]
       ELSE specified

parseFunctionDefinition(p) ==
    LET parsed == Parsed("FunctionHeader", p, 0)
        body == IF currentToken(parsed.state) = ";" THEN Null(next(parsed.state)) ELSE Parsed("Block", parsed.state, 0)
    IN createNode(body, FunctionDefinition(parsed.header, body.node))

RECURSIVE StructMembers(_, _), EnumMembers(_, _)
StructMembers(p, members) ==
    LET member == Parsed("VariableDeclaration", p, <<{}, 0>>)
    IN IF p.fatal \/ currentToken(p) = "}" THEN Listed(p, members)
       ELSE StructMembers(expectToken(member, ";"), Append(members, member.node))

EnumMembers(p, members) ==
    LET named == expectIdentifierToken(p)
        value == createNode(named, EnumValue(LiteralBefore(named)))
        all == Append(members, value.node)
    IN IF value.fatal \/ currentToken(value) = "}" THEN Listed(value, all)
       ELSE EnumMembers(expectToken(value, ","), all)

parseStructDefinition(p) ==
    LET named == expectIdentifierToken(next(p))
        members == StructMembers(expectToken(named, "{"), << >>)
    IN createNode(expectToken(members, "}"), StructDefinition(LiteralBefore(named), members.list))

parseEnumDefinition(p) ==
    LET named == expectIdentifierToken(next(p))
        start == expectToken(named, "{")
        members == IF currentToken(start) = "}" THEN parserError(Listed(start, << >>)) ELSE EnumMembers(start, << >>)
    IN createNode(expectToken(members, "}"), EnumDefinition(LiteralBefore(named), members.list))

parseModifierDefinition(p) ==
    LET named == expectIdentifierToken(next(p))
        parameters == IF currentToken(named) = "("
                      THEN Parsed("ParameterList", named, <<{"allowIndexed", "allowLocationSpecifier"}, TRUE>>)
                      ELSE Listed(named, << >>)
        body == Parsed("Block", [parameters EXCEPT !.insideModifier = TRUE], 0)
    IN createNode([body EXCEPT !.insideModifier = FALSE],
                  ModifierDefinition(LiteralBefore(named), parameters.list, body.node))

parseEventDefinition(p) ==
    LET named == expectIdentifierToken(next(p))
        parameters == Parsed("ParameterList", named, <<{"allowIndexed"}, TRUE>>)
    IN createNode(expectToken(Optional(parameters, "anonymous"), ";"),
                  EventDefinition(LiteralBefore(named), parameters.list, currentToken(parameters) = "anonymous"))

parseStateVariable(p) ==
    expectToken(Parsed("VariableDeclaration", p, <<{"isStateVariable", "allowInitialValue"}, 0>>), ";")

parseSubNode(p) ==
    LET t == currentToken(p)
    IN CASE t \in {"function", "constructor"} -> parseFunctionDefinition(p)
         [] t = "struct" -> parseStructDefinition(p)
         [] t = "enum" -> parseEnumDefinition(p)
         [] t = "modifier" -> parseModifierDefinition(p)
         [] t = "event" -> parseEventDefinition(p)
         [] isIdentifier(t) \/ t = "mapping" \/ isElementaryTypeName(t) -> parseStateVariable(p)
         [] OTHER -> fatalParserError(p)

RECURSIVE SubNodes(_, _), BaseContracts(_, _), SourceNodes(_, _)
SubNodes(p, nodes) ==
    LET node == Parsed("SubNode", p, 0)
    IN IF p.fatal \/ currentToken(p) = "}" THEN Listed(p, nodes) ELSE SubNodes(node, Append(nodes, node.node))

BaseContracts(p, bases) ==
    LET base == Parsed("InheritanceSpecifier", next(p), 0)
    IN IF p.fatal \/ currentToken(p) \notin {"is", ","} THEN Listed(p, bases)
       ELSE BaseContracts(base, Append(bases, base.node))

parseContractDefinition(p) ==
    LET named == expectIdentifierToken(next(p))
        bases == IF currentToken(named) = "is" THEN BaseContracts(named, << >>) ELSE Listed(named, << >>)
        body == SubNodes(expectToken(bases, "{"), << >>)
    IN createNode(expectToken(body, "}"),
                  ContractDefinition(LiteralBefore(named), currentToken(p), bases.list, body.list))

SourceNodes(p, nodes) ==
    LET contract == Parsed("ContractDefinition", p, 0)
    IN CASE p.fatal -> p
         [] ~p.fatal /\ currentToken(p) = "EOS" -> createNode(p, SourceUnit(nodes))
         [] currentToken(p) \in {"contract", "interface", "library"} ->
                SourceNodes(contract, Append(nodes, contract.node))
         [] OTHER -> fatalParserError(p)

Parsed(rule, p, x) ==
    CASE rule = "SourceUnit" -> SourceNodes(p, << >>)
      [] rule = "ContractDefinition" -> parseContractDefinition(p)
      [] rule = "InheritanceSpecifier" -> parseInheritanceSpecifier(p)
      [] rule = "SubNode" -> parseSubNode(p)
      [] rule = "FunctionHeader" -> parseFunctionHeader(p)
      [] rule = "IndexAccessedPath" -> tryParseIndexAccessedPath(p)
      [] rule = "Path" -> parseIndexAccessedPath(p)
      [] rule = "Members" -> PathOf(p, x)
      [] rule = "Block" -> parseBlock(p)
      [] rule = "Statement" -> parseStatement(p)
      [] rule = "SimpleStatement" -> parseSimpleStatement(p)
      [] rule = "ExpressionStatement" -> parseExpressionStatement(p, x)
      [] rule = "ParameterList" -> parseParameterList(p, x[1], x[2])
      [] rule = "VariableDeclaration" -> parseVariableDeclaration(p, x[1], x[2])
      [] rule = "TypeName" -> parseTypeName(p)
      [] rule = "Expression" -> parseExpression(p, x)
      [] rule = "BinaryExpression" -> parseBinaryExpression(p, x[1], x[2])
      [] rule = "UnaryExpression" -> parseUnaryExpression(p, x)
      [] rule = "LeftHandSideExpression" -> parseLeftHandSideExpression(p, x)
      [] rule = "PrimaryExpression" -> parsePrimaryExpression(p)
      [] rule = "Arguments" -> parseFunctionCallListArguments(p, x)

\* Parser::parse: the nodes of which the last is the source unit; none after a
\* fatal error.
Parse(tokens) ==
    With(Parsed("SourceUnit", ParserState(tokens), 0),
         LAMBDA p : [nodes |-> IF p.fatal THEN << >> ELSE p.nodes, errors |-> p.errors])
=============================================================================
