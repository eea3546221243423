-------------------------- MODULE ControlFlowBuilder --------------------------
(***************************************************************************)
(* The control flow graph of a function, built from its syntax tree         *)
(* (ControlFlowBuilder.cpp, CFG of ControlFlowGraph.cpp), and what the      *)
(* ControlFlowAnalyzer finds in it.  The analysis is written as the fixed   *)
(* point that module ControlFlowAnalyzer shows its worklist to compute in   *)
(* any order.  The locations of nodes, which only warnings need, are left   *)
(* out here: module UnreachableCode is about them.                          *)
(***************************************************************************)
EXTENDS TypeChecker

\* FunctionFlow: the first three nodes of every graph
entry == 1
exit == 2
revert == 3

CFGNode == [exits |-> {}, variableOccurrences |-> << >>]

\* The members of ControlFlowBuilder; 0 is nullptr.
NewBuilder(p) ==
    [p |-> p, nodes |-> <<CFGNode, CFGNode, CFGNode>>, current |-> entry, returnNode |-> exit, revertNode |-> revert,
     breakJump |-> 0, continueJump |-> 0, placeholderEntry |-> 0, placeholderExit |-> 0]

connect(b, from, to) == [b EXCEPT !.nodes[from].exits = @ \cup {to}]

newLabels(b, n) == [b EXCEPT !.nodes = @ \o [i \in 1..n |-> CFGNode]]
Label(b, i) == Len(b.nodes) + i   \* the i-th label that is still to be made

placeAndConnectLabel(b, label) == [connect(b, b.current, label) EXCEPT !.current = label]
createLabelHere(b) == placeAndConnectLabel(newLabels(b, 1), Label(b, 1))

\* The flow after a jump goes on at a label that nothing leads to yet.
LeaveTo(b, label) == [newLabels(connect(b, b.current, label), 1) EXCEPT !.current = Label(b, 1)]

Occurs(b, node, declaration, kind) ==
    [b EXCEPT !.nodes[node].variableOccurrences = Append(@, [declaration |-> declaration, kind |-> kind])]

RECURSIVE appendControlFlow(_, _)
listAccept(b, ids) == FoldLeft(LAMBDA c, id : appendControlFlow(c, id), b, ids)

\* Mutant of Branches: nothing goes past the first branch.
BranchesTakenBoth(b, first, second) ==
    With(placeAndConnectLabel(newLabels(b, 1), Label(b, 1)), LAMBDA c :
         createLabelHere(listAccept(appendControlFlow(c, first), Given(second))))

\* splitFlow and mergeFlow: two paths from here, with a node in one of them or in both;
\* they meet behind the second one, or in the second one if nothing is in it.
Branches(b, first, second) ==
    LET nodes == <<Label(b, 1), Label(b, 2)>>
        split == connect(connect(newLabels(b, 2), b.current, nodes[1]), b.current, nodes[2])
        firstFlow == appendControlFlow([split EXCEPT !.current = nodes[1]], first)
        secondFlow == With(firstFlow, LAMBDA c : appendControlFlow([c EXCEPT !.current = nodes[2]], second))
    IN IF second = 0 THEN placeAndConnectLabel(firstFlow, nodes[2])
       ELSE With(secondFlow, LAMBDA c :
                 placeAndConnectLabel(connect(newLabels(c, 1), firstFlow.current, Label(c, 1)), Label(c, 1)))

\* BreakContinueScope
InLoop(b, breakJump, continueJump, body) ==
    [appendControlFlow([b EXCEPT !.breakJump = breakJump, !.continueJump = continueJump], body)
     EXCEPT !.breakJump = b.breakJump, !.continueJump = b.continueJump]

forFlow(b, n) ==
    LET condition == createLabelHere(listAccept(b, Given(n.init)))
        tested == listAccept(condition, Given(n.condition))
        Loop(c) ==
            LET loopExpression == Label(c, 1)
                afterFor == Label(c, 3)
                split == connect(placeAndConnectLabel(newLabels(c, 3), Label(c, 2)), c.current, afterFor)
                body == InLoop(split, afterFor, loopExpression, n.body)
            IN With(listAccept(placeAndConnectLabel(body, loopExpression), Given(n.loop)), LAMBDA d :
                    [connect(d, d.current, condition.current) EXCEPT !.current = afterFor])
    IN With(tested, Loop)

doWhileFlow(b, n) ==
    LET afterWhile == Label(b, 1)
        condition == Label(b, 3)
        whileBody == newLabels(createLabelHere(newLabels(b, 1)), 1)
        tested == appendControlFlow(placeAndConnectLabel(InLoop(whileBody, afterWhile, condition, n.body), condition), n.condition)
    IN With(tested, LAMBDA c : placeAndConnectLabel(connect(c, c.current, whileBody.current), afterWhile))

whileFlow(b, n) ==
    LET whileCondition == createLabelHere(b)
        tested == appendControlFlow(whileCondition, n.condition)
        Loop(c) ==
            LET afterWhile == Label(c, 2)
                split == connect(placeAndConnectLabel(newLabels(c, 2), Label(c, 1)), c.current, afterWhile)
            IN With(InLoop(split, afterWhile, whileCondition.current, n.body), LAMBDA d :
                    [connect(d, d.current, whileCondition.current) EXCEPT !.current = afterWhile])
    IN With(tested, Loop)

\* The flow goes to where the function is, and comes back.
placeholderFlow(b) ==
    With([newLabels(connect(b, b.current, b.placeholderEntry), 1) EXCEPT !.current = Label(b, 1)], LAMBDA c :
         connect(c, b.placeholderExit, c.current))

functionCallFlow(b, id) ==
    LET n == b.p.nodes[id]
        t == b.p.type[n.expression]
        visited == listAccept(b, <<n.expression>> \o n.arguments)
    IN CASE t.category = "Function" /\ t.kind = "Revert" -> LeaveTo(visited, b.revertNode)
         [] t.category = "Function" /\ t.kind \in {"Require", "Assert"} ->
                With(visited, LAMBDA c : createLabelHere(connect(c, c.current, b.revertNode)))
         [] OTHER -> visited

\* The modifier that the name means where it is used, around all that follows
modifierInvocationFlow(b, n) ==
    LET definition == b.p.ref[n.name]
        arguments == listAccept(b, n.arguments)
        Modified(c) ==
            LET outer == [newLabels(c, 2) EXCEPT !.placeholderEntry = Label(c, 1), !.placeholderExit = Label(c, 2)]
            IN With(appendControlFlow(outer, definition), LAMBDA d :
                    [connect(d, d.current, d.returnNode) EXCEPT !.current = Label(c, 1), !.returnNode = Label(c, 2),
                                                                !.placeholderEntry = 0, !.placeholderExit = 0])
    IN IF b.p.nodes[definition].kind = "ModifierDefinition" THEN With(arguments, Modified) ELSE arguments

\* Return parameters are returned at the exit.
functionFlow(b, n) ==
    LET parameters == listAccept(b, n.parameters)
        declared == FoldLeft(LAMBDA c, r : Occurs(appendControlFlow(c, r), c.returnNode, r, "Return"), parameters, n.returnParameters)
    IN With(listAccept(declared, n.modifiers \o <<n.body>>), LAMBDA c : connect(c, c.current, c.returnNode))

\* Values that are returned are assigned to the return parameters.
returnFlow(b, id) ==
    LET n == b.p.nodes[id]
        assigned == FoldLeft(LAMBDA c, r : Occurs(c, c.current, r, "Assignment"), listAccept(b, Given(n.expression)),
                             IF n.expression = 0 THEN << >> ELSE b.p.nodes[b.p.returns[id]].returnParameters)
    IN LeaveTo(assigned, b.returnNode)

\* Parameters come with values.
variableFlow(b, id) ==
    LET n == b.p.nodes[id]
        declared == Occurs(b, b.current, id, "Declaration")
    IN listAccept(IF n.value # 0 \/ (isCallableParameter(b.p, id) /\ ~isReturnParameter(b.p, id))
                  THEN Occurs(declared, b.current, id, "Assignment") ELSE declared,
                  Children(n))

\* Mutant of declarationFlow: the value is not taken for an assignment.
declarationFlowOnly(b, n) == listAccept(b, NotNull(n.variables) \o Given(n.value))

declarationFlow(b, n) ==
    LET variables == NotNull(n.variables)
    IN FoldLeft(LAMBDA c, v : Occurs(c, c.current, v, "Assignment"), listAccept(b, variables \o Given(n.value)),
                IF n.value = 0 THEN << >> ELSE variables)

\* Wherever a value is assigned to a variable, it counts as assigned from there on.
identifierFlow(b, id) ==
    IF b.p.nodes[b.p.ref[id]].kind # "VariableDeclaration" THEN b
    ELSE Occurs(b, b.current, b.p.ref[id], IF id \in b.p.lValueRequested THEN "Assignment" ELSE "Access")

appendControlFlow(b, id) ==
    LET n == b.p.nodes[id]
    IN CASE n.kind = "BinaryOperation" /\ n.op \in {"&&", "||"} -> Branches(appendControlFlow(b, n.left), n.right, 0)
         [] n.kind = "Conditional" -> Branches(appendControlFlow(b, n.condition), n.trueExpression, n.falseExpression)
         [] n.kind = "IfStatement" -> Branches(appendControlFlow(b, n.condition), n.trueBody, n.falseBody)
         [] n.kind = "ForStatement" -> forFlow(b, n)
         [] n.kind = "WhileStatement" -> IF n.isDoWhile THEN doWhileFlow(b, n) ELSE whileFlow(b, n)
         [] n.kind = "Break" -> LeaveTo(b, b.breakJump)
         [] n.kind = "Continue" -> LeaveTo(b, b.continueJump)
         [] n.kind = "PlaceholderStatement" -> placeholderFlow(b)
         [] n.kind = "FunctionCall" -> functionCallFlow(b, id)
         [] n.kind = "ModifierInvocation" -> modifierInvocationFlow(b, n)
         [] n.kind = "FunctionDefinition" -> functionFlow(b, n)
         [] n.kind = "Return" -> returnFlow(b, id)
         [] n.kind = "VariableDeclaration" -> variableFlow(b, id)
         [] n.kind = "VariableDeclarationStatement" -> declarationFlow(b, n)
         [] n.kind = "Identifier" -> identifierFlow(b, id)
         [] OTHER -> listAccept(b, Children(n))

createFunctionFlow(p, function) == appendControlFlow(NewBuilder(p), function).nodes

-----------------------------------------------------------------------------
(* The analysis *)

dataStoredInStorage(t) == t.category = "Mapping" \/ (isReference(t) /\ t.location = "storage")

\* What the occurrences of a node do: the variables without a value behind them, and
\* whether there is, or was on the way here, a use of one
ScanNode(p, node, info) ==
    FoldLeft(LAMBDA i, o :
                 CASE o.kind = "Assignment" -> [i EXCEPT !.unassigned = @ \ {o.declaration}]
                   [] o.kind = "Declaration" -> [i EXCEPT !.unassigned = @ \cup {o.declaration}]
                   [] o.kind \in {"Access", "Return"} ->
                        [i EXCEPT !.accessed = @ \/ (o.declaration \in i.unassigned /\ dataStoredInStorage(p.type[o.declaration]))],
             info, node.variableOccurrences)

NothingKnown == [unassigned |-> {}, accessed |-> FALSE]

\* A node is taken up only if it has been told something.
RECURSIVE Propagated(_, _, _)
Propagated(p, nodes, infos) ==
    LET traversed == {n \in DOMAIN nodes : n = entry \/ infos[n] # NothingKnown}
        scanned == [n \in traversed |-> ScanNode(p, nodes[n], infos[n])]
        from == [n \in DOMAIN nodes |-> {scanned[m] : m \in {k \in traversed : n \in nodes[k].exits}}]
        learned == [n \in DOMAIN nodes |->
                       [unassigned |-> infos[n].unassigned \cup UNION {i.unassigned : i \in from[n]},
                        accessed |-> infos[n].accessed \/ \E i \in from[n] : i.accessed]]
    IN IF learned = infos THEN scanned ELSE Propagated(p, nodes, learned)

\* An access is only an error if the exit can still be reached.
checkUninitializedAccess(p, function) ==
    With(createFunctionFlow(p, function), LAMBDA nodes :
         With(Propagated(p, nodes, [n \in DOMAIN nodes |-> NothingKnown]), LAMBDA infos :
              exit \in DOMAIN infos /\ infos[exit].accessed))

ImplementedFunctions(p, contract) ==
    SelectSeq(MembersOf(p, contract, "FunctionDefinition"), LAMBDA f : p.nodes[f].body # 0)

\* Both analyses of ControlFlowAnalyzer::visit; the other one only warns.
analyzeControlFlow(p, contract) ==
    FoldLeft(LAMBDA q, f : [q EXCEPT !.errors = @ + Bool(checkUninitializedAccess(q, f))],
             p, ImplementedFunctions(p, contract))
=============================================================================
