---------------------------- MODULE YulStructure ----------------------------
(***************************************************************************)
(* The steps of the Yul optimiser that rearrange statements: declarations,  *)
(* functions, loops, nested blocks, dead code and empty branches; and the   *)
(* ones that remove or unify what is declared (UnusedPruner,                *)
(* EquivalentFunctionCombiner), that bring a program into the form where    *)
(* every value has a variable of its own, or that undo this.                *)
(***************************************************************************)
EXTENDS YulAst

RECURSIVE VarDeclInitializer(_)
VarDeclInitializer(block) ==
    Replacing(LAMBDA s :
        IF s.kind = "let" /\ s.exprs = << >>
        THEN MapSeq(LAMBDA x : VariableDeclaration(<<x>>, Literal(0)), s.names)
        ELSE <<[s EXCEPT !.blocks = MapSeq(LAMBDA b : VarDeclInitializer(b), @)]>>, block)

\* The block without its functions and the functions, those inside a function
\* in front of it.
RECURSIVE Hoist(_)
Hoist(block) ==
    LET Inside(s) == MapSeq(LAMBDA b : Hoist(b), s.blocks)
        Rest(s) == [s EXCEPT !.blocks = MapSeq(LAMBDA h : h.block, Inside(s))]
        Nested(s) == FlattenSeq(MapSeq(LAMBDA h : h.functions, Inside(s)))
        Own(s) == IF IsFunction(s) THEN <<Rest(s)>> ELSE << >>
        Kept(s) == IF IsFunction(s) THEN << >> ELSE <<Rest(s)>>
    IN [block |-> removeEmptyBlocks(Replacing(Kept, block)),
        functions |-> Replacing(LAMBDA s : Nested(s) \o Own(s), block)]

FunctionHoister(ast) == LET h == Hoist(ast) IN h.block \o h.functions

alreadyGrouped(block) ==
    /\ block # << >>
    /\ block[1].kind = "block"
    /\ \A n \in 2..Len(block) : IsFunction(block[n])

FunctionGrouper(ast) ==
    IF alreadyGrouped(ast) THEN ast
    ELSE <<Block(SelectSeq(ast, LAMBDA s : ~IsFunction(s)))>> \o SelectSeq(ast, IsFunction)

RECURSIVE ForLoopInitRewriter(_)
ForLoopInitRewriter(block) ==
    Replacing(LAMBDA s :
        LET r == [s EXCEPT !.blocks = MapSeq(LAMBDA b : ForLoopInitRewriter(b), @)]
        IN IF s.kind = "for" THEN Append(r.blocks[1], [r EXCEPT !.blocks[1] = << >>]) ELSE <<r>>,
        block)

RECURSIVE BlockFlattener(_)
BlockFlattener(block) ==
    Replacing(LAMBDA s :
        LET r == [s EXCEPT !.blocks = MapSeq(LAMBDA b : BlockFlattener(b), @)]
        IN IF s.kind = "block" THEN r.blocks[1] ELSE <<r>>, block)

\* What follows the first statement that leaves the block, functions apart.
RECURSIVE DeadCodeEliminator(_)
DeadCodeEliminator(block) ==
    LET leaves == {n \in DOMAIN block : controlFlowKind(block[n]) # "FlowOut"}
        index == CHOOSE n \in leaves : \A m \in leaves : n <= m
        kept == IF leaves = {} THEN block
                ELSE SubSeq(block, 1, index)
                     \o SelectSeq(SubSeq(block, index + 1, Len(block)), IsFunction)
    IN MapSeq(LAMBDA s : [s EXCEPT !.blocks = MapSeq(LAMBDA b : DeadCodeEliminator(b), @)], kept)

-----------------------------------------------------------------------------
(* ControlFlowSimplifier *)

makePopExpressionStatement(e) == ExpressionStatement(Builtin("POP", <<e>>))

\* The cases of a switch that keep(value, body).
Cases(s, keep(_, _)) ==
    LET ns == SelectSeq([n \in DOMAIN s.values |-> n], LAMBDA n : keep(s.values[n], s.blocks[n]))
    IN [s EXCEPT !.values = MapSeq(LAMBDA n : s.values[n], ns),
                 !.blocks = MapSeq(LAMBDA n : s.blocks[n], ns)]

removeEmptyDefaultFromSwitch(s) == Cases(s, LAMBDA v, body : v # Default \/ body # << >>)

removeEmptyCasesFromSwitch(s) ==
    IF Default \in Range(s.values) THEN s ELSE Cases(s, LAMBDA v, body : body # << >>)

reduceNoCaseSwitch(s) == <<makePopExpressionStatement(s.exprs[1])>>

reduceSingleCaseSwitch(s) ==
    IF s.values[1] # Default
    THEN <<If(Builtin("EQ", <<Literal(s.values[1]), s.exprs[1]>>), s.blocks[1])>>
    ELSE <<makePopExpressionStatement(s.exprs[1]), Block(s.blocks[1])>>

\* m_numBreakStatements and m_numContinueStatements: the jumps out of the body
\* of a loop that belong to it.
RECURSIVE Jumps(_)
Jumps(block) ==
    Total([n \in DOMAIN block |->
             CASE block[n].kind \in {"break", "continue"} -> 1
               [] block[n].kind = "for" -> 0
               [] OTHER -> Total(MapSeq(LAMBDA b : Jumps(b), block[n].blocks))])

\* A loop whose body always leaves it at its end, and nowhere else.
LoopToIf(loop) ==
    LET body == loop.blocks[2]
        kind == IF body = << >> THEN "FlowOut" ELSE controlFlowKind(body[Len(body)])
    IN CASE kind = "Break" /\ Jumps(body) = 1 -> If(loop.exprs[1], SubSeq(body, 1, Len(body) - 1))
         [] kind = "Terminate" /\ Jumps(body) = 0 -> If(loop.exprs[1], body)
         [] OTHER -> loop

RECURSIVE ControlFlowSimplifier(_)
ControlFlowSimplifier(block) ==
    LET Inside(s) == [s EXCEPT !.blocks = MapSeq(LAMBDA b : ControlFlowSimplifier(b), @)]
        Simplify(s) ==
            CASE s.kind = "if" /\ s.blocks[1] = << >> ->
                    ControlFlowSimplifier(<<makePopExpressionStatement(s.exprs[1])>>)
              [] s.kind = "switch" ->
                    LET r == removeEmptyCasesFromSwitch(removeEmptyDefaultFromSwitch(s))
                    IN CASE Len(r.values) = 0 -> ControlFlowSimplifier(reduceNoCaseSwitch(r))
                         [] Len(r.values) = 1 -> ControlFlowSimplifier(reduceSingleCaseSwitch(r))
                         [] OTHER -> <<Inside(r)>>
              [] s.kind = "for" -> <<LoopToIf(Inside(s))>>
              [] OTHER -> <<Inside(s)>>
    IN Replacing(Simplify, block)

-----------------------------------------------------------------------------
(* SyntacticallyEqual: the same but for the names that both declare, which  *)
(* are numbered (m_identifiersLHS, m_identifiersRHS).                       *)

NoIds == [lhs |-> << >>, rhs |-> << >>, count |-> 0]

identifierEqual(x, y, ids) ==
    \/ x \notin DOMAIN ids.lhs /\ y \notin DOMAIN ids.rhs /\ x = y
    \/ x \in DOMAIN ids.lhs /\ y \in DOMAIN ids.rhs /\ ids.lhs[x] = ids.rhs[y]

RECURSIVE expressionEqual(_, _, _)
expressionEqual(e, f, ids) ==
    /\ e.kind = f.kind
    /\ e.value = f.value
    /\ e.kind # "literal" => identifierEqual(e.name, f.name, ids)
    /\ Len(e.arguments) = Len(f.arguments)
    /\ \A n \in DOMAIN e.arguments : expressionEqual(e.arguments[n], f.arguments[n], ids)

RECURSIVE visitDeclarations(_, _, _)
visitDeclarations(xs, ys, ids) ==
    IF xs = << >> THEN ids
    ELSE visitDeclarations(Tail(xs), Tail(ys),
            [lhs |-> (Head(xs) :> ids.count) @@ ids.lhs,
             rhs |-> (Head(ys) :> ids.count) @@ ids.rhs, count |-> ids.count + 1])

\* The numbers after the comparison; equal is FALSE if something differs.
RECURSIVE CompareBlocks(_, _, _)
RECURSIVE CompareStatements(_, _, _)

CompareStatements(s, t, r) ==
    LET ids == r.ids
        same == /\ r.equal /\ s.kind = t.kind
                /\ Len(s.names) = Len(t.names) /\ Len(s.returns) = Len(t.returns)
                /\ Len(s.exprs) = Len(t.exprs) /\ Len(s.blocks) = Len(t.blocks)
                /\ Range(s.values) = Range(t.values)
                /\ \A n \in DOMAIN s.exprs : expressionEqual(s.exprs[n], t.exprs[n], ids)
                /\ s.kind = "assignment" =>
                        \A n \in DOMAIN s.names : identifierEqual(s.names[n], t.names[n], ids)
        declared == CASE s.kind = "let" -> visitDeclarations(s.names, t.names, ids)
                      [] s.kind = "function" -> visitDeclarations(Parameters(s) \o s.returns,
                                                                  Parameters(t) \o t.returns, ids)
                      [] OTHER -> ids
        \* the cases of a switch are compared in the order of their values
        CaseOf(u, v) == u.blocks[CHOOSE n \in DOMAIN u.values : u.values[n] = v]
        order == SetToSortSeq(Range(s.values), <)
        start == [equal |-> same, ids |-> IF same THEN declared ELSE ids]
    IN IF ~same THEN start
       ELSE IF s.kind = "switch"
       THEN FoldLeft(LAMBDA q, v : CompareBlocks(CaseOf(s, v), CaseOf(t, v), q), start, order)
       ELSE FoldLeft(LAMBDA q, n : CompareBlocks(s.blocks[n], t.blocks[n], q), start,
                     [n \in DOMAIN s.blocks |-> n])

CompareBlocks(b, c, r) ==
    IF Len(b) # Len(c) THEN [r EXCEPT !.equal = FALSE]
    ELSE FoldLeft(LAMBDA q, n : CompareStatements(b[n], c[n], q), r, [n \in DOMAIN b |-> n])

SyntacticallyEqual(s, t) == CompareStatements(s, t, [equal |-> TRUE, ids |-> NoIds]).equal

\* EquivalentFunctionDetector: every function that equals an earlier one, which
\* is not itself a duplicate.  Equal functions have equal hashes (BlockHasher).
Duplicates(ast) ==
    LET functions == SelectSeq(ast, IsFunction)
        First(n) == CHOOSE m \in 1..n :
                        /\ SyntacticallyEqual(functions[m], functions[n])
                        /\ \A k \in 1..(m - 1) : ~SyntacticallyEqual(functions[k], functions[n])
    IN [f \in {functions[n].names[1] : n \in DOMAIN functions} |->
            functions[First(CHOOSE n \in DOMAIN functions : functions[n].names[1] = f)].names[1]]

RECURSIVE RenameCalls(_, _)
RenameCalls(e, duplicates) ==
    [e EXCEPT !.name = IF e.kind = "call" /\ @ \in DOMAIN duplicates THEN duplicates[@] ELSE @,
              !.arguments = MapSeq(LAMBDA a : RenameCalls(a, duplicates), @)]

RECURSIVE CombineIn(_, _)
CombineIn(block, duplicates) ==
    MapSeq(LAMBDA s : [s EXCEPT !.exprs = MapSeq(LAMBDA e : RenameCalls(e, duplicates), @),
                                !.blocks = MapSeq(LAMBDA b : CombineIn(b, duplicates), @)], block)

EquivalentFunctionCombiner(ast) == CombineIn(ast, Duplicates(ast))

-----------------------------------------------------------------------------
(* UnusedPruner.  references is a function from names to how often they are *)
(* still referred to; again is m_shouldRunAgain.                            *)

\* All names that a block, an expression refers to
RECURSIVE NamesInBlock(_)
NamesInBlock(block) ==
    UNION {Range(s.names) \cup Range(s.returns)
           \cup UNION {{c.name : c \in SubExpressions(s.exprs[n])} : n \in DOMAIN s.exprs} :
           s \in Statements(block)}

Pruning(block) ==
    [references |-> [x \in NamesInBlock(block) |-> References(block, x)], again |-> FALSE]

\* subtractReferences; an assertion fails if there are fewer.
Subtract(p, count(_)) ==
    [references |-> [x \in DOMAIN p.references |-> p.references[x] - count(x)],
     again |-> p.again \/ \E x \in DOMAIN p.references : count(x) > 0]

Unreferenced(p, x) == x \notin DOMAIN p.references \/ p.references[x] = 0

PruneStatement(s, p, allowMSize) ==
    CASE IsFunction(s) /\ Unreferenced(p, s.names[1]) ->
            Copy(<< >>, Subtract(p, LAMBDA x : References(s.blocks[1], x)))
      [] s.kind = "let" /\ (\A n \in DOMAIN s.names : Unreferenced(p, s.names[n])) ->
            CASE s.exprs = << >> -> Copy(<< >>, p)
              [] s.exprs # << >> /\ SideEffectFree(s.exprs[1], allowMSize) ->
                    Copy(<< >>, Subtract(p, LAMBDA x : ReferencesInExpression(s.exprs[1], x)))
              [] s.exprs # << >> /\ ~SideEffectFree(s.exprs[1], allowMSize) /\ Len(s.names) = 1 ->
                    Copy(<<makePopExpressionStatement(s.exprs[1])>>, p)
              [] OTHER -> Copy(<<s>>, p)
      [] s.kind = "expression" /\ SideEffectFree(s.exprs[1], allowMSize) ->
            Copy(<< >>, Subtract(p, LAMBDA x : ReferencesInExpression(s.exprs[1], x)))
      [] OTHER -> Copy(<<s>>, p)

\* A block: first its statements, then the blocks inside those that are left
\* (the post block of a loop before its body).
RECURSIVE PruneBlock(_, _, _)
PruneBlock(block, p, allowMSize) ==
    With(FoldLeft(LAMBDA acc, s :
                    With(PruneStatement(s, acc.st, allowMSize), LAMBDA r :
                        Copy(acc.node \o r.node, r.st)), Copy(<< >>, p), block), LAMBDA own :
    LET Order(s) == IF s.kind = "for" THEN <<1, 3, 2>> ELSE [n \in DOMAIN s.blocks |-> n]
        Inside(s, q) == FoldLeft(LAMBDA acc, n :
                          With(PruneBlock(acc.node.blocks[n], acc.st, allowMSize), LAMBDA r :
                              Copy([acc.node EXCEPT !.blocks[n] = r.node], r.st)),
                          Copy(s, q), Order(s))
    IN FoldLeft(LAMBDA acc, s : With(Inside(s, acc.st), LAMBDA r :
                                    Copy(Append(acc.node, r.node), r.st)),
                Copy(<< >>, own.st), removeEmptyBlocks(own.node)))

RECURSIVE PruneUntilStabilised(_, _)
PruneUntilStabilised(block, allowMSize) ==
    With(PruneBlock(block, Pruning(block), allowMSize), LAMBDA r :
        IF r.st.again THEN PruneUntilStabilised(r.node, allowMSize) ELSE r.node)

\* runUntilStabilised of a block: what it may remove depends on whether this
\* very block contains MSIZE.
UnusedPruner(ast) == PruneUntilStabilised(ast, ~ContainsMSize(ast))

-----------------------------------------------------------------------------
(* The steps that split expressions into declarations and give every        *)
(* assigned value a variable of its own, and the ones that undo both.       *)

\* Applies step(x, st) to the elements in turn; the copies in node.
MapState(step(_, _), seq, st) ==
    FoldLeft(LAMBDA acc, x : With(step(x, acc.st), LAMBDA r :
                                 Copy(Append(acc.node, r.node), r.st)),
             Copy(<< >>, st), seq)

\* ... from the last one to the first one, the order of evaluation
MapStateReversed(step(_, _), seq, st) ==
    FoldRight(LAMBDA x, acc : With(step(x, acc.st), LAMBDA r :
                                  Copy(<<r.node>> \o acc.node, r.st)),
              seq, Copy(<< >>, st))

\* iterateReplacing with a state: step returns a list in node.
ReplacingState(step(_, _), seq, st) ==
    With(MapState(step, seq, st), LAMBDA r :
        Copy(FlattenSeq(r.node), r.st))

-----------------------------------------------------------------------------
(* ExpressionSplitter.  st: the dispenser and m_statementsToPrefix. *)

RECURSIVE outlineExpression(_, _)
SplitArguments(e, st) ==
    With(MapStateReversed(outlineExpression, e.arguments, st), LAMBDA r :
        Copy([e EXCEPT !.arguments = r.node], r.st))

outlineExpression(e, st) ==
    IF e.kind = "identifier" THEN Copy(e, st)
    ELSE With(SplitArguments(e, st), LAMBDA split :
         With(newName(split.st.d, <<"">>), LAMBDA new :
             Copy(Identifier(new.name),
                  [d |-> new.d,
                   prefix |-> Append(split.st.prefix, VariableDeclaration(<<new.name>>, split.node))])))

\* The statement behind the declarations that its expressions need.
RECURSIVE SplitBlock(_, _)
SplitStatement(s, d) ==
    LET none == [d |-> d, prefix |-> << >>]
    IN With(CASE s.kind \in {"if", "switch"} -> MapState(outlineExpression, s.exprs, none)
              [] s.kind = "for" -> Copy(s.exprs, none)
              [] OTHER -> MapState(SplitArguments, s.exprs, none), LAMBDA own :
    LET order == IF s.kind = "for" THEN <<1, 3, 2>> ELSE [n \in DOMAIN s.blocks |-> n]
    IN With(FoldLeft(LAMBDA acc, n :
                      With(SplitBlock(acc.node.blocks[n], acc.st), LAMBDA r :
                          Copy([acc.node EXCEPT !.blocks[n] = r.node], r.st)),
                      Copy([s EXCEPT !.exprs = own.node], own.st.d), order), LAMBDA inside :
        Copy(Append(own.st.prefix, inside.node), inside.st)))
SplitBlock(block, d) == ReplacingState(SplitStatement, block, d)

\* ExpressionSplitter: the tree in node, the dispenser in st
ExpressionSplitter(ast, d) == SplitBlock(ast, d)

-----------------------------------------------------------------------------
(* ExpressionJoiner.  st: the block, the index of the latest statement in   *)
(* it that is not used up (0: none), and the references of the program.     *)

isLatestStatementVarDeclJoinable(x, st) ==
    /\ st.latest > 0
    /\ LET s == st.block[st.latest]
       IN s.kind = "let" /\ Len(s.names) = 1 /\ s.exprs # << >> /\ s.names[1] = x
    /\ st.references[x] = 1

RECURSIVE JoinExpression(_, _)
handleArguments(e, st) ==
    LET args == e.arguments
        complex == {n \in DOMAIN args : args[n].kind = "call"}
        first == IF complex = {} THEN 1 ELSE CHOOSE n \in complex : \A m \in complex : m <= n
    IN With(MapState(JoinExpression, SubSeq(args, first, Len(args)), st), LAMBDA r :
        Copy([e EXCEPT !.arguments = SubSeq(args, 1, first - 1) \o r.node], r.st))

JoinExpression(e, st) ==
    CASE e.kind = "identifier" /\ isLatestStatementVarDeclJoinable(e.name, st) ->
            Copy(st.block[st.latest].exprs[1],
                 [st EXCEPT !.block[st.latest] = EmptyBlock, !.latest = @ - 1])
      [] e.kind = "call" -> handleArguments(e, st)
      [] OTHER -> Copy(e, st)

RECURSIVE JoinBlock(_, _)
JoinStatement(st, n) ==
    LET s == st.block[n]
        \* the blocks of a loop come before its condition
    IN With(IF s.kind = "for" THEN Copy(s.exprs, st) ELSE MapState(JoinExpression, s.exprs, st), LAMBDA r :
    LET joined == [s EXCEPT !.exprs = r.node,
                            !.blocks = MapSeq(LAMBDA b : JoinBlock(b, st.references), @)]
    IN [r.st EXCEPT !.block[n] = joined, !.latest = n])
JoinBlock(block, references) ==
    removeEmptyBlocks(
        FoldLeft(JoinStatement, [block |-> block, latest |-> 0, references |-> references],
                 [n \in DOMAIN block |-> n]).block)

ExpressionJoiner(ast) == JoinBlock(ast, Pruning(ast).references)

-----------------------------------------------------------------------------
(* SSATransform.  st: the dispenser and m_currentVariableValues. *)

RECURSIVE CurrentValues(_, _)
CurrentValues(e, current) ==
    [e EXCEPT !.name = IF e.kind = "identifier" /\ @ \in DOMAIN current THEN current[@] ELSE @,
              !.arguments = MapSeq(LAMBDA a : CurrentValues(a, current), @)]

Forget(current, names) == [x \in DOMAIN current \ names |-> current[x]]

\* let a1, b1 := v and then a := a1, b := b1 (or let a := a1, let b := b1)
SplitDefinition(s, e, st) ==
    With(newNames(st.d, s.names), LAMBDA new :
    LET Define(n) == [s EXCEPT !.names = <<s.names[n]>>, !.exprs = <<Identifier(new.names[n])>>]
    IN Copy(<<[Uninitialised(new.names) EXCEPT !.exprs = e]>> \o [n \in DOMAIN s.names |-> Define(n)],
            [d |-> new.d,
             current |-> [x \in DOMAIN st.current \cup Range(s.names) |->
                            IF x \in Range(s.names)
                            THEN new.names[CHOOSE n \in DOMAIN s.names : s.names[n] = x]
                            ELSE st.current[x]]]))

RECURSIVE SSABlock(_, _, _)
SSAStatement(s, st, variablesToReplace) ==
    LET exprs == MapSeq(LAMBDA e : CurrentValues(e, st.current), s.exprs)
        r == [s EXCEPT !.exprs = exprs]
        Inside(t, from, order) ==
            FoldLeft(LAMBDA acc, n :
                With(SSABlock(acc.node.blocks[n], acc.st, variablesToReplace), LAMBDA b :
                    Copy([acc.node EXCEPT !.blocks[n] = b.node], b.st)), Copy(t, from), order)
    IN CASE s.kind = "assignment"
            \/ (s.kind = "let" /\ Range(s.names) \cap variablesToReplace # {}) ->
                SplitDefinition(s, exprs, st)
         [] s.kind = "for" ->
                With(Inside(s, st, <<1>>), LAMBDA pre :
                With(Forget(pre.st.current, AssignedNames(s.blocks[2]) \cup AssignedNames(s.blocks[3])), LAMBDA current :
                With(Inside([pre.node EXCEPT !.exprs = MapSeq(LAMBDA e : CurrentValues(e, current), @)],
                            [pre.st EXCEPT !.current = current], <<2, 3>>), LAMBDA loop :
                    Copy(<<loop.node>>, loop.st))))
         [] OTHER -> With(Inside(r, st, [n \in DOMAIN s.blocks |-> n]), LAMBDA i :
                         Copy(<<i.node>>, i.st))

\* The variables that get a value in a block have none after it.
DefinedIn(block, variablesToReplace) ==
    UNION {CASE s.kind = "assignment" -> Range(s.names)
             [] s.kind = "let" /\ Range(s.names) \cap variablesToReplace # {} -> Range(s.names)
             [] OTHER -> {} : s \in Range(block)}

SSABlock(block, st, variablesToReplace) ==
    With(ReplacingState(LAMBDA s, q : SSAStatement(s, q, variablesToReplace), block, st), LAMBDA r :
        Copy(r.node, [r.st EXCEPT !.current = Forget(@, DefinedIn(block, variablesToReplace))]))

SSATransform(ast, d) ==
    With(SSABlock(ast, [d |-> d, current |-> << >>], AssignedNames(ast)), LAMBDA r :
        Copy(r.node, r.st.d))

-----------------------------------------------------------------------------
(* SSAReverser: let a1 := e  a := a1 becomes a := e  let a1 := a. *)

RECURSIVE ReverseWindow(_, _)
ReverseWindow(block, ast) ==
    IF Len(block) < 2 THEN block
    ELSE LET s == block[1]
             t == block[2]
             applies ==
                /\ s.kind = "let" /\ Len(s.names) = 1 /\ s.exprs # << >>
                /\ t.kind \in {"assignment", "let"} /\ Len(t.names) = 1
                /\ t.exprs # << >> /\ t.exprs[1] = Identifier(s.names[1])
                /\ t.kind = "let" => assignmentCount(ast, t.names[1]) > assignmentCount(ast, s.names[1])
         IN IF applies
            THEN <<[t EXCEPT !.exprs = s.exprs], VariableDeclaration(s.names, Identifier(t.names[1]))>>
                 \o ReverseWindow(SubSeq(block, 3, Len(block)), ast)
            ELSE <<s>> \o ReverseWindow(Tail(block), ast)

RECURSIVE ReverseBlock(_, _)
ReverseBlock(block, ast) ==
    ReverseWindow(MapSeq(LAMBDA s : [s EXCEPT !.blocks = MapSeq(LAMBDA b : ReverseBlock(b, ast), @)],
                         block), ast)

SSAReverser(ast) == ReverseBlock(ast, ast)
=============================================================================
