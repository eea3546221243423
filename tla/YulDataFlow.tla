---------------------------- MODULE YulDataFlow ----------------------------
(***************************************************************************)
(* DataFlowAnalyzer of the Yul optimiser and the steps derived from it:     *)
(* CommonSubexpressionEliminator, ExpressionSimplifier (with                *)
(* SimplificationRules), StructuralSimplifier, Rematerialiser and the       *)
(* RematCandidateSelector of StackCompressor; the two inliners, the         *)
(* RedundantAssignEliminator applied to whole programs, and the             *)
(* ConstantOptimiser.                                                       *)
(*                                                                         *)
(* The members of the analyzer are a record st:                             *)
(*   value       m_value; variables with a known movable value              *)
(*   references  m_references, whose inverse is m_referencedBy              *)
(*   scopes      m_variableScopes, the innermost one last                   *)
(*   client      which derived class it is                                  *)
(*   revisit     whether clearValues meets the names again that it inserts  *)
(*               into the set it iterates over, which depends on their      *)
(*               hashes                                                     *)
(*   counts      m_referenceCounts of Rematerialiser, m_numReferences of    *)
(*               RematCandidateSelector                                     *)
(*   always      m_varsToAlwaysRematerialize                                *)
(*   costs       m_expressionCodeCost                                       *)
(*   rules       SimplificationRules                                        *)
(*   failed      whether an assertion has failed                            *)
(***************************************************************************)
EXTENDS YulStructure

Analyzer(client, revisit) ==
    [value |-> << >>, references |-> << >>, scopes |-> << >>, client |-> client,
     revisit |-> revisit, counts |-> << >>, always |-> {}, costs |-> << >>,
     rules |-> RulesOf, failed |-> FALSE]

Put(f, keys, v) == [x \in DOMAIN f \cup keys |-> IF x \in keys THEN v ELSE f[x]]
Drop(f, keys) == [x \in DOMAIN f \ keys |-> f[x]]
CountOf(f, x) == IF x \in DOMAIN f THEN f[x] ELSE 0

ReferencedBy(names, st) == {y \in DOMAIN st.references : st.references[y] \cap names # {}}
RECURSIVE ReferencedByAll(_, _)
ReferencedByAll(names, st) ==
    LET more == names \cup ReferencedBy(names, st)
    IN IF more = names THEN names ELSE ReferencedByAll(more, st)

\* Mutant of clearValues: what refers to a changed variable stays known.
clearOnlyValues(names, st) ==
    [st EXCEPT !.value = Drop(@, names), !.references = Drop(@, names)]

clearValues(names, st) ==
    LET all == IF st.revisit THEN ReferencedByAll(names, st) ELSE names \cup ReferencedBy(names, st)
    IN [st EXCEPT !.value = Drop(@, all), !.references = Drop(@, all)]

\* value: << >> if there is none, which means zero
handleAssignment(names, value, st) ==
    With(clearValues(names, st), LAMBDA cleared :
    LET referenced == IF value = << >> THEN {} ELSE ReferencedVariables(value[1])
        known == CASE value = << >> -> Literal(0)
                   [] value # << >> -> value[1]
        isKnown == value # << >> => /\ Cardinality(names) = 1 /\ Movable(value[1])
                                    /\ referenced \cap names = {}
    IN [cleared EXCEPT !.value = IF isKnown THEN Put(@, names, known) ELSE @,
                       !.references = Put(@, names, referenced)])

pushScope(isFunction, names, st) ==
    [st EXCEPT !.scopes = Append(@, [variables |-> names, isFunction |-> isFunction])]

\* Mutant of popScope: values outlive the scope of their variable.
popScopeKeepingValues(st) == [st EXCEPT !.scopes = Front(@)]

popScope(st) ==
    [clearValues(st.scopes[Len(st.scopes)].variables, st) EXCEPT !.scopes = Front(@)]

inScope(x, st) ==
    \E n \in DOMAIN st.scopes :
        /\ x \in st.scopes[n].variables
        /\ \A m \in (n + 1)..Len(st.scopes) : ~st.scopes[m].isFunction

Check(condition, st) == [st EXCEPT !.failed = @ \/ ~condition]

-----------------------------------------------------------------------------
(* SimplificationRules.  A match: the expressions that the placeholders     *)
(* stand for, in groups; ok is FALSE if there is none; fits is FALSE if an  *)
(* operation has another number of arguments than its pattern.              *)

NoMatch(m) == [m EXCEPT !.ok = FALSE]

RECURSIVE matches(_, _, _, _)
matches(p, e, value, m) ==
    LET r == IF p.kind # "any" /\ e.kind = "identifier" /\ e.name \in DOMAIN value
             THEN value[e.name] ELSE e
    IN CASE ~m.ok -> m
         [] m.ok /\ p.kind = "number" ->
                IF r.kind = "literal" /\ r.value = p.data THEN m ELSE NoMatch(m)
         [] m.ok /\ p.kind = "constant" ->
                IF r.kind = "literal" THEN [m EXCEPT !.groups = (p.group :> r) @@ @] ELSE NoMatch(m)
         [] m.ok /\ p.kind = "operation" ->
                IF r.kind # "call" \/ r.name # <<p.instruction>> THEN NoMatch(m)
                ELSE IF Len(p.arguments) # Len(r.arguments)
                THEN [m EXCEPT !.ok = FALSE, !.fits = FALSE]
                ELSE FoldLeft(LAMBDA acc, n : matches(p.arguments[n], r.arguments[n], value, acc), m,
                              [n \in DOMAIN p.arguments |-> n])
         [] m.ok /\ p.kind = "any" ->
                IF p.group \notin DOMAIN m.groups THEN [m EXCEPT !.groups = (p.group :> e) @@ @]
                ELSE IF expressionEqual(m.groups[p.group], e, NoIds) /\ Movable(e) THEN m
                ELSE NoMatch(m)

\* Whether all patterns that findFirstMatch tries have the right size.
RECURSIVE FirstMatch(_, _, _, _)
FirstMatch(rules, n, e, value) ==
    IF n > Len(rules) THEN [ok |-> FALSE, fits |-> TRUE, groups |-> << >>, rule |-> << >>]
    ELSE With(matches(rules[n].pattern, e, value,
                      [ok |-> TRUE, fits |-> TRUE, groups |-> << >>]), LAMBDA m :
         LET Constant(g) == IF g \in DOMAIN m.groups THEN m.groups[g].value ELSE 0
         IN IF ~m.fits \/ (m.ok /\ Feasible(rules[n].feasible, Constant("A"), Constant("B")))
            THEN [ok |-> m.ok, fits |-> m.fits, groups |-> m.groups, rule |-> rules[n]]
            ELSE FirstMatch(rules, n + 1, e, value))

findFirstMatch(e, st) ==
    IF e.kind = "call" /\ IsBuiltin(e.name) THEN FirstMatch(st.rules[e.name[1]], 1, e, st.value)
    ELSE [ok |-> FALSE, fits |-> TRUE, groups |-> << >>, rule |-> << >>]

RECURSIVE toExpression(_, _)
toExpression(p, groups) ==
    CASE p.kind \in {"any", "constant"} -> groups[p.group]
      [] p.kind = "number"   -> Literal(p.data)
      [] p.kind = "computed" ->
            Literal(ValueOf(p.arguments[1], [g \in DOMAIN groups |-> groups[g].value], 0))
      [] p.kind = "operation" ->
            Builtin(p.instruction, MapSeq(LAMBDA a : toExpression(a, groups), p.arguments))

\* ExpressionSimplifier::visit once the arguments have been visited
RECURSIVE SimplifyTop(_, _)
SimplifyTop(e, st) ==
    With(findFirstMatch(e, st), LAMBDA m :
        CASE ~m.fits -> Copy(e, Check(FALSE, st))
          [] m.fits /\ (~m.ok \/ (m.rule.removesNonConstants /\ ~Movable(e))) -> Copy(e, st)
          [] OTHER -> SimplifyTop(toExpression(m.rule.action, m.groups), st))

-----------------------------------------------------------------------------
(* visit(Expression) of the derived classes *)

\* CommonSubexpressionEliminator, once the arguments have been visited
EliminateTop(e, st) ==
    CASE e.kind = "identifier" /\ e.name \in DOMAIN st.value
            /\ st.value[e.name].kind = "identifier" ->
                Copy(st.value[e.name], Check(inScope(st.value[e.name].name, st), st))
      [] e.kind # "identifier" ->
            LET equal == {x \in DOMAIN st.value : expressionEqual(e, st.value[x], NoIds)}
            IN Copy(IF equal = {} THEN e ELSE Identifier(CHOOSE x \in equal : TRUE),
                    Check(\A x \in DOMAIN st.value : inScope(x, st), st))
      [] OTHER -> Copy(e, st)

\* Rematerialiser, before the arguments are visited
RematerialiseTop(e, st) ==
    IF e.kind # "identifier" \/ e.name \notin DOMAIN st.value THEN Copy(e, st)
    ELSE LET value == st.value[e.name]
             refs == CountOf(st.counts, e.name)
         IN With(codeCost(value), LAMBDA cost :
         LET checked == Check(/\ refs > 0
                              /\ \A y \in st.references[e.name] : inScope(y, st), st)
             names == {c.name : c \in SubExpressions(value)}
             counts == Put(st.counts, {e.name}, refs - 1)
         IN IF ~(refs <= 1 \/ cost = 0 \/ (refs <= 5 /\ cost <= 1) \/ e.name \in st.always)
            THEN Copy(e, st)
            ELSE Copy(value, [checked EXCEPT !.counts =
                        [x \in DOMAIN counts \cup names |->
                            CountOf(counts, x) + ReferencesInExpression(value, x)]]))

rematImpossible(names, st) == [st EXCEPT !.counts = Drop(@, names), !.costs = Drop(@, names)]

\* RematCandidateSelector
SelectTop(e, st) ==
    CASE e.kind # "identifier" \/ e.name \notin DOMAIN st.costs -> Copy(e, st)
      [] e.kind = "identifier" /\ e.name \in DOMAIN st.costs /\ e.name \notin DOMAIN st.value ->
            Copy(e, rematImpossible({e.name}, st))
      [] OTHER -> Copy(e, [st EXCEPT !.counts = Put(@, {e.name}, CountOf(@, e.name) + 1)])

RECURSIVE VisitExpression(_, _)
VisitExpression(e, st) ==
    With(CASE st.client = "Rematerialiser" -> RematerialiseTop(e, st)
           [] st.client = "RematCandidateSelector" -> SelectTop(e, st)
           [] OTHER -> Copy(e, st), LAMBDA before :
    With(MapStateReversed(VisitExpression, before.node.arguments, before.st), LAMBDA args :
    With([before.node EXCEPT !.arguments = args.node], LAMBDA visited :
        CASE st.client = "CommonSubexpressionEliminator" -> EliminateTop(visited, args.st)
          [] st.client = "ExpressionSimplifier" -> SimplifyTop(visited, args.st)
          [] OTHER -> Copy(visited, args.st))))

-----------------------------------------------------------------------------
(* StructuralSimplifier: what a statement is replaced by, as a list in a    *)
(* list; << >> if it stays.                                                 *)

\* expressionAlwaysTrue and expressionAlwaysFalse follow variables to a literal.
RECURSIVE LiteralBehind(_, _)
LiteralBehind(e, value) ==
    CASE e.kind = "literal" -> <<e.value>>
      [] e.kind = "identifier" /\ e.name \in DOMAIN value -> LiteralBehind(value[e.name], value)
      [] OTHER -> << >>
expressionAlwaysTrue(e, value) == LET l == LiteralBehind(e, value) IN l # << >> /\ l # <<0>>
expressionAlwaysFalse(e, value) == LiteralBehind(e, value) = <<0>>

\* hasLiteralValue: one step only
hasLiteralValue(e, value) ==
    LET r == IF e.kind = "identifier" /\ e.name \in DOMAIN value THEN value[e.name] ELSE e
    IN IF r.kind = "literal" THEN <<r.value>> ELSE << >>

replaceConstArgSwitch(s, v) ==
    LET hit == {n \in DOMAIN s.values : s.values[n] = v}
        default == {n \in DOMAIN s.values : s.values[n] = Default}
        taken == IF hit # {} THEN hit ELSE default
    IN IF taken = {} THEN << >> ELSE <<Block(s.blocks[CHOOSE n \in taken : TRUE])>>

StructuralReplacement(s, value) ==
    CASE s.kind = "if" /\ expressionAlwaysTrue(s.exprs[1], value) -> <<s.blocks[1]>>
      [] s.kind = "if" /\ expressionAlwaysFalse(s.exprs[1], value) -> << << >> >>
      [] s.kind = "switch" /\ hasLiteralValue(s.exprs[1], value) # << >> ->
            <<replaceConstArgSwitch(s, hasLiteralValue(s.exprs[1], value)[1])>>
      [] s.kind = "for" /\ expressionAlwaysFalse(s.exprs[1], value) -> <<s.blocks[1]>>
      [] OTHER -> << >>

-----------------------------------------------------------------------------
(* The walk over the statements *)

\* AssignmentsSinceContinue: acc.found once a continue of this loop has been met
RECURSIVE SinceContinue(_, _, _)
SinceContinue(block, depth, acc) ==
    FoldLeft(LAMBDA a, s :
        CASE s.kind = "continue" /\ depth = 0 -> [a EXCEPT !.found = TRUE]
          [] s.kind = "assignment" /\ a.found -> [a EXCEPT !.names = @ \cup Range(s.names)]
          [] OTHER -> FoldLeft(LAMBDA b, n :
                        SinceContinue(s.blocks[n], IF s.kind = "for" THEN depth + 1 ELSE depth, b),
                        a, [n \in DOMAIN s.blocks |-> n]), acc, block)
AssignmentsSinceContinue(body) == SinceContinue(body, 0, [found |-> FALSE, names |-> {}]).names

RECURSIVE WalkBlock(_, _)
RECURSIVE WalkStatements(_, _)

WalkAssignment(s, st) ==
    With(VisitExpression(s.exprs[1], IF st.client = "RematCandidateSelector"
                                     THEN rematImpossible(Range(s.names), st) ELSE st), LAMBDA r :
        Copy(<<[s EXCEPT !.exprs = <<r.node>>]>>, handleAssignment(Range(s.names), <<r.node>>, r.st)))

WalkDeclaration(s, st) ==
    LET declared == [st EXCEPT !.scopes[Len(st.scopes)].variables = @ \cup Range(s.names)]
    IN With(MapState(VisitExpression, s.exprs, declared), LAMBDA r :
    With(handleAssignment(Range(s.names), r.node, r.st), LAMBDA done :
    LET isCandidate == /\ st.client = "RematCandidateSelector" /\ Len(s.names) = 1
                       /\ s.names[1] \in DOMAIN done.value
    IN Copy(<<[s EXCEPT !.exprs = r.node]>>,
            IF isCandidate
            THEN [done EXCEPT !.costs = Put(@, {s.names[1]}, codeCost(done.value[s.names[1]]))]
            ELSE done)))

WalkIf(s, st) ==
    With(VisitExpression(s.exprs[1], st), LAMBDA c :
    With(WalkBlock(s.blocks[1], c.st), LAMBDA body :
        Copy(<<If(c.node, body.node)>>, clearValues(AssignedNames(body.node), body.st))))

WalkSwitch(s, st) ==
    With(VisitExpression(s.exprs[1], st), LAMBDA e :
    With(MapState(LAMBDA b, q : With(WalkBlock(b, q), LAMBDA r :
                    Copy(r.node, clearValues(AssignedNames(r.node), r.st))), s.blocks, e.st),
    LAMBDA cases :
        Copy(<<[s EXCEPT !.exprs = <<e.node>>, !.blocks = cases.node]>>,
             clearValues(UNION {AssignedNames(b) : b \in Range(cases.node)}, cases.st))))

WalkFor(s, st) ==
    LET assigned == AssignedNames(s.blocks[2]) \cup AssignedNames(s.blocks[3])
    IN With(VisitExpression(s.exprs[1], clearValues(assigned, Check(s.blocks[1] = << >>, st))), LAMBDA c :
    With(WalkBlock(s.blocks[2], c.st), LAMBDA body :
    With(WalkBlock(s.blocks[3], clearValues(AssignmentsSinceContinue(s.blocks[2]), body.st)), LAMBDA post :
        Copy(<<ForLoop(s.blocks[1], c.node, post.node, body.node)>>, clearValues(assigned, post.st)))))

WalkFunction(s, st) ==
    LET fresh == pushScope(TRUE, Range(Parameters(s)) \cup Range(s.returns),
                           [st EXCEPT !.value = << >>, !.references = << >>])
    IN With(FoldLeft(LAMBDA q, x : handleAssignment({x}, << >>, q), fresh, s.returns), LAMBDA start :
    With(WalkBlock(s.blocks[1], start), LAMBDA body :
        Copy(<<[s EXCEPT !.blocks = <<body.node>>]>>,
             [popScope(body.st) EXCEPT !.value = st.value, !.references = st.references])))

WalkStatement(s, st) ==
    With(IF st.client = "StructuralSimplifier" THEN StructuralReplacement(s, st.value)
         ELSE << >>, LAMBDA new :
        CASE new # << >> -> WalkStatements(new[1], st)
          [] new = << >> /\ s.kind = "assignment" -> WalkAssignment(s, st)
          [] new = << >> /\ s.kind = "let" -> WalkDeclaration(s, st)
          [] new = << >> /\ s.kind = "expression" ->
                 With(VisitExpression(s.exprs[1], st), LAMBDA r :
                     Copy(<<ExpressionStatement(r.node)>>, r.st))
          [] new = << >> /\ s.kind = "if" -> WalkIf(s, st)
          [] new = << >> /\ s.kind = "switch" -> WalkSwitch(s, st)
          [] new = << >> /\ s.kind = "for" -> WalkFor(s, st)
          [] new = << >> /\ s.kind = "function" -> WalkFunction(s, st)
          [] new = << >> /\ s.kind = "block" ->
                 With(WalkBlock(s.blocks[1], st), LAMBDA r :
                     Copy(<<Block(r.node)>>, r.st))
          [] OTHER -> Copy(<<s>>, st))

WalkStatements(block, st) == ReplacingState(WalkStatement, block, st)

WalkBlock(block, st) ==
    With(WalkStatements(block, pushScope(FALSE, {}, st)), LAMBDA r :
        Copy(r.node, popScope(r.st)))

-----------------------------------------------------------------------------
(* The steps: the tree in node, the analyzer at the end in st.  A statement *)
(* that is walked is a block or a function.                                 *)

RematerialiserOf(s, always, revisit) ==
    [Analyzer("Rematerialiser", revisit) EXCEPT !.counts = Pruning(<<s>>).references, !.always = always]

Rematerialiser(s, always, revisit) ==
    With(WalkStatement(s, RematerialiserOf(s, always, revisit)), LAMBDA r : Copy(r.node[1], r.st))

\* CommonSubexpressionEliminator, ExpressionSimplifier, StructuralSimplifier and
\* Rematerialiser of a program
DataFlowStep(client, ast, revisit) ==
    WalkBlock(ast, IF client = "Rematerialiser" THEN RematerialiserOf(Block(ast), {}, revisit)
                   ELSE Analyzer(client, revisit))

-----------------------------------------------------------------------------
(* ExpressionInliner.  functions: the definitions as they are when the walk *)
(* gets to a call; inlinable: the names that were found before it started.  *)

\* InlinableExpressionFunctionFinder
IsInlinable(f) ==
    /\ Len(f.returns) = 1 /\ Len(f.blocks[1]) = 1
    /\ LET s == f.blocks[1][1]
       IN /\ s.kind = "assignment" /\ s.names = f.returns
          /\ \A e \in SubExpressions(s.exprs[1]) :
                e.kind # "literal" => e.name \notin {f.returns[1], f.names[1]}

RECURSIVE Substitution(_, _)
Substitution(e, substitutions) ==
    IF e.kind = "identifier" /\ e.name \in DOMAIN substitutions THEN substitutions[e.name]
    ELSE [e EXCEPT !.arguments = MapSeq(LAMBDA a : Substitution(a, substitutions), @)]

RECURSIVE InlineExpression(_, _, _)
InlineExpression(e, functions, inlinable) ==
    With(MapSeq(LAMBDA a : InlineExpression(a, functions, inlinable), e.arguments), LAMBDA args :
    LET f == functions[e.name]
        substitutions == [x \in Range(Parameters(f)) |->
                            args[CHOOSE n \in DOMAIN args : Parameters(f)[n] = x]]
    IN IF e.kind = "call" /\ e.name \in inlinable /\ (\A n \in DOMAIN args : Movable(args[n]))
       THEN Substitution(f.blocks[1][1].exprs[1], substitutions)
       ELSE [e EXCEPT !.arguments = args])

RECURSIVE InlineExpressionsIn(_, _, _)
InlineExpressionsIn(block, functions, inlinable) ==
    MapSeq(LAMBDA s :
        [s EXCEPT !.exprs = MapSeq(LAMBDA e : InlineExpression(e, functions, inlinable), @),
                  !.blocks = MapSeq(LAMBDA b : InlineExpressionsIn(b, functions, inlinable), @)],
        block)

FunctionsOf(ast) ==
    LET own == {s \in Range(ast) : IsFunction(s)}
    IN [f \in {s.names[1] : s \in own} |-> CHOOSE s \in own : s.names[1] = f]

ExpressionInliner(ast) ==
    LET inlinable == {f \in DOMAIN FunctionsOf(ast) : IsInlinable(FunctionsOf(ast)[f])}
        Step(s, functions) ==
            With(InlineExpressionsIn(<<s>>, functions, inlinable)[1], LAMBDA new :
                Copy(new, IF IsFunction(s) THEN [functions EXCEPT ![s.names[1]] = new] ELSE functions))
    IN MapState(Step, ast, FunctionsOf(ast)).node

-----------------------------------------------------------------------------
(* FullInliner.  st: the dispenser, m_functions, m_functionSizes; the main  *)
(* program has the empty name.  heuristics: m_constants and m_singleUse.    *)

\* SSAValueTracker: variables that keep a literal value
Constants(ast) ==
    UNION {CASE s.kind = "let" /\ Len(s.names) = 1 /\ s.exprs # << >> ->
                    IF s.exprs[1].kind = "literal" THEN Range(s.names) ELSE {}
             [] s.kind = "let" /\ s.exprs = << >> -> Range(s.names)
             [] s.kind = "function" -> Range(s.returns)
             [] OTHER -> {} : s \in Statements(ast)} \ AssignedNames(ast)

recursive(f) == References(f.blocks[1], f.names[1]) > 0

shallInline(call, callSite, st, h) ==
    /\ call.name # callSite
    /\ call.name \in DOMAIN st.functions
    /\ ~recursive(st.functions[call.name])
    /\ LET size == st.sizes[call.name]
           constantArg == \E n \in DOMAIN call.arguments :
                            \/ call.arguments[n].kind = "literal"
                            \/ call.arguments[n].kind = "identifier" /\ call.arguments[n].name \in h.constants
       IN \/ size <= 1
          \/ /\ st.sizes[callSite] <= 45
             /\ call.name \in h.singleUse \/ size < 6 \/ (constantArg /\ size < 12)

\* BodyCopier: q has the dispenser d and the replacements
RenameExpression(e, replacements) == CurrentValues(e, replacements)

RECURSIVE CopyBody(_, _)

\* Mutant of CopyStatement: the variables of the body keep their names.
CopyStatementVerbatim(s, q) ==
    LET Renamed(x) == IF x \in DOMAIN q.replacements THEN q.replacements[x] ELSE x
    IN Copy([s EXCEPT !.names = MapSeq(Renamed, @),
                      !.exprs = MapSeq(LAMBDA e : RenameExpression(e, q.replacements), @),
                      !.blocks = MapSeq(LAMBDA b : CopyBody(b, q).node, @)], q)

CopyStatement(s, q) ==
    With(IF s.kind = "let" THEN newNames(q.d, s.names) ELSE [names |-> << >>, d |-> q.d], LAMBDA new :
    With([x \in DOMAIN q.replacements \cup (IF s.kind = "let" THEN Range(s.names) ELSE {}) |->
            IF s.kind = "let" /\ x \in Range(s.names)
            THEN new.names[CHOOSE n \in DOMAIN s.names : s.names[n] = x]
            ELSE q.replacements[x]], LAMBDA known :
    LET Renamed(x) == IF x \in DOMAIN known THEN known[x] ELSE x
        r == [s EXCEPT !.names = MapSeq(Renamed, @),
                       !.exprs = MapSeq(LAMBDA e : RenameExpression(e, known), @)]
        order == IF s.kind = "for" THEN <<1, 3, 2>> ELSE [n \in DOMAIN s.blocks |-> n]
    IN FoldLeft(LAMBDA acc, n :
            With(CopyBody(acc.node.blocks[n], acc.st), LAMBDA b :
                Copy([acc.node EXCEPT !.blocks[n] = b.node], b.st)),
            Copy(r, [d |-> new.d, replacements |-> known]), order)))
CopyBody(block, q) == MapState(CopyStatement, block, q)

\* The parameters as variables, the return variables, the body, and what the
\* statement did with the returned values.
performInline(s, call, callSite, st) ==
    LET f == st.functions[call.name]
        locals == Parameters(f) \o f.returns
    IN With(newNames(st.d, locals), LAMBDA new :
    With([x \in Range(locals) |-> new.names[CHOOSE n \in DOMAIN locals : locals[n] = x]], LAMBDA replacements :
    LET Value(n) == IF n <= Len(call.arguments) THEN call.arguments[n] ELSE Literal(0)
    IN With(CopyBody(f.blocks[1], [d |-> new.d, replacements |-> replacements]), LAMBDA body :
    LET Return(n) == [s EXCEPT !.names = <<s.names[n]>>,
                               !.exprs = <<Identifier(replacements[f.returns[n]])>>]
    IN Copy([n \in DOMAIN locals |-> VariableDeclaration(<<new.names[n]>>, Value(n))]
            \o body.node
            \o [n \in DOMAIN s.names |-> Return(n)],
            [st EXCEPT !.d = body.st.d, !.sizes[callSite] = @ + st.sizes[call.name]]))))

RECURSIVE InlineBlock(_, _, _, _)
InlineStatement(s, st, callSite, h) ==
    LET order == IF s.kind = "for" THEN <<1, 3, 2>> ELSE [n \in DOMAIN s.blocks |-> n]
    IN With(FoldLeft(LAMBDA acc, n :
                      With(InlineBlock(acc.node.blocks[n], acc.st, callSite, h), LAMBDA b :
                          Copy([acc.node EXCEPT !.blocks[n] = b.node], b.st)), Copy(s, st), order), LAMBDA inside :
        IF /\ s.kind \in {"expression", "assignment", "let"} /\ s.exprs # << >>
           /\ s.exprs[1].kind = "call" /\ shallInline(s.exprs[1], callSite, st, h)
        THEN performInline(s, s.exprs[1], callSite, st)
        ELSE Copy(<<inside.node>>, inside.st))
InlineBlock(block, st, callSite, h) ==
    ReplacingState(LAMBDA s, q : InlineStatement(s, q, callSite, h), block, st)

\* handleBlock of a function, then updateCodeSize
InlineInFunction(st, f, h) ==
    With(InlineBlock(st.functions[f].blocks[1], st, f, h), LAMBDA body :
        [body.st EXCEPT !.functions[f].blocks[1] = body.node, !.sizes[f] = codeSize(body.node, TRUE)])

FullInliner(ast, d) ==
    LET functions == FunctionsOf(ast)
        names == MapSeq(LAMBDA s : s.names[1], SelectSeq(ast, IsFunction))
        h == [constants |-> Constants(ast),
              singleUse |-> {f \in DOMAIN functions : References(ast, f) = 1}]
        st == [d |-> d, functions |-> functions,
               sizes |-> [f \in DOMAIN functions \cup {<<"">>} |->
                            IF f = <<"">> THEN codeSize(ast, TRUE)
                            ELSE codeSize(functions[f].blocks[1], TRUE)]]
        Main(s, q) == IF s.kind = "block"
                      THEN With(InlineBlock(s.blocks[1], q, <<"">>, h), LAMBDA b :
                               Copy(Block(b.node), b.st))
                      ELSE Copy(s, q)
    IN With(MapState(Main, ast, st), LAMBDA main :
    With(FoldLeft(LAMBDA q, f : InlineInFunction(q, f, h), main.st, names), LAMBDA done :
        Copy(MapSeq(LAMBDA s : IF IsFunction(s) THEN done.functions[s.names[1]] ELSE s, main.node),
             done.d)))

-----------------------------------------------------------------------------
(* RedundantAssignEliminator looks at the variables of expressions only;    *)
(* the address of an assignment is its path in the tree.                    *)

RAE == INSTANCE RedundantAssignEliminator
       WITH Programs <- {}, NestingLimit <- 6,
            program <- << >>, m_pendingRemovals <- {}, result <- << >>, step <- "gather"

Seen(e) == RAE!Expression(ReferencedVariables(e), Movable(e))

RECURSIVE Tracked(_, _)
TrackedStatement(s, path) ==
    LET Sub(n) == Tracked(s.blocks[n], Append(path, n))
    IN With(IF s.exprs = << >> THEN RAE!Expression({}, TRUE) ELSE Seen(s.exprs[1]), LAMBDA value :
        CASE s.kind = "let" -> RAE!VariableDeclaration(Range(s.names), value)
          [] s.kind = "assignment" -> RAE!Assignment(path, Range(s.names), value)
          [] s.kind = "expression" -> RAE!ExpressionStatement(value)
          [] s.kind = "if" -> RAE!IfStatement(value, Sub(1))
          [] s.kind = "switch" -> RAE!SwitchStatement(value, [n \in DOMAIN s.blocks |-> Sub(n)],
                                                      Default \in Range(s.values))
          [] s.kind = "for" -> RAE!ForLoop(value, Sub(2), Sub(3))
          [] s.kind = "break" -> RAE!Break
          [] s.kind = "continue" -> RAE!Continue
          [] s.kind = "block" -> Sub(1)
          [] s.kind = "function" ->
                 RAE!FunctionDefinition(Range(Parameters(s)), Range(s.returns), Sub(1)))
Tracked(block, path) ==
    RAE!Block([n \in DOMAIN block |-> TrackedStatement(block[n], Append(path, n))])

RECURSIVE WithoutPaths(_, _, _)
WithoutPaths(block, path, removed) ==
    LET kept == SelectSeq([n \in DOMAIN block |-> n], LAMBDA n : Append(path, n) \notin removed)
    IN MapSeq(LAMBDA n :
        [block[n] EXCEPT !.blocks =
            [k \in DOMAIN @ |-> WithoutPaths(@[k], path \o <<n, k>>, removed)]], kept)

RedundantAssignEliminator(ast) ==
    LET removals == RAE!Visit(Tracked(ast, << >>), RAE!NewWalk).removals
    IN WithoutPaths(ast, << >>, {a.id : a \in removals})

-----------------------------------------------------------------------------
(* ConstantOptimiser: a literal is replaced by the cheapest expression      *)
(* found that computes it, as libyul's GasMeter counts.  m_cache only saves *)
(* work; m_maxSteps (10000 refinements) is more than words of WordBits bits *)
(* can use up.                                                              *)

CONSTANTS
    Runs,                 \* m_runs: how often the code is expected to run
    IsCreation,           \* m_isCreation
    hasBitwiseShifting    \* of the SVMVersion

ASSUME MeterAssumption ==
    Runs \in Nat /\ IsCreation \in BOOLEAN /\ hasBitwiseShifting \in BOOLEAN

\* libdevcore: how many bytes a number takes, none for zero
RECURSIVE bytesRequired(_)
bytesRequired(n) == IF n = 0 THEN 0 ELSE 1 + bytesRequired(n \div 2 ^ ByteBits)

\* GasCosts, GasMeter::runGas of libsvmasm for the instructions used here
runGas(i) == CASE i = "EXP" -> 60 [] i = "MUL" -> 5 [] OTHER -> 3

singleByteDataGas == IF IsCreation THEN 68 ELSE 200

\* GasMeter::dataGas: zero bytes are cheaper in a transaction.
RECURSIVE dataGas(_)
dataGas(n) ==
    (IF IsCreation /\ n % 2 ^ ByteBits = 0 THEN 4 ELSE singleByteDataGas)
    + (IF n < 2 ^ ByteBits THEN 0 ELSE dataGas(n \div 2 ^ ByteBits))

\* combineCosts
instructionCosts(i) == runGas(i) * Runs + singleByteDataGas
LiteralCosts(n) == runGas("PUSH1") * Runs + singleByteDataGas + dataGas(n)

\* A Representation, of a literal and of an instruction
RepresentLiteral(n) == [expression |-> Literal(n), cost |-> LiteralCosts(n)]
Represent(i, arguments) ==
    [expression |-> Builtin(i, MapSeq(LAMBDA r : r.expression, arguments)),
     cost |-> instructionCosts(i) + Total(MapSeq(LAMBDA r : r.cost, arguments))]

Cheaper(a, b) == IF a.cost <= b.cost THEN a ELSE b

\* The value as upper * 2^bits + lower where lower is small, and may be negative.
Decompose(value, bits) ==
    LET power == 2 ^ bits
        lower == value % power
        upper == value \div power
    IN IF power - lower < lower THEN [upper |-> upper + 1, lower |-> lower - power]
       ELSE [upper |-> upper, lower |-> lower]

\* A decomposition that may pay: there is a gap of ByteBits zeros or ones.
IsGap(value, bits) ==
    LET gapDetector == (value \div 2 ^ (bits - ByteBits)) % 2 ^ (ByteBits + 1)
        d == Decompose(value, bits)
    IN /\ gapDetector \in {2 ^ ByteBits - 1, 2 ^ ByteBits}
       /\ d.upper # 0
       /\ Magnitude(d.lower) < 2 ^ (bits - ByteBits)

RECURSIVE findRepresentation(_)

Decomposed(value, bits, routine) ==
    With(Decompose(value, bits), LAMBDA d :
    With(Represent("EXP", <<RepresentLiteral(2), RepresentLiteral(bits)>>), LAMBDA power :
    With(CASE hasBitwiseShifting ->
                  Represent("SHL", <<RepresentLiteral(bits), findRepresentation(d.upper)>>)
           [] ~hasBitwiseShifting /\ d.upper = 1 -> power
           [] OTHER -> Represent("MUL", <<findRepresentation(d.upper), power>>), LAMBDA shifted :
    With(findRepresentation(Magnitude(d.lower)), LAMBDA lower :
        CASE shifted.cost >= routine.cost -> routine
          [] shifted.cost < routine.cost /\ d.lower = 0 -> Cheaper(routine, shifted)
          [] shifted.cost < routine.cost /\ d.lower > 0 ->
                 Cheaper(routine, Represent("ADD", <<shifted, lower>>))
          [] OTHER -> Cheaper(routine, Represent("SUB", <<shifted, lower>>))))))

findRepresentation(value) ==
    LET literal == RepresentLiteral(value)
    IN With(IF bytesRequired(Ones - value) < bytesRequired(value)
            THEN Cheaper(literal, Represent("NOT", <<findRepresentation(Ones - value)>>))
            ELSE literal, LAMBDA start :
    LET bits == [n \in 1..(WordBits - 1 - ByteBits) |-> WordBits - n]
    IN FoldLeft(LAMBDA r, b : IF IsGap(value, b) THEN Decomposed(value, b, r) ELSE r, start, bits))

\* Small numbers (below 0x10000) stay.
tryFindRepresentation(value) ==
    IF value < 2 ^ (2 * ByteBits) THEN Literal(value) ELSE findRepresentation(value).expression

RECURSIVE OptimiseConstants(_)
OptimiseConstants(e) ==
    IF e.kind = "literal" THEN tryFindRepresentation(e.value)
    ELSE [e EXCEPT !.arguments = MapSeq(LAMBDA a : OptimiseConstants(a), @)]

\* The literals of switch cases are not expressions.
RECURSIVE ConstantOptimiser(_)
ConstantOptimiser(block) ==
    MapSeq(LAMBDA s : [s EXCEPT !.exprs = MapSeq(LAMBDA e : OptimiseConstants(e), @),
                                !.blocks = MapSeq(LAMBDA b : ConstantOptimiser(b), @)], block)

=============================================================================
