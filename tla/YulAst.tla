------------------------------- MODULE YulAst -------------------------------
(***************************************************************************)
(* The syntax tree of strict assembly (libyul/AsmData.h), the facts about   *)
(* it that the steps of the optimiser share (names, references, side        *)
(* effects, sizes, equality), and what a program does.                      *)
(*                                                                         *)
(* A name is a sequence: a base and the numbers NameDispenser appended to   *)
(* it; <<"">> is the empty name.  All statements have the same fields, those *)
(* that a kind does not have are empty; a loop's blocks are its pre, body   *)
(* and post.  An instruction is called by its name, whether the parser made *)
(* a FunctionalInstruction or a FunctionCall of it.  Literals are numbers.  *)
(*                                                                         *)
(* The interpreter at the end is the reference that the optimiser and the   *)
(* code generator are compared with.  Arguments are evaluated from the last *)
(* to the first.  Memory is one word per address.  log holds the effects    *)
(* that outlive the execution: writes, contract creations and how the       *)
(* program ended.  fuel bounds the number of statements; a program that     *)
(* uses it up has not come to an end.                                       *)
(***************************************************************************)
EXTENDS RuleList, SequencesExt

-----------------------------------------------------------------------------
(* AsmData.h *)

Expression(kind, name, value, arguments) ==
    [kind |-> kind, name |-> name, value |-> value, arguments |-> arguments]
Literal(n) == Expression("literal", <<"">>, n, << >>)
Identifier(x) == Expression("identifier", x, 0, << >>)
FunctionCall(f, arguments) == Expression("call", f, 0, arguments)
Builtin(instruction, arguments) == FunctionCall(<<instruction>>, arguments)

Statement(kind, names, exprs, blocks) ==
    [kind |-> kind, names |-> names, exprs |-> exprs, blocks |-> blocks,
     values |-> << >>, returns |-> << >>]
ExpressionStatement(e) == Statement("expression", << >>, <<e>>, << >>)
Assignment(names, e) == Statement("assignment", names, <<e>>, << >>)
VariableDeclaration(names, e) == Statement("let", names, <<e>>, << >>)
Uninitialised(names) == Statement("let", names, << >>, << >>)
If(e, body) == Statement("if", << >>, <<e>>, <<body>>)
\* values[i] is the literal of case i, Default if it has none.
Switch(e, values, bodies) == [Statement("switch", << >>, <<e>>, bodies) EXCEPT !.values = values]
Default == -1
ForLoop(pre, e, post, body) == Statement("for", << >>, <<e>>, <<pre, body, post>>)
Break == Statement("break", << >>, << >>, << >>)
Continue == Statement("continue", << >>, << >>, << >>)
Block(statements) == Statement("block", << >>, << >>, <<statements>>)
\* names: the function's own name and then its parameters
FunctionDefinition(f, parameters, returnVariables, body) ==
    [Statement("function", <<f>> \o parameters, << >>, <<body>>) EXCEPT !.returns = returnVariables]

Parameters(function) == Tail(function.names)
IsFunction(s) == s.kind = "function"
EmptyBlock == Block(<< >>)

\* Dialect::builtin for the SVM dialect
IsBuiltin(f) == Len(f) = 1 /\ f[1] \in Instruction

-----------------------------------------------------------------------------
(* Sequences of statements *)

\* iterateReplacing: every element becomes a list of elements.
Replacing(f(_), seq) == FlattenSeq([n \in DOMAIN seq |-> f(seq[n])])

MapSeq(f(_), seq) == [n \in DOMAIN seq |-> f(seq[n])]

removeEmptyBlocks(block) == SelectSeq(block, LAMBDA s : s # EmptyBlock)

-----------------------------------------------------------------------------
(* Walks over the tree (ASTWalker). *)

RECURSIVE SubExpressions(_)
SubExpressions(e) ==
    {e} \cup UNION {SubExpressions(e.arguments[n]) : n \in DOMAIN e.arguments}

\* Every statement in a block, at any depth.
RECURSIVE Statements(_)
Statements(block) ==
    UNION {{block[n]} \cup UNION {Statements(block[n].blocks[k]) : k \in DOMAIN block[n].blocks} :
           n \in DOMAIN block}

RECURSIVE SumOver(_, _)
SumOver(f, n) == IF n = 0 THEN 0 ELSE f[n] + SumOver(f, n - 1)
Total(f) == SumOver(f, Len(f))

\* NameCollector: the names that a block declares
NamesDeclared(block) ==
    UNION {IF s.kind \in {"let", "function"} THEN Range(s.names) \cup Range(s.returns) ELSE {} :
           s \in Statements(block)}

\* Assignments: the variables that a block assigns to
AssignedNames(block) ==
    UNION {Range(s.names) : s \in {t \in Statements(block) : t.kind = "assignment"}}

\* ReferencesCounter: how often x is referred to.  The left hand side of an
\* assignment counts.
RECURSIVE ReferencesInExpression(_, _)
ReferencesInExpression(e, x) ==
    (IF e.kind # "literal" /\ e.name = x THEN 1 ELSE 0)
    + Total([n \in DOMAIN e.arguments |-> ReferencesInExpression(e.arguments[n], x)])

RECURSIVE References(_, _)
References(block, x) ==
    Total([n \in DOMAIN block |->
             LET s == block[n]
             IN (IF s.kind = "assignment"
                 THEN Cardinality({k \in DOMAIN s.names : s.names[k] = x}) ELSE 0)
                + Total([k \in DOMAIN s.exprs |-> ReferencesInExpression(s.exprs[k], x)])
                + Total([k \in DOMAIN s.blocks |-> References(s.blocks[k], x)])])

\* AssignmentCounter::assignmentCount
RECURSIVE assignmentCount(_, _)
assignmentCount(block, x) ==
    Total([n \in DOMAIN block |->
             (IF block[n].kind = "assignment"
              THEN Cardinality({k \in DOMAIN block[n].names : block[n].names[k] = x}) ELSE 0)
             + Total([k \in DOMAIN block[n].blocks |-> assignmentCount(block[n].blocks[k], x)])])

-----------------------------------------------------------------------------
(* SideEffectsCollector and TerminationFinder (optimiser/Semantics.cpp) *)

Calls(e) == {c \in SubExpressions(e) : c.kind = "call"}
Movable(e) == \A c \in Calls(e) : IsBuiltin(c.name) /\ movable(c.name[1])
SideEffectFree(e, allowMSizeOptimization) ==
    \A c \in Calls(e) :
        /\ IsBuiltin(c.name)
        /\ IF allowMSizeOptimization THEN sideEffectFreeIfNoMSize(c.name[1])
           ELSE sideEffectFree(c.name[1])
ContainsMSize(block) ==
    \E s \in Statements(block) : \E n \in DOMAIN s.exprs :
        \E c \in Calls(s.exprs[n]) : c.name = <<"MSIZE">>

\* MovableChecker::referencedVariables
ReferencedVariables(e) == {x.name : x \in {y \in SubExpressions(e) : y.kind = "identifier"}}

controlFlowKind(s) ==
    CASE s.kind = "expression" /\ s.exprs[1].kind = "call" /\ IsBuiltin(s.exprs[1].name)
            /\ terminatesControlFlow(s.exprs[1].name[1]) -> "Terminate"
      [] s.kind = "break"    -> "Break"
      [] s.kind = "continue" -> "Continue"
      [] OTHER -> "FlowOut"

-----------------------------------------------------------------------------
(* CodeSize and CodeCost (optimiser/Metrics.cpp) *)

RECURSIVE ExpressionSize(_)
ExpressionSize(e) ==
    (IF e.kind = "identifier" THEN 0 ELSE 1)
    + Total([n \in DOMAIN e.arguments |-> ExpressionSize(e.arguments[n])])

RECURSIVE codeSize(_, _)
codeSize(block, ignoreFunctions) ==
    Total([n \in DOMAIN block |->
             LET s == block[n]
             IN IF IsFunction(s) /\ ignoreFunctions THEN 0
                ELSE (CASE s.kind \in {"if", "break", "continue"} -> 2
                        [] s.kind = "for" -> 3
                        [] s.kind = "switch" -> 1 + 2 * Len(s.blocks)
                        [] s.kind = "function" -> 1
                        [] OTHER -> 0)
                     + Total([k \in DOMAIN s.exprs |-> ExpressionSize(s.exprs[k])])
                     + Total([k \in DOMAIN s.blocks |-> codeSize(s.blocks[k], ignoreFunctions)])])

\* A literal costs one more for each byte beyond its first one.
RECURSIVE LiteralCost(_)
LiteralCost(n) == IF n >= 2 ^ ByteBits THEN 1 + LiteralCost(n \div 2 ^ ByteBits) ELSE 0

InstructionCost(i) ==
    CASE instructionInfo[i].tier < VeryLow -> -1
      [] instructionInfo[i].tier \in VeryLow..(High - 1) -> 1
      [] instructionInfo[i].tier >= High -> 49

RECURSIVE codeCost(_)
codeCost(e) ==
    1 + (CASE e.kind = "literal" -> LiteralCost(e.value)
           [] e.kind = "identifier" -> 0
           [] e.kind = "call" -> IF IsBuiltin(e.name) THEN InstructionCost(e.name[1]) ELSE 49)
      + Total([n \in DOMAIN e.arguments |-> codeCost(e.arguments[n])])

-----------------------------------------------------------------------------
(* The names of a program: NameDispenser, the Disambiguator that makes all  *)
(* declared names different, which every later step of the optimiser relies *)
(* on, and the VarNameCleaner that undoes it at the end.                    *)

\* NameDispenser
Dispenser(usedNames) == [used |-> usedNames, counter |-> 0]

illegalName(d, name) == name = <<"">> \/ name \in d.used \/ IsBuiltin(name)

RECURSIVE Dispense(_, _, _)
Dispense(d, hint, name) ==
    IF illegalName(d, name)
    THEN Dispense([d EXCEPT !.counter = @ + 1], hint, Append(hint, d.counter + 1))
    ELSE [name |-> name, d |-> [d EXCEPT !.used = @ \cup {name}]]
newName(d, hint) == Dispense(d, hint, hint)

RECURSIVE newNames(_, _)
newNames(d, hints) ==
    IF hints = << >> THEN [names |-> << >>, d |-> d]
    ELSE With(newName(d, Head(hints)), LAMBDA first :
         With(newNames(first.d, Tail(hints)), LAMBDA rest :
             [names |-> <<first.name>> \o rest.names, d |-> rest.d]))

-----------------------------------------------------------------------------
(* The scopes that ScopeFiller builds.  An identifier is the path of the    *)
(* block that declares it and its name; a scope maps the visible names to   *)
(* identifiers.  The parameters of a function have a block of their own     *)
(* (AsmAnalysisInfo::virtualBlocks).                                        *)

OwnNames(block) ==
    UNION {CASE s.kind = "let" -> Range(s.names)
             [] s.kind = "function" -> {s.names[1]}
             [] OTHER -> {} : s \in Range(block)}

Enter(scope, names, path) ==
    [x \in DOMAIN scope \cup names |-> IF x \in names THEN <<path, x>> ELSE scope[x]]

-----------------------------------------------------------------------------
(* The Disambiguator copies the tree (ASTCopier) in the order of the source *)
(* and names an identifier when it meets it first.  st: the dispenser and   *)
(* the translations so far.  Translated(node, st) holds the copy in node.   *)

Copy(node, st) == [node |-> node, st |-> st]

translateIdentifier(x, scope, st) ==
    CASE IsBuiltin(x) -> Copy(x, st)
      [] ~IsBuiltin(x) /\ scope[x] \in DOMAIN st.translations -> Copy(st.translations[scope[x]], st)
      [] OTHER ->
            LET n == newName(st.d, x)
            IN Copy(n.name, [d |-> n.d, translations |-> (scope[x] :> n.name) @@ st.translations])

RECURSIVE TranslateNames(_, _, _)
TranslateNames(names, scope, st) ==
    IF names = << >> THEN Copy(<< >>, st)
    ELSE With(translateIdentifier(Head(names), scope, st), LAMBDA first :
         With(TranslateNames(Tail(names), scope, first.st), LAMBDA rest :
             Copy(<<first.node>> \o rest.node, rest.st)))

RECURSIVE TranslateExpressions(_, _, _)
TranslateExpressions(exprs, scope, st) ==
    IF exprs = << >> THEN Copy(<< >>, st)
    ELSE LET e == Head(exprs)
         IN With(IF e.kind = "literal" THEN Copy(e.name, st)
                 ELSE translateIdentifier(e.name, scope, st), LAMBDA name :
         With(TranslateExpressions(e.arguments, scope, name.st), LAMBDA args :
         With(TranslateExpressions(Tail(exprs), scope, args.st), LAMBDA rest :
             Copy(<<[e EXCEPT !.name = name.node, !.arguments = args.node]>> \o rest.node, rest.st))))

RECURSIVE TranslateBlock(_, _, _, _)
RECURSIVE TranslateStatements(_, _, _, _, _)
RECURSIVE TranslateBlocks(_, _, _, _, _)

\* The n-th and following ones of the blocks of a statement.
TranslateBlocks(blocks, n, scope, path, st) ==
    IF n > Len(blocks) THEN Copy(<< >>, st)
    ELSE With(TranslateBlock(blocks[n], scope, Append(path, n), st), LAMBDA first :
         With(TranslateBlocks(blocks, n + 1, scope, path, first.st), LAMBDA rest :
             Copy(<<first.node>> \o rest.node, rest.st)))

TranslateStatement(s, scope, path, st) ==
    CASE s.kind = "function" ->
            With(translateIdentifier(s.names[1], scope, st), LAMBDA name :
            LET inside == Enter(scope, Range(Parameters(s)) \cup Range(s.returns), path)
            IN With(TranslateNames(Parameters(s), inside, name.st), LAMBDA params :
            With(TranslateNames(s.returns, inside, params.st), LAMBDA rets :
            With(TranslateBlock(s.blocks[1], inside, Append(path, 1), rets.st), LAMBDA body :
                Copy(FunctionDefinition(name.node, params.node, rets.node, body.node), body.st)))))
      [] s.kind = "for" ->
            \* pre, condition, post, body; what pre declares is visible in all of them
            With(TranslateBlock(s.blocks[1], scope, Append(path, 1), st), LAMBDA pre :
            LET inside == Enter(scope, OwnNames(s.blocks[1]), Append(path, 1))
            IN With(TranslateExpressions(s.exprs, inside, pre.st), LAMBDA cond :
            With(TranslateBlock(s.blocks[3], inside, Append(path, 3), cond.st), LAMBDA post :
            With(TranslateBlock(s.blocks[2], inside, Append(path, 2), post.st), LAMBDA body :
                Copy(ForLoop(pre.node, cond.node[1], post.node, body.node), body.st)))))
      [] OTHER ->
            With(TranslateNames(s.names, scope, st), LAMBDA names :
            With(TranslateExpressions(s.exprs, scope, names.st), LAMBDA exprs :
            With(TranslateBlocks(s.blocks, 1, scope, path, exprs.st), LAMBDA blocks :
                Copy([s EXCEPT !.names = names.node, !.exprs = exprs.node, !.blocks = blocks.node],
                     blocks.st))))

TranslateStatements(block, n, scope, path, st) ==
    IF n > Len(block) THEN Copy(<< >>, st)
    ELSE With(TranslateStatement(block[n], scope, Append(path, n), st), LAMBDA first :
         With(TranslateStatements(block, n + 1, scope, path, first.st), LAMBDA rest :
             Copy(<<first.node>> \o rest.node, rest.st)))

TranslateBlock(block, scope, path, st) ==
    TranslateStatements(block, 1, Enter(scope, OwnNames(block), path), path, st)

Disambiguator(ast) ==
    TranslateBlock(ast, << >>, << >>, [d |-> Dispenser({}), translations |-> << >>]).node

-----------------------------------------------------------------------------
(* VarNameCleaner: st holds m_usedNames and m_translatedNames. *)

\* stripSuffix: the suffixes that are numbers
stripSuffix(name) == <<name[1]>>

RECURSIVE FreeSuffix(_, _, _)
FreeSuffix(used, name, i) ==
    IF Append(name, i) \in used THEN FreeSuffix(used, name, i + 1) ELSE Append(name, i)

findCleanName(used, name) ==
    LET stripped == stripSuffix(name)
    IN IF illegalName([used |-> used], stripped) THEN FreeSuffix(used, stripped, 1) ELSE stripped

RECURSIVE renameVariables(_, _)
renameVariables(names, st) ==
    IF names = << >> THEN Copy(<< >>, st)
    ELSE LET x == Head(names)
         IN With(findCleanName(st.used, x), LAMBDA clean :
         With(renameVariables(Tail(names),
                 [used |-> st.used \cup {clean},
                  translated |-> IF clean = x THEN st.translated
                                 ELSE (x :> clean) @@ st.translated]), LAMBDA rest :
             Copy(<<clean>> \o rest.node, rest.st)))

Cleaned(x, st) == IF x \in DOMAIN st.translated THEN st.translated[x] ELSE x

RECURSIVE CleanExpression(_, _)
CleanExpression(e, st) ==
    [e EXCEPT !.name = IF e.kind = "identifier" THEN Cleaned(@, st) ELSE @,
              !.arguments = MapSeq(LAMBDA a : CleanExpression(a, st), @)]

RECURSIVE CleanBlock(_, _, _)
RECURSIVE CleanBlocks(_, _, _)

CleanStatement(s, st, blacklist) ==
    CASE s.kind = "function" ->
            With(renameVariables(Parameters(s), [used |-> blacklist, translated |-> << >>]), LAMBDA params :
            With(renameVariables(s.returns, params.st), LAMBDA rets :
                Copy(FunctionDefinition(s.names[1], params.node, rets.node,
                                        CleanBlock(s.blocks[1], rets.st, blacklist).node), st)))
      [] s.kind = "let" ->
            With(renameVariables(s.names, st), LAMBDA names :
                Copy([s EXCEPT !.names = names.node,
                               !.exprs = MapSeq(LAMBDA e : CleanExpression(e, names.st), @)],
                     names.st))
      [] OTHER ->
            With(CleanBlocks(s.blocks, st, blacklist), LAMBDA blocks :
                Copy([s EXCEPT !.names = MapSeq(LAMBDA x : Cleaned(x, st), @),
                               !.exprs = MapSeq(LAMBDA e : CleanExpression(e, st), @),
                               !.blocks = blocks.node], blocks.st))

CleanBlocks(blocks, st, blacklist) ==
    IF blocks = << >> THEN Copy(<< >>, st)
    ELSE With(CleanBlock(Head(blocks), st, blacklist), LAMBDA first :
         With(CleanBlocks(Tail(blocks), first.st, blacklist), LAMBDA rest :
             Copy(<<first.node>> \o rest.node, rest.st)))

CleanBlock(block, st, blacklist) ==
    IF block = << >> THEN Copy(<< >>, st)
    ELSE With(CleanStatement(Head(block), st, blacklist), LAMBDA first :
         With(CleanBlock(Tail(block), first.st, blacklist), LAMBDA rest :
             Copy(<<first.node>> \o rest.node, rest.st)))

VarNameCleaner(ast) ==
    LET blacklist == {s.names[1] : s \in {t \in Range(ast) : IsFunction(t)}}
    IN CleanBlock(ast, [used |-> blacklist, translated |-> << >>], blacklist).node

-----------------------------------------------------------------------------
(* What a program does *)

Machine(input, fuel) ==
    [vars |-> << >>, funs |-> << >>, sto |-> [w \in Word |-> 0], mem |-> [w \in Word |-> 0],
     msize |-> 0, log |-> << >>, mode |-> "run", fuel |-> fuel, input |-> input]

Logged(m, entry) == [m EXCEPT !.log = Append(@, entry)]
Touch(m, address) == [m EXCEPT !.msize = IF address + 1 > @ THEN address + 1 ELSE @]
Halted(m, entry) == [Logged(m, entry) EXCEPT !.mode = "halt"]

\* The result of an instruction: the machine after it and the values it returns.
Result(m, values) == [m |-> m, values |-> values]

RunInstruction(i, m, a) ==
    CASE i = "MLOAD"  -> Result(Touch(m, a[1]), <<m.mem[a[1]]>>)
      [] i = "MSTORE" -> Result(Logged([Touch(m, a[1]) EXCEPT !.mem[a[1]] = a[2]],
                                       <<"MSTORE", a[1], a[2]>>), << >>)
      [] i = "SLOAD"  -> Result(m, <<m.sto[a[1]]>>)
      [] i = "SSTORE" -> Result(Logged([m EXCEPT !.sto[a[1]] = a[2]], <<"SSTORE", a[1], a[2]>>),
                                << >>)
      [] i = "MSIZE"  -> Result(m, <<Wrap(m.msize)>>)
      [] i = "CALLDATALOAD" -> Result(m, <<Wrap(m.input + a[1])>>)
      [] i = "CREATE" -> Result(Logged(m, <<"CREATE", a[1], a[2]>>), <<1>>)
      [] i = "CALLER" -> Result(m, <<2 ^ AddressBits - 1>>)
      [] i = "POP"    -> Result(m, << >>)
      [] i \in {"RETURN", "REVERT"} -> Result(Halted(m, <<i, a[1], a[2]>>), << >>)
      [] i \in {"STOP", "INVALID"}  -> Result(Halted(m, <<i, 0, 0>>), << >>)
      [] OTHER -> Result(m, <<Evaluate(i, a)>>)

\* vars is a function from names to words.
Bind(vars, names, values) ==
    [x \in DOMAIN vars \cup Range(names) |->
        LET at == {n \in DOMAIN names : names[n] = x}
        IN IF at = {} THEN vars[x] ELSE values[CHOOSE n \in at : TRUE]]
Assign(m, names, values) == [m EXCEPT !.vars = Bind(@, names, values)]
Zeros(names) == [n \in DOMAIN names |-> 0]

\* The functions of a block are visible in all of it.
Hoisted(m, block) ==
    LET own == {s \in Range(block) : IsFunction(s)}
    IN [m EXCEPT !.funs =
          [f \in DOMAIN @ \cup {s.names[1] : s \in own} |->
              IF \E s \in own : s.names[1] = f THEN CHOOSE s \in own : s.names[1] = f
              ELSE @[f]]]

RECURSIVE Run(_, _)            \* a block
RECURSIVE RunStatement(_, _)
RECURSIVE RunLoop(_, _)
RECURSIVE Compute(_, _)        \* an expression
RECURSIVE ComputeArguments(_, _, _)

\* values: those of the arguments after the n-th one
ComputeArguments(arguments, n, r) ==
    IF n = 0 THEN r
    ELSE With(Compute(arguments[n], r.m), LAMBDA c :
             ComputeArguments(arguments, n - 1, Result(c.m, c.values \o r.values)))

CallFunction(m, function, values) ==
    LET inside == [m EXCEPT !.vars = Bind(<< >>, Parameters(function) \o function.returns,
                                          values \o Zeros(function.returns))]
    IN With(Run(function.blocks[1], inside), LAMBDA end :
        Result([end EXCEPT !.vars = m.vars, !.funs = m.funs],
               [n \in DOMAIN function.returns |-> end.vars[function.returns[n]]]))

Compute(e, m) ==
    CASE e.kind = "literal" -> Result(m, <<e.value>>)
      [] e.kind = "identifier" -> Result(m, <<m.vars[e.name]>>)
      [] e.kind = "call" ->
            With(ComputeArguments(e.arguments, Len(e.arguments), Result(m, << >>)), LAMBDA a :
                CASE a.m.mode # "run" -> Result(a.m, <<0>>)
                  [] a.m.mode = "run" /\ IsBuiltin(e.name) -> RunInstruction(e.name[1], a.m, a.values)
                  [] a.m.mode = "run" /\ ~IsBuiltin(e.name) ->
                         CallFunction(a.m, a.m.funs[e.name], a.values))

RunLoop(loop, m) ==
    With(Compute(loop.exprs[1], m), LAMBDA c :
        IF c.m.mode # "run" \/ c.values[1] = 0 THEN c.m
        ELSE With(Run(loop.blocks[2], c.m), LAMBDA b :
             With(Run(loop.blocks[3], [b EXCEPT !.mode = "run"]), LAMBDA p :
                 CASE b.mode \in {"halt", "fuel"} -> b
                   [] b.mode = "break" -> [b EXCEPT !.mode = "run"]
                   [] b.mode \in {"run", "continue"} /\ p.mode = "run" -> RunLoop(loop, p)
                   [] OTHER -> p)))

RunStatement(s, m) ==
    CASE s.kind = "let" /\ s.exprs = << >> -> Assign(m, s.names, Zeros(s.names))
      [] s.kind \in {"let", "assignment"} /\ s.exprs # << >> ->
            With(Compute(s.exprs[1], m), LAMBDA c :
                IF c.m.mode = "run" THEN Assign(c.m, s.names, c.values) ELSE c.m)
      [] s.kind = "expression" -> Compute(s.exprs[1], m).m
      [] s.kind = "if" ->
            With(Compute(s.exprs[1], m), LAMBDA c :
                IF c.m.mode = "run" /\ c.values[1] # 0 THEN Run(s.blocks[1], c.m) ELSE c.m)
      [] s.kind = "switch" ->
            With(Compute(s.exprs[1], m), LAMBDA c :
            LET hits == {n \in DOMAIN s.values : s.values[n] = c.values[1]}
                others == {n \in DOMAIN s.values : s.values[n] = Default}
                taken == IF hits # {} THEN hits ELSE others
            IN IF c.m.mode = "run" /\ taken # {}
               THEN Run(s.blocks[CHOOSE n \in taken : TRUE], c.m) ELSE c.m)
      [] s.kind = "for" ->
            \* what pre declares is visible in the whole loop
            With(Run(s.blocks[1], m), LAMBDA p :
                IF p.mode = "run" THEN [RunLoop(s, Hoisted(p, s.blocks[1])) EXCEPT !.funs = m.funs]
                ELSE p)
      [] s.kind = "break" -> [m EXCEPT !.mode = "break"]
      [] s.kind = "continue" -> [m EXCEPT !.mode = "continue"]
      [] s.kind = "block" -> Run(s.blocks[1], m)
      [] s.kind = "function" -> m

RECURSIVE RunFrom(_, _, _)
RunFrom(block, n, m) ==
    IF n > Len(block) \/ m.mode # "run" THEN m
    ELSE IF m.fuel = 0 THEN [m EXCEPT !.mode = "fuel"]
    ELSE RunFrom(block, n + 1, RunStatement(block[n], [m EXCEPT !.fuel = @ - 1]))

Run(block, m) == [RunFrom(block, 1, Hoisted(m, block)) EXCEPT !.funs = m.funs]

\* What an observer sees of a program started with this input.
Behaviour(program, input, fuel) ==
    With(Run(program, Machine(input, fuel)), LAMBDA m :
        [ended |-> m.mode # "fuel", log |-> m.log])

\* q does what p does, for every input for which p comes to an end.
SameBehaviour(p, q, inputs, fuel) ==
    \A input \in inputs :
        With(Behaviour(p, input, fuel), LAMBDA b :
            b.ended => Behaviour(q, input, 8 * fuel) = b)

-----------------------------------------------------------------------------
(* What the code that CodeTransform emits does on the stack machine.  The   *)
(* first element of the stack is its top; a label is its position in the    *)
(* code.                                                                    *)

\* A machine with code: m is the machine of the interpreter.
Loaded(code, input) ==
    [code |-> code, pc |-> 1, stack |-> << >>, m |-> Machine(input, 0)]

Position(code, label) ==
    CHOOSE n \in DOMAIN code : code[n].op = "LABEL" /\ code[n].label = label

Running(r) == r.m.mode = "run" /\ r.pc <= Len(r.code)

\* The top n elements taken off, and others put there instead
Replaced(r, n, values) ==
    [r EXCEPT !.stack = values \o SubSeq(@, n + 1, Len(@)), !.pc = @ + 1]

\* A stack that is not high enough is the end of the program.
Underflow(r) == [r EXCEPT !.m = Halted(@, <<"UNDERFLOW", 0, 0>>)]

ExecuteInstruction(i, r) ==
    LET n == instructionInfo[i].args
    IN With(RunInstruction(i, r.m, SubSeq(r.stack, 1, n)), LAMBDA result :
        IF Len(r.stack) < n THEN Underflow(r)
        ELSE [Replaced(r, n, IF result.m.mode = "run" THEN result.values ELSE << >>) EXCEPT !.m = result.m])

Execute(r) ==
    LET item == r.code[r.pc]
        s == r.stack
    IN CASE item.op = "PUSH" -> Replaced(r, 0, <<item.n>>)
         [] item.op = "PUSHLABEL" -> Replaced(r, 0, <<Position(r.code, item.label)>>)
         [] item.op = "LABEL" -> Replaced(r, 0, << >>)
         [] item.op = "DUP" -> IF Len(s) < item.n THEN Underflow(r) ELSE Replaced(r, 0, <<s[item.n]>>)
         [] item.op = "SWAP" ->
                IF Len(s) < item.n + 1 THEN Underflow(r)
                ELSE [r EXCEPT !.pc = @ + 1, !.stack[1] = s[item.n + 1], !.stack[item.n + 1] = s[1]]
         [] item.op = "JUMP" ->
                IF s = << >> THEN Underflow(r) ELSE [r EXCEPT !.stack = Tail(@), !.pc = s[1]]
         [] item.op = "JUMPI" ->
                IF Len(s) < 2 THEN Underflow(r)
                ELSE [r EXCEPT !.stack = SubSeq(@, 3, Len(@)), !.pc = IF s[2] # 0 THEN s[1] ELSE @ + 1]
         [] OTHER -> ExecuteInstruction(item.op, r)

\* 2^n instructions, fewer if the program ends before
RECURSIVE ExecuteMany(_, _)
ExecuteMany(n, r) ==
    CASE ~Running(r) -> r
      [] Running(r) /\ n = 0 -> Execute(r)
      [] Running(r) /\ n > 0 -> ExecuteMany(n - 1, ExecuteMany(n - 1, r))

\* The code does what p does, for every input for which p comes to an end, and
\* leaves nothing on the stack if it runs to its end.
CodeDoes(code, p, inputs, fuel, instructions) ==
    \A input \in inputs :
        With(Behaviour(p, input, fuel), LAMBDA b :
        With(ExecuteMany(instructions, Loaded(code, input)), LAMBDA r :
            b.ended => /\ ~Running(r)
                       /\ r.m.log = b.log
                       /\ r.m.mode = "run" => r.stack = << >>))

=============================================================================
