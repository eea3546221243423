-------------------------- MODULE YulCodeTransform --------------------------
(***************************************************************************)
(* libyul/backends/svm: CodeTransform turns a Yul program into code for the *)
(* stack machine, and CompilabilityChecker asks it which functions are too  *)
(* deep for the stack.                                                      *)
(*                                                                         *)
(* The members of CodeTransform, of its context and of the assembly are a   *)
(* record st:                                                               *)
(*   code, height  the items and the stack height of the assembly           *)
(*   labels        how many labels there are                                *)
(*   heights       variableStackHeights                                     *)
(*   references    variableReferences                                       *)
(*   scheduled     m_variablesScheduledForDeletion                          *)
(*   unused        m_unusedStackSlots                                       *)
(*   scope         the variables of m_scope itself                          *)
(*   loops         forLoopStack, the innermost one last                     *)
(*   adjustment    m_stackAdjustment                                        *)
(*   analysed      the stack height that AsmAnalyzer found for this place   *)
(*   errors        m_stackErrors: the function, empty for the program       *)
(*                 itself, and how many slots are too many                  *)
(*   exception     the StackTooDeepError that is on its way, if any         *)
(*   failed        whether an assertion has failed                          *)
(*   optimise      m_allowStackOpt                                          *)
(* Different variables have different names here: where the code has the    *)
(* address of a Scope::Variable, there is the name that Disambiguator would *)
(* give it.  SVM 1.5 is not modelled.                                       *)
(***************************************************************************)
EXTENDS YulStructure

\* How far SWAP and DUP reach: 17 and 16 in the code.
CONSTANT StackReach

ASSUME StackReachAssumption == StackReach \in Nat \ {0}

Item(op, n, label) == [op |-> op, n |-> n, label |-> label]
Push(n) == Item("PUSH", n, << >>)
PushLabel(label) == Item("PUSHLABEL", 0, label)
Label(label) == Item("LABEL", 0, label)
Operation(i) == Item(i, 0, << >>)
Dup(n) == Item("DUP", n, << >>)
Swap(n) == Item("SWAP", n, << >>)

Thrown(st) == st.exception # << >>
Throw(st, error) == [st EXCEPT !.exception = <<error>>]

\* An item and what it does to the stack height; nothing happens once an
\* exception has been thrown.
Emit(st, item, change) ==
    IF Thrown(st) THEN st ELSE [st EXCEPT !.code = Append(@, item), !.height = @ + change]

appendInstruction(st, i) == Emit(st, Operation(i), instructionInfo[i].ret - instructionInfo[i].args)
appendConstant(st, n) == Emit(st, Push(n), 1)
appendLabelReference(st, label) == Emit(st, PushLabel(label), 1)
appendLabel(st, label) == Emit(st, Label(label), 0)
appendJump(st, stackDiffAfter) == Emit(st, Operation("JUMP"), stackDiffAfter - 1)
appendJumpTo(st, label, stackDiffAfter) ==
    appendJump(appendLabelReference(st, label), stackDiffAfter)
appendJumpToIf(st, label) == Emit(appendLabelReference(st, label), Operation("JUMPI"), -2)

\* newLabelId; function entries are labels too, named after the function.
NewLabel(st) == <<"", st.labels + 1>>
WithLabels(st, n) == [st EXCEPT !.labels = @ + n]

RECURSIVE Repeat(_, _, _)
Repeat(st, i, n) == IF n <= 0 THEN st ELSE Repeat(appendInstruction(st, i), i, n - 1)

polAssert(condition, st) == IF Thrown(st) THEN st ELSE [st EXCEPT !.failed = @ \/ ~condition]

\* checkStackHeight
checkStackHeight(st) == polAssert(st.analysed = st.height - st.adjustment, st)

-----------------------------------------------------------------------------
(* The variables on the stack *)

\* VariableReferenceCounter: as ReferencesCounter, and the return variables
\* count once more.
VariableReferences(ast) ==
    LET returned == UNION {Range(s.returns) : s \in Statements(ast)}
        all == NamesInBlock(ast)
    IN [x \in {y \in all : References(ast, y) > 0 \/ y \in returned} |->
            References(ast, x) + (IF x \in returned THEN 1 ELSE 0)]

unreferenced(x, st) == x \notin DOMAIN st.references \/ st.references[x] = 0

Without(f, keys) == [x \in DOMAIN f \ keys |-> f[x]]
At(f, x, v) == [y \in DOMAIN f \cup {x} |-> IF y = x THEN v ELSE f[y]]

decreaseReference(x, st) ==
    IF ~st.optimise \/ Thrown(st) THEN st
    ELSE LET checked == polAssert(~unreferenced(x, st), st)
         IN [checked EXCEPT !.references[x] = @ - 1,
                            !.scheduled = IF st.references[x] = 1 THEN @ \cup {x} ELSE @]

\* The slots on the top of the stack that nobody uses
RECURSIVE PopUnused(_)
PopUnused(st) ==
    IF st.height - 1 \notin st.unused THEN st
    ELSE PopUnused([appendInstruction(st, "POP")
                      EXCEPT !.unused = @ \ {st.height - 1}, !.adjustment = @ - 1])

\* freeUnusedVariables, deleteVariable
\* Mutant of freeUnusedVariables: variables of the surrounding scopes go too.
freeAllUnusedVariables(st) ==
    IF ~st.optimise \/ Thrown(st) THEN st
    ELSE LET gone == st.scheduled \cap DOMAIN st.heights
         IN PopUnused([st EXCEPT !.unused = @ \cup {st.heights[x] : x \in gone},
                                 !.heights = Without(@, gone),
                                 !.references = Without(@, gone),
                                 !.scheduled = @ \ gone])

freeUnusedVariables(st) ==
    IF ~st.optimise \/ Thrown(st) THEN st
    ELSE LET gone == st.scope \cap st.scheduled
             checked == polAssert(gone \subseteq DOMAIN st.heights, st)
         IN PopUnused([checked EXCEPT !.unused = @ \cup {st.heights[x] : x \in gone \cap DOMAIN st.heights},
                                      !.heights = Without(@, gone),
                                      !.references = Without(@, gone),
                                      !.scheduled = @ \ gone])

\* variableHeightDiff: the distance to the variable in n, the exception if it
\* is too far away
variableHeightDiff(x, forSwap, st) ==
    LET limit == IF forSwap THEN StackReach + 1 ELSE StackReach
        known == x \in DOMAIN st.heights
        diff == IF known THEN st.height - st.heights[x] ELSE 0
    IN With(polAssert(known /\ diff > (IF forSwap THEN 1 ELSE 0), st), LAMBDA checked :
        [n |-> diff,
         st |-> IF diff > limit /\ ~Thrown(st)
                THEN Throw([checked EXCEPT !.errors = Append(@, << <<"">>, diff - limit>>)], << <<"">>, diff - limit>>)
                ELSE checked])

\* generateAssignment
StoreIn(x, st) ==
    With(variableHeightDiff(x, TRUE, st), LAMBDA d :
        appendInstruction(Emit(d.st, Swap(d.n - 1), 0), "POP"))
generateAssignment(x, st) == decreaseReference(x, StoreIn(x, st))

-----------------------------------------------------------------------------
(* Expressions *)

RECURSIVE TransformExpression(_, _)

VisitArguments(arguments, st) == FoldRight(LAMBDA e, q : TransformExpression(e, q), arguments, st)

\* operator()(FunctionCall): the return label is below the arguments
TransformCall(e, st, returns) ==
    LET label == NewLabel(st)
        before == [appendLabelReference(WithLabels(st, 1), label) EXCEPT !.adjustment = @ + 1]
    IN With(appendJumpTo(VisitArguments(e.arguments, before), e.name,
                         returns - Len(e.arguments) - 1), LAMBDA called :
        [appendLabel(called, label) EXCEPT !.adjustment = @ - 1])

TransformIdentifier(x, st) ==
    With(variableHeightDiff(x, FALSE, st), LAMBDA d :
        decreaseReference(x, Emit(d.st, Dup(d.n), 1)))

TransformExpression(e, st) ==
    CASE Thrown(st) -> st
      [] ~Thrown(st) /\ e.kind = "literal" -> appendConstant(st, e.value)
      [] ~Thrown(st) /\ e.kind = "identifier" -> TransformIdentifier(e.name, st)
      [] ~Thrown(st) /\ e.kind = "call" /\ IsBuiltin(e.name) ->
            appendInstruction(VisitArguments(e.arguments, st), e.name[1])
      [] ~Thrown(st) /\ e.kind = "call" /\ ~IsBuiltin(e.name) ->
            TransformCall(e, st, st.returns[e.name])

\* expectDeposit
Deposit(e, st, n) ==
    With(TransformExpression(e, st), LAMBDA r :
        polAssert(r.height = st.height + n, r))

-----------------------------------------------------------------------------
(* Statements *)

\* One variable of a declaration, from the last one to the first one.  The
\* values are still on the top of the stack while none of them has stayed.
DeclareVariable(x, height, q) ==
    LET st == [q.st EXCEPT !.heights = At(@, x, height)]
    IN CASE ~st.optimise \/ Thrown(st) -> [q EXCEPT !.st = st]
         [] st.optimise /\ ~Thrown(st) /\ unreferenced(x, st) /\ q.atTopOfStack ->
                [q EXCEPT !.st = [appendInstruction(st, "POP")
                                    EXCEPT !.heights = Without(@, {x}), !.adjustment = @ - 1]]
         [] st.optimise /\ ~Thrown(st) /\ unreferenced(x, st) /\ ~q.atTopOfStack ->
                [q EXCEPT !.st = [st EXCEPT !.scheduled = @ \cup {x}]]
         [] st.optimise /\ ~Thrown(st) /\ ~unreferenced(x, st) /\ st.unused = {} ->
                [st |-> st, atTopOfStack |-> FALSE]
         [] OTHER ->
                LET slot == CHOOSE n \in st.unused : \A k \in st.unused : n <= k
                IN [q EXCEPT !.st = [StoreIn(x, [st EXCEPT !.heights[x] = slot,
                                                           !.unused = @ \ {slot}])
                                       EXCEPT !.adjustment = @ - 1]]

TransformDeclaration(s, st) ==
    With(IF s.exprs # << >> THEN Deposit(s.exprs[1], st, Len(s.names))
         ELSE FoldLeft(LAMBDA q, x : appendConstant(q, 0), st, s.names), LAMBDA valued :
    With(FoldRight(LAMBDA n, q : DeclareVariable(s.names[n], st.height + n - 1, q),
                   [n \in DOMAIN s.names |-> n], [st |-> valued, atTopOfStack |-> TRUE]), LAMBDA done :
        [done.st EXCEPT !.analysed = @ + Len(s.names)]))

RECURSIVE TransformBlock(_, _)
RECURSIVE visitStatements(_, _)

\* finalizeBlock: outside is the state in front of the block
finalizeBlock(st, outside) ==
    With(freeUnusedVariables(st), LAMBDA freed :
    LET n == Cardinality(st.scope)
    IN With(IF Thrown(st) THEN st
            ELSE IF st.optimise
            THEN [polAssert(st.scope \cap (DOMAIN freed.heights \cup DOMAIN freed.references) = {},
                         freed) EXCEPT !.adjustment = @ + n]
            ELSE Repeat(freed, "POP", n), LAMBDA popped :
        [polAssert(popped.height = outside.height, popped)
           EXCEPT !.scope = outside.scope, !.analysed = @ - n]))

VariablesOf(block) ==
    UNION {IF s.kind = "let" THEN Range(s.names) ELSE {} : s \in Range(block)}

TransformBlock(block, st) ==
    With(finalizeBlock(visitStatements(block, [st EXCEPT !.scope = VariablesOf(block)]), st), LAMBDA r :
        IF r.errors # << >> /\ ~Thrown(r) THEN Throw(r, r.errors[1]) ELSE r)

TransformIf(s, st) ==
    LET end == NewLabel(st)
    IN With(appendJumpToIf(appendInstruction(Deposit(s.exprs[1], WithLabels(st, 1), 1), "ISZERO"), end), LAMBDA cond :
        appendLabel(TransformBlock(s.blocks[1], cond), end))

\* The body of the default case is in line, where it is met.
TransformSwitch(s, st) ==
    LET end == NewLabel(st)
        BodyLabel(n) == <<"", st.labels + 1 + n>>
    IN With([Deposit(s.exprs[1], WithLabels(st, 1 + Len(s.values)), 1) EXCEPT !.analysed = @ + 1], LAMBDA start :
    LET Test(q, n) == IF s.values[n] = Default THEN TransformBlock(s.blocks[n], q)
                      ELSE appendJumpToIf(appendInstruction(Emit(appendConstant(q, s.values[n]), Dup(2), 1), "EQ"),
                                          BodyLabel(n))
        numbers == [n \in DOMAIN s.values |-> n]
    IN With(appendJumpTo(FoldLeft(Test, start, numbers), end, 0), LAMBDA tested :
    LET bodies == SelectSeq(numbers, LAMBDA n : s.values[n] # Default)
        Body(q, k) == With(TransformBlock(s.blocks[bodies[k]], appendLabel(q, BodyLabel(bodies[k]))), LAMBDA b :
                          IF k < Len(bodies) THEN appendJumpTo(b, end, 0) ELSE b)
    IN With(FoldLeft(Body, tested, [k \in DOMAIN bodies |-> k]), LAMBDA all :
        [appendInstruction(appendLabel(all, end), "POP") EXCEPT !.analysed = @ - 1])))

TransformFor(s, st) ==
    LET Numbered(n) == <<"", st.labels + n>>
        loopStart == Numbered(1)
        postPart == Numbered(2)
        loopEnd == Numbered(3)
    IN With(visitStatements(s.blocks[1], [WithLabels(st, 3) EXCEPT !.scope = VariablesOf(s.blocks[1])]), LAMBDA pre :
    With(appendJumpToIf(appendInstruction(Deposit(s.exprs[1], appendLabel(pre, loopStart), 1), "ISZERO"),
                        loopEnd), LAMBDA cond :
    With([cond EXCEPT !.loops = Append(@, [post |-> postPart, done |-> loopEnd,
                                           height |-> cond.height])], LAMBDA inside :
    With(appendLabel(TransformBlock(s.blocks[2], inside), postPart), LAMBDA body :
    With(appendJumpTo(TransformBlock(s.blocks[3], body), loopStart, 0), LAMBDA post :
        [finalizeBlock(appendLabel(post, loopEnd), st) EXCEPT !.loops = st.loops])))))

\* appendPopUntil and the jump of break and continue
Leave(st, label, height) ==
    LET n == st.height - height IN appendJumpTo(Repeat(st, "POP", n), label, n)

\* stackError: the code must not be used, only the height has to be right.
stackError(st, targetHeight) ==
    [appendInstruction(st, "INVALID") EXCEPT !.height = targetHeight]

\* The end of a function: <return label> <arguments> <return values> becomes
\* <return values> <return label>.
RECURSIVE Reshuffle(_, _)
Reshuffle(st, layout) ==
    LET size == Len(layout)
        last == layout[size]
    IN CASE last = size - 1 -> polAssert(\A n \in 1..size : layout[n] = n - 1, st)
         [] last < 0 -> Reshuffle(appendInstruction(st, "POP"), Front(layout))
         [] OTHER -> Reshuffle(Emit(st, Swap(size - last - 1), 0),
                               [layout EXCEPT ![last + 1] = last, ![size] = layout[last + 1]])

TransformFunction(s, st) ==
    LET params == Parameters(s)
        nParams == Len(params)
        nReturns == Len(s.returns)
        height == 1 + nParams + nReturns
        afterFunction == NewLabel(st)
        \* the parameters from the last one to the first one, then the return variables
        slots == [x \in Range(params) \cup Range(s.returns) |->
                    IF x \in Range(params) THEN 1 + nParams - (CHOOSE n \in DOMAIN params : params[n] = x)
                    ELSE nParams + (CHOOSE n \in DOMAIN s.returns : s.returns[n] = x)]
    IN With(appendLabel(appendJumpTo(WithLabels(st, 1), afterFunction,
                                     1 + nParams - st.height), s.names[1]), LAMBDA entry :
    With(FoldLeft(LAMBDA q, x : appendConstant(q, 0), entry, s.returns), LAMBDA zeroed :
    With(TransformBlock(s.blocks[1],
            [zeroed EXCEPT !.heights = slots @@ @, !.scheduled = {}, !.unused = {},
                           !.adjustment = 1, !.analysed = nParams + nReturns, !.errors = << >>]), LAMBDA inner :
    \* the members of this CodeTransform again
    With([inner EXCEPT !.scheduled = st.scheduled, !.unused = st.unused, !.scope = st.scope,
                       !.adjustment = st.adjustment + 1, !.errors = st.errors,
                       !.exception = << >>, !.analysed = st.analysed], LAMBDA back :
    With(IF ~Thrown(inner) THEN back
         ELSE LET e == inner.exception[1]
              IN [stackError(back, height) EXCEPT !.errors =
                    Append(@, IF e[1] = <<"">> THEN <<s.names[1], e[2]>> ELSE e)], LAMBDA caught :
    LET layout == <<nReturns>> \o [n \in 1..nParams |-> -1] \o [n \in 1..nReturns |-> n - 1]
        tooMany == Len(layout) - (StackReach + 1)
    IN With(IF tooMany > 0
            THEN [stackError(caught, caught.height - nParams)
                    EXCEPT !.errors = Append(@, <<s.names[1], tooMany>>)]
            ELSE Reshuffle(caught, layout), LAMBDA shuffled :
        [appendLabel(appendJump(shuffled, st.height - nReturns), afterFunction)
           EXCEPT !.adjustment = st.adjustment]))))))

TransformStatement(s, st) ==
    CASE s.kind = "let" -> TransformDeclaration(s, st)
      [] s.kind = "assignment" ->
            FoldRight(LAMBDA x, q : generateAssignment(x, q), s.names,
                      Deposit(s.exprs[1], st, Len(s.names)))
      [] s.kind = "expression" -> TransformExpression(s.exprs[1], st)
      [] s.kind = "if" -> TransformIf(s, st)
      [] s.kind = "switch" -> TransformSwitch(s, st)
      [] s.kind = "for" -> TransformFor(s, st)
      [] s.kind = "break" -> Leave(st, Last(st.loops).done, Last(st.loops).height)
      [] s.kind = "continue" -> Leave(st, Last(st.loops).post, Last(st.loops).height)
      [] s.kind = "block" -> TransformBlock(s.blocks[1], st)
      [] s.kind = "function" -> TransformFunction(s, st)

visitStatements(block, st) ==
    freeUnusedVariables(
        FoldLeft(LAMBDA q, s : IF Thrown(q) THEN q
                               ELSE checkStackHeight(TransformStatement(s, freeUnusedVariables(q))),
                 st, block))

\* The whole program, whose end is the end of the code.
CodeTransform(ast, optimise) ==
    With(Disambiguator(ast), LAMBDA tree :
    With({s \in Statements(tree) : IsFunction(s)}, LAMBDA functions :
        TransformBlock(tree,
         [code |-> << >>, height |-> 0, labels |-> 0, heights |-> << >>,
          references |-> IF optimise THEN VariableReferences(tree) ELSE << >>,
          scheduled |-> {}, unused |-> {}, scope |-> {}, loops |-> << >>, adjustment |-> 0,
          analysed |-> 0, errors |-> << >>, exception |-> << >>,
          failed |-> FALSE, optimise |-> optimise,
          returns |-> [f \in {s.names[1] : s \in functions} |->
                         Len((CHOOSE s \in functions : s.names[1] = f).returns)]])))

\* CompilabilityChecker: the greatest depth of every function that failed, the
\* main program having the empty name.
CompilabilityChecker(ast, optimise) ==
    With(Range(CodeTransform(ast, optimise).errors), LAMBDA all :
        [f \in {e[1] : e \in all} |->
             CHOOSE n \in {e[2] : e \in all} :
                 <<f, n>> \in all /\ \A e \in all : e[1] = f => e[2] <= n])

=============================================================================
