--------------------- MODULE RedundantAssignEliminator ---------------------
(***************************************************************************)
(* RedundantAssignEliminator of the Yul optimiser: one walk over the        *)
(* program decides of every assignment whether its value is used, with the  *)
(* states joined where the control flow joins; AssignmentRemover then       *)
(* removes those that are not.                                              *)
(*                                                                         *)
(* The walk is an operator on the members of the object, which are gathered *)
(* in a record w:                                                           *)
(*   assignments  m_assignments, as a function from assignments to states   *)
(*   declared     m_declaredVariables                                       *)
(*   removals     m_pendingRemovals                                         *)
(*   breaks       m_forLoopInfo.pendingBreakStmts, continues likewise; they *)
(*                are only ever merged, and so a set of functions           *)
(*   depth        m_forLoopNestingDepth                                     *)
(***************************************************************************)
EXTENDS Integers, Sequences, FiniteSets, SequencesExt

(* Yul statements (libyul/AsmData.h) as far as variables and control flow   *)
(* go, and which values may be read where.  An expression is the set of     *)
(* variables it refers to and whether SideEffectsCollector finds it         *)
(* movable.  Two assignments differ in their id, like two addresses.        *)

Expression(variables, movable) == [variables |-> variables, movable |-> movable]

VariableDeclaration(variables, value) == [op |-> "let", vars |-> variables, value |-> value]
Assignment(id, variables, value) ==
    [op |-> "assign", id |-> id, vars |-> variables, value |-> value]
ExpressionStatement(value) == [op |-> "expression", value |-> value]
IfStatement(condition, body) == [op |-> "if", condition |-> condition, body |-> body]
SwitchStatement(expression, cases, hasDefault) ==
    [op |-> "switch", expression |-> expression, cases |-> cases, hasDefault |-> hasDefault]
ForLoop(condition, body, post) ==
    [op |-> "for", condition |-> condition, body |-> body, post |-> post]
Break    == [op |-> "break"]
Continue == [op |-> "continue"]
Block(statements) == [op |-> "block", statements |-> statements]
FunctionDefinition(parameters, returnVariables, body) ==
    [op |-> "function", parameters |-> parameters, returnVariables |-> returnVariables,
     body |-> body]

-----------------------------------------------------------------------------
(* The assignments whose value is read on some path of the program.  A flow *)
(* is what may hold at one point: defs are the assignments that may have    *)
(* given their variable its value, breaks and continues those at the jumps  *)
(* out of the innermost loop, read the ones that were read so far.  No      *)
(* condition is known, so that every branch may be taken and a loop may run *)
(* any number of times.                                                     *)

\* An assignment of several values at once is never redundant: it is not followed.
IsSingle(assignment) == Cardinality(assignment.vars) = 1

NoFlow == [defs |-> {}, breaks |-> {}, continues |-> {}, read |-> {}]

OfVariables(defs, variables) == {a \in defs : a.vars \subseteq variables}

Reading(flow, expression) ==
    [flow EXCEPT !.read = @ \cup OfVariables(flow.defs, expression.variables)]

Declaring(flow, variables) == [flow EXCEPT !.defs = @ \ OfVariables(@, variables)]

RECURSIVE Flow(_, _)
RECURSIVE FlowList(_, _)
RECURSIVE FlowCases(_, _)
RECURSIVE FlowLoop(_, _)

FlowList(statements, flow) ==
    IF statements = << >> THEN flow ELSE FlowList(Tail(statements), Flow(Head(statements), flow))

\* The union of the flows out of the cases, each of which starts with flow.defs.
FlowCases(cases, flow) ==
    IF cases = << >> THEN [flow EXCEPT !.defs = {}]
    ELSE LET one == Flow(Head(cases), flow)
             rest == FlowCases(Tail(cases), [one EXCEPT !.defs = flow.defs])
         IN [rest EXCEPT !.defs = @ \cup one.defs]

\* The flow in front of the condition once another run of the loop adds nothing.
FlowLoop(loop, flow) ==
    LET body  == Flow(loop.body, Reading(flow, loop.condition))
        after == Flow(loop.post, [body EXCEPT !.defs = @ \cup body.continues, !.continues = {}])
        joined == [after EXCEPT !.defs = @ \cup flow.defs]
    IN IF joined = flow THEN flow ELSE FlowLoop(loop, joined)

Flow(statement, flow) ==
    CASE statement.op = "let" -> Declaring(Reading(flow, statement.value), statement.vars)
      [] statement.op = "assign" ->
            [Declaring(Reading(flow, statement.value), statement.vars)
                EXCEPT !.defs = @ \cup {a \in {statement} : IsSingle(a)}]
      [] statement.op = "expression" -> Reading(flow, statement.value)
      [] statement.op = "if" ->
            LET skipped == Reading(flow, statement.condition)
            IN [Flow(statement.body, skipped) EXCEPT !.defs = @ \cup skipped.defs]
      [] statement.op = "switch" ->
            LET before == Reading(flow, statement.expression)
                taken == FlowCases(statement.cases, before)
            IN [taken EXCEPT !.defs = IF statement.hasDefault THEN @ ELSE @ \cup before.defs]
      [] statement.op = "for" ->
            LET inside == FlowLoop(statement, [flow EXCEPT !.breaks = {}, !.continues = {}])
                ended == Reading(inside, statement.condition)
            IN [ended EXCEPT !.defs = @ \cup inside.breaks,
                             !.breaks = flow.breaks, !.continues = flow.continues]
      [] statement.op = "break" -> [flow EXCEPT !.defs = {}, !.breaks = @ \cup flow.defs]
      [] statement.op = "continue" -> [flow EXCEPT !.defs = {}, !.continues = @ \cup flow.defs]
      [] statement.op = "block" -> FlowList(statement.statements, flow)
      [] statement.op = "function" ->
            LET end == Flow(statement.body, [NoFlow EXCEPT !.read = flow.read])
            IN [flow EXCEPT !.read = end.read \cup OfVariables(end.defs, statement.returnVariables)]

\* Assignments whose value may be read.
ReadAssignments(program) == Flow(program, NoFlow).read

-----------------------------------------------------------------------------
CONSTANTS
    Programs,       \* the Yul programs to run on
    NestingLimit    \* loops nested less deeply are run twice: 6

ASSUME NestingAssumption == NestingLimit \in Nat \ {0}

VARIABLES
    program,             \* _ast
    m_pendingRemovals,
    result,              \* _ast after run()
    step

vars == <<program, m_pendingRemovals, result, step>>

Unused == 0
Undecided == 1
Used == 2

NoAssignments == [a \in {} |-> Undecided]

NewWalk == [assignments |-> NoAssignments, declared |-> {}, removals |-> {},
            breaks |-> {}, continues |-> {}, depth |-> 0]

join(s, t) == IF s >= t THEN s ELSE t

merge(target, source) ==
    [a \in DOMAIN target \cup DOMAIN source |->
        IF a \notin DOMAIN source THEN target[a]
        ELSE IF a \notin DOMAIN target THEN source[a]
        ELSE join(target[a], source[a])]

RECURSIVE mergeAll(_, _)
mergeAll(target, sources) ==
    IF sources = {} THEN target
    ELSE LET source == CHOOSE s \in sources : TRUE
         IN mergeAll(merge(target, source), sources \ {source})

\* For every one of the variables.
changeUndecidedTo(assignments, variables, newState) ==
    [a \in DOMAIN assignments |->
        IF a.vars \subseteq variables /\ assignments[a] = Undecided
        THEN newState ELSE assignments[a]]

\* visit() of an expression: operator()(Identifier) for every variable in it.
Refer(w, expression) ==
    [w EXCEPT !.assignments = changeUndecidedTo(@, expression.variables, Used)]

\* The assignments to x among those tracked that are not used when x goes out
\* of scope.
NotUsed(assignments, x, finalState) ==
    {a \in DOMAIN assignments :
        /\ a.vars = {x}
        /\ (IF assignments[a] = Undecided THEN finalState ELSE assignments[a]) = Unused}

Removable(assignments, x, finalState) ==
    {a \in NotUsed(assignments, x, finalState) : a.value.movable}

Without(assignments, x) == [a \in {b \in DOMAIN assignments : b.vars # {x}} |-> assignments[a]]

finalize(w, x, finalState) ==
    [w EXCEPT
        !.removals = @ \cup UNION {Removable(t, x, finalState) :
                                     t \in {w.assignments} \cup w.breaks \cup w.continues},
        !.assignments = Without(@, x),
        !.breaks = {Without(t, x) : t \in @},
        !.continues = {Without(t, x) : t \in @}]

RECURSIVE FinalizeAll(_, _, _)
FinalizeAll(w, variables, finalState) ==
    IF variables = {} THEN w
    ELSE LET x == CHOOSE v \in variables : TRUE
         IN FinalizeAll(finalize(w, x, finalState), variables \ {x}, finalState)

-----------------------------------------------------------------------------

RECURSIVE Visit(_, _)
RECURSIVE VisitList(_, _)
RECURSIVE VisitCases(_, _, _)

VisitList(statements, w) ==
    IF statements = << >> THEN w ELSE VisitList(Tail(statements), Visit(Head(statements), w))

VisitVariableDeclaration(statement, w) ==
    [Refer(w, statement.value) EXCEPT !.declared = @ \cup statement.vars]

\* m_assignments[...][&a]: undecided unless it is there already, and only for
\* an assignment to one variable.
Track(assignments, a) ==
    [b \in DOMAIN assignments \cup {c \in {a} : IsSingle(c)} |->
        IF b \in DOMAIN assignments THEN assignments[b] ELSE Undecided]

\* Mutant of VisitAssignment: the values that a overwrites stay undecided.
VisitAssignmentOnly(a, w) ==
    LET seen == Refer(w, a.value)
    IN [seen EXCEPT !.assignments = Track(@, a)]

VisitAssignment(a, w) ==
    LET seen == Refer(w, a.value)
    IN [seen EXCEPT !.assignments = Track(changeUndecidedTo(@, a.vars, Unused), a)]

\* Mutant of VisitIf: the path that skips the body is forgotten.
VisitIfTaken(statement, w) == Visit(statement.body, Refer(w, statement.condition))

VisitIf(statement, w) ==
    LET skipBranch == Refer(w, statement.condition)
        taken == Visit(statement.body, skipBranch)
    IN [taken EXCEPT !.assignments = merge(@, skipBranch.assignments)]

\* The cases in turn, each from preState; the states they leave are collected.
VisitCases(cases, w, preState) ==
    IF cases = << >> THEN [walk |-> w, branches |-> << >>]
    ELSE LET one == Visit(Head(cases), [w EXCEPT !.assignments = preState])
             rest == VisitCases(Tail(cases), one, preState)
         IN [rest EXCEPT !.branches = <<one.assignments>> \o @]

VisitSwitch(statement, w) ==
    LET before == Refer(w, statement.expression)
        visited == VisitCases(statement.cases, before, before.assignments)
        base == IF statement.hasDefault THEN NoAssignments ELSE before.assignments
    IN [visited.walk EXCEPT !.assignments = mergeAll(base, Range(visited.branches))]

\* One run of the body and the post block, up to the condition.
RunOfLoop(loop, w) ==
    LET body == Visit(loop.body, w)
        continued == [body EXCEPT !.assignments = mergeAll(@, body.continues), !.continues = {}]
    IN Refer(Visit(loop.post, continued), loop.condition)

VisitFor(loop, w) ==
    LET zeroRuns == Refer([w EXCEPT !.breaks = {}, !.continues = {}, !.depth = @ + 1],
                          loop.condition)
        oneRun == RunOfLoop(loop, zeroRuns)
        twoRuns == RunOfLoop(loop, oneRun)
        runs == IF oneRun.depth < NestingLimit
                THEN [twoRuns EXCEPT !.assignments = merge(@, oneRun.assignments)]
                ELSE [oneRun EXCEPT !.assignments =
                        [a \in DOMAIN @ |->
                            IF a \in DOMAIN zeroRuns.assignments THEN @[a] ELSE Used]]
    IN [runs EXCEPT
            !.assignments = mergeAll(merge(@, zeroRuns.assignments), runs.breaks),
            !.breaks = w.breaks, !.continues = w.continues, !.depth = w.depth]

VisitBlock(block, w) ==
    LET inside == VisitList(block.statements, [w EXCEPT !.declared = {}])
    IN [FinalizeAll(inside, inside.declared, Unused) EXCEPT !.declared = w.declared]

VisitFunction(function, w) ==
    LET body == Visit(function.body, [w EXCEPT !.declared = {}, !.assignments = NoAssignments,
                                               !.breaks = {}, !.continues = {}])
        end == FinalizeAll(FinalizeAll(body, function.parameters, Unused),
                           function.returnVariables, Used)
    IN [w EXCEPT !.removals = end.removals]

VisitBreak(w) ==
    [w EXCEPT !.breaks = @ \cup {w.assignments}, !.assignments = NoAssignments]

VisitContinue(w) ==
    [w EXCEPT !.continues = @ \cup {w.assignments}, !.assignments = NoAssignments]

Visit(statement, w) ==
    CASE statement.op = "let"        -> VisitVariableDeclaration(statement, w)
      [] statement.op = "assign"     -> VisitAssignment(statement, w)
      [] statement.op = "expression" -> Refer(w, statement.value)
      [] statement.op = "if"         -> VisitIf(statement, w)
      [] statement.op = "switch"     -> VisitSwitch(statement, w)
      [] statement.op = "for"        -> VisitFor(statement, w)
      [] statement.op = "break"      -> VisitBreak(w)
      [] statement.op = "continue"   -> VisitContinue(w)
      [] statement.op = "block"      -> VisitBlock(statement, w)
      [] statement.op = "function"   -> VisitFunction(statement, w)

-----------------------------------------------------------------------------
(* AssignmentRemover, and run(). *)

RECURSIVE Pruned(_, _)
Pruned(statement, toRemove) ==
    CASE statement.op = "block" ->
            LET kept == SelectSeq(statement.statements, LAMBDA t : t \notin toRemove)
            IN Block([k \in DOMAIN kept |-> Pruned(kept[k], toRemove)])
      [] statement.op \in {"if", "function"} ->
            [statement EXCEPT !.body = Pruned(@, toRemove)]
      [] statement.op = "for" ->
            [statement EXCEPT !.body = Pruned(@, toRemove), !.post = Pruned(@, toRemove)]
      [] statement.op = "switch" ->
            [statement EXCEPT !.cases = [k \in DOMAIN @ |-> Pruned(@[k], toRemove)]]
      [] OTHER -> statement

Init ==
    /\ program \in Programs
    /\ m_pendingRemovals = {}
    /\ result = program
    /\ step = "gather"

Gather ==
    /\ step = "gather"
    /\ step' = "remove"
    /\ m_pendingRemovals' = Visit(program, NewWalk).removals
    /\ UNCHANGED <<program, result>>

RemoveAssignments ==
    /\ step = "remove"
    /\ step' = "done"
    /\ result' = Pruned(program, m_pendingRemovals)
    /\ UNCHANGED <<program, m_pendingRemovals>>

Terminated == step = "done" /\ UNCHANGED vars

Next == Gather \/ RemoveAssignments \/ Terminated

Spec == Init /\ [][Next]_vars

-----------------------------------------------------------------------------

RECURSIVE AssignmentsIn(_)
AssignmentsIn(statement) ==
    CASE statement.op = "assign" -> {statement}
      [] statement.op = "block" ->
            UNION {AssignmentsIn(s) : s \in Range(statement.statements)}
      [] statement.op \in {"if", "function"} -> AssignmentsIn(statement.body)
      [] statement.op = "for" -> AssignmentsIn(statement.body) \cup AssignmentsIn(statement.post)
      [] statement.op = "switch" ->
            UNION {AssignmentsIn(s) : s \in Range(statement.cases)}
      [] OTHER -> {}

\* "removes assignments to variables that are not used until they go out of scope
\* or are re-assigned": an assignment whose value is read on some path stays,
\* whatever branches, loops, breaks and nested loops lie between the two.  So does
\* one whose value cannot be moved away, read or not.
ReadAssignmentsStay ==
    step = "done" =>
        ReadAssignments(program) \cup {a \in AssignmentsIn(program) : ~a.value.movable}
            \subseteq AssignmentsIn(result)

RECURSIVE LoopDepth(_)
LoopDepth(statement) ==
    CASE statement.op = "for" -> 1 + Max({LoopDepth(statement.body), LoopDepth(statement.post)})
      [] statement.op \in {"if", "function"} -> LoopDepth(statement.body)
      [] statement.op = "block" -> Max({0} \cup {LoopDepth(s) : s \in Range(statement.statements)})
      [] statement.op = "switch" -> Max({0} \cup {LoopDepth(s) : s \in Range(statement.cases)})
      [] OTHER -> 0

\* "There need not be more runs because we only have three different states": unless
\* loops are nested so deeply that the second run is skipped, two runs of a loop are
\* enough to find every assignment with a movable value that no path reads.
UnreadAssignmentsGo ==
    step = "done" /\ LoopDepth(program) < NestingLimit =>
        \A a \in AssignmentsIn(result) : IsSingle(a) /\ a.value.movable => a \in ReadAssignments(program)
=============================================================================
