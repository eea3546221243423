--------------------------- MODULE OptimiserSuite ---------------------------
(***************************************************************************)
(* OptimiserSuite::run (libyul/optimiser/Suite.cpp): the steps of the Yul   *)
(* optimiser in the order in which they are applied to a program, and the   *)
(* code that CodeTransform makes of the result.                             *)
(*                                                                         *)
(* One step of the specification is one step of the suite.  After every one *)
(* of them the program must do what the source does, and nothing the steps  *)
(* rely on may have been lost.                                              *)
(***************************************************************************)
EXTENDS YulDataFlow, YulCodeTransform

CONSTANTS
    Sources,           \* the programs that are optimised
    Inputs,            \* the inputs for which their behaviour is compared
    Fuel,              \* bound on the statements a program may execute
    RoundLimit,        \* how often the main part may run: 12 in the code
    CompressorLimit,   \* stackCompressorMaxIterations: 16 in the code
    Revisits           \* whether clearValues meets again what it inserts

ASSUME SuiteAssumption ==
    /\ RoundLimit \in Nat /\ CompressorLimit \in Nat /\ Fuel \in Nat
    /\ Revisits \subseteq BOOLEAN

VARIABLES
    source,     \* the program before
    ast,        \* ... and now
    dispenser,  \* the NameDispenser of the main part
    phase,      \* the part of the suite that is running
    steps,      \* the steps of it that are left
    rounds,
    size,       \* codeSize
    failed      \* whether an assertion has failed

vars == <<source, ast, dispenser, phase, steps, rounds, size, failed>>

-----------------------------------------------------------------------------
(* StackCompressor: s is the main block or a function. *)

\* RematCandidateSelector::candidates: the costs.  When they are asked for, all
\* scopes have been left and m_references is empty, so that no candidate is
\* known to refer to another one.
candidates(s, revisit) ==
    With(WalkStatement(s, Analyzer("RematCandidateSelector", revisit)).st, LAMBDA st :
        [x \in DOMAIN st.costs |-> st.costs[x] * CountOf(st.counts, x)])

\* The cheapest ones; the names decide if the costs are equal.
RECURSIVE Cheapest(_, _)
Cheapest(costs, n) ==
    IF n = 0 \/ DOMAIN costs = {} THEN {}
    ELSE LET best == CHOOSE x \in DOMAIN costs : \A y \in DOMAIN costs : costs[x] <= costs[y]
         IN {best} \cup Cheapest(Drop(costs, {best}), n - 1)

\* Pruning a block looks for MSIZE in that block only, whatever allowMSize says.
eliminateVariables(s, numVariables, allowMSize, revisit) ==
    With(Rematerialiser(s, Cheapest(candidates(s, revisit), numVariables), revisit), LAMBDA r :
        Copy([r.node EXCEPT !.blocks[1] =
                PruneUntilStabilised(@, IF IsFunction(s) THEN allowMSize ELSE ~ContainsMSize(@))],
             r.st.failed))

\* The name of a function, that of the main program is empty.
NameOf(s) == IF IsFunction(s) THEN s.names[1] ELSE <<"">>

RECURSIVE Compress(_, _, _, _, _)
Compress(tree, iterations, allowMSize, optimise, revisit) ==
    With(CompilabilityChecker(tree, optimise), LAMBDA surplus :
    With(MapSeq(LAMBDA s : IF NameOf(s) \in DOMAIN surplus
                           THEN eliminateVariables(s, surplus[NameOf(s)], allowMSize, revisit)
                           ELSE Copy(s, FALSE), tree), LAMBDA all :
    With(Compress(MapSeq(LAMBDA c : c.node, all), iterations - 1, allowMSize, optimise, revisit), LAMBDA rest :
        IF iterations = 0 \/ DOMAIN surplus = {} THEN Copy(tree, FALSE)
        ELSE Copy(rest.node, rest.st \/ \E n \in DOMAIN all : all[n].st))))

StackCompressor(tree, optimise, revisit) ==
    LET grouped == tree # << >> /\ tree[1].kind = "block"
    IN With(Compress(tree, CompressorLimit, ~ContainsMSize(tree), optimise, revisit), LAMBDA r :
        IF grouped THEN r ELSE Copy(tree, TRUE))

-----------------------------------------------------------------------------
(* The order of the steps *)

Prologue ==
    <<"Disambiguator", "VarDeclInitializer", "FunctionHoister", "BlockFlattener",
      "ForLoopInitRewriter", "DeadCodeEliminator", "FunctionGrouper",
      "EquivalentFunctionCombiner", "UnusedPruner", "BlockFlattener", "ControlFlowSimplifier",
      "StructuralSimplifier", "ControlFlowSimplifier", "BlockFlattener", "NameDispenser">>

Round ==
    <<"ExpressionSplitter", "SSATransform", "RedundantAssignEliminator",
      "RedundantAssignEliminator", "ExpressionSimplifier", "CommonSubexpressionEliminator",
      "ControlFlowSimplifier", "StructuralSimplifier", "ControlFlowSimplifier", "BlockFlattener",
      "DeadCodeEliminator", "UnusedPruner",
      "CommonSubexpressionEliminator", "UnusedPruner",
      "SSAReverser", "CommonSubexpressionEliminator", "UnusedPruner",
      "ExpressionJoiner", "ExpressionJoiner",
      "ExpressionInliner", "UnusedPruner",
      "ExpressionSplitter", "SSATransform", "RedundantAssignEliminator",
      "RedundantAssignEliminator", "CommonSubexpressionEliminator",
      "FunctionGrouper", "EquivalentFunctionCombiner", "FullInliner", "BlockFlattener",
      "SSATransform", "RedundantAssignEliminator", "RedundantAssignEliminator",
      "ExpressionSimplifier", "StructuralSimplifier", "BlockFlattener", "DeadCodeEliminator",
      "ControlFlowSimplifier", "CommonSubexpressionEliminator", "SSATransform",
      "RedundantAssignEliminator", "RedundantAssignEliminator", "UnusedPruner",
      "CommonSubexpressionEliminator">>

Epilogue ==
    <<"ExpressionJoiner", "Rematerialiser", "UnusedPruner", "ExpressionJoiner", "UnusedPruner",
      "ExpressionJoiner", "UnusedPruner",
      "SSAReverser", "CommonSubexpressionEliminator", "UnusedPruner",
      "ExpressionJoiner", "Rematerialiser", "UnusedPruner",
      "FunctionGrouper", "StackCompressor", "BlockFlattener", "DeadCodeEliminator",
      "ControlFlowSimplifier", "FunctionGrouper", "ConstantOptimiser", "VarNameCleaner">>

-----------------------------------------------------------------------------
(* What a step makes of the program: the tree in node, and in st the        *)
(* dispenser and whether an assertion has failed.                           *)

Unassisted(tree) == Copy(tree, [d |-> dispenser, failed |-> FALSE])
Dispensed(r) == Copy(r.node, [d |-> r.st, failed |-> FALSE])
Analysed(r) == Copy(r.node, [d |-> dispenser, failed |-> r.st.failed])

Apply(name, tree, revisit, optimise) ==
    CASE name = "Disambiguator" -> Unassisted(Disambiguator(tree))
      [] name = "VarDeclInitializer" -> Unassisted(VarDeclInitializer(tree))
      [] name = "FunctionHoister" -> Unassisted(FunctionHoister(tree))
      [] name = "BlockFlattener" -> Unassisted(BlockFlattener(tree))
      [] name = "ForLoopInitRewriter" -> Unassisted(ForLoopInitRewriter(tree))
      [] name = "DeadCodeEliminator" -> Unassisted(DeadCodeEliminator(tree))
      [] name = "FunctionGrouper" -> Unassisted(FunctionGrouper(tree))
      [] name = "EquivalentFunctionCombiner" -> Unassisted(EquivalentFunctionCombiner(tree))
      [] name = "UnusedPruner" -> Unassisted(UnusedPruner(tree))
      [] name = "ControlFlowSimplifier" -> Unassisted(ControlFlowSimplifier(tree))
      [] name = "NameDispenser" -> Dispensed(Copy(tree, Dispenser(NamesInBlock(tree))))
      [] name = "ExpressionSplitter" -> Dispensed(ExpressionSplitter(tree, dispenser))
      [] name = "SSATransform" -> Dispensed(SSATransform(tree, dispenser))
      [] name = "RedundantAssignEliminator" -> Unassisted(RedundantAssignEliminator(tree))
      [] name = "SSAReverser" -> Unassisted(SSAReverser(tree))
      [] name = "ExpressionJoiner" -> Unassisted(ExpressionJoiner(tree))
      [] name = "ExpressionInliner" -> Unassisted(ExpressionInliner(tree))
      [] name = "FullInliner" -> Dispensed(FullInliner(tree, dispenser))
      [] name \in {"StructuralSimplifier", "ExpressionSimplifier",
                  "CommonSubexpressionEliminator", "Rematerialiser"} ->
            Analysed(DataFlowStep(name, tree, revisit))
      [] name = "StackCompressor" ->
            With(StackCompressor(tree, optimise, revisit), LAMBDA r :
                Copy(r.node, [d |-> dispenser, failed |-> r.st]))
      [] name = "ConstantOptimiser" -> Unassisted(ConstantOptimiser(tree))
      [] name = "VarNameCleaner" -> Unassisted(VarNameCleaner(tree))

-----------------------------------------------------------------------------
Init ==
    /\ source \in Sources
    /\ ast = source
    /\ dispenser = Dispenser({})
    /\ phase = "prologue"
    /\ steps = Prologue
    /\ rounds = 0
    /\ size = 0
    /\ failed = FALSE

\* The next step of the part that is running.
Step ==
    /\ steps # << >>
    /\ \E revisit \in Revisits, optimise \in BOOLEAN :
        /\ Head(steps) # "StackCompressor" => optimise
        /\ \E r \in {Apply(Head(steps), ast, revisit, optimise)} :
            /\ ast' = r.node
            /\ dispenser' = r.st.d
            /\ failed' = (failed \/ r.st.failed)
    /\ steps' = Tail(steps)
    /\ UNCHANGED <<source, phase, rounds, size>>

\* Another round, as long as the last one has changed the size of the code.
BeginRound ==
    /\ phase \in {"prologue", "round"} /\ steps = << >>
    /\ rounds < RoundLimit
    /\ codeSize(ast, FALSE) # size
    /\ size' = codeSize(ast, FALSE)
    /\ phase' = "round" /\ steps' = Round /\ rounds' = rounds + 1
    /\ UNCHANGED <<source, ast, dispenser, failed>>

BeginEpilogue ==
    /\ phase \in {"prologue", "round"} /\ steps = << >>
    /\ rounds = RoundLimit \/ codeSize(ast, FALSE) = size
    /\ phase' = "epilogue" /\ steps' = Epilogue
    /\ UNCHANGED <<source, ast, dispenser, rounds, size, failed>>

Finish ==
    /\ phase = "epilogue" /\ steps = << >>
    /\ phase' = "done"
    /\ UNCHANGED <<source, ast, dispenser, steps, rounds, size, failed>>

Done == phase = "done" /\ UNCHANGED vars

Next == Step \/ BeginRound \/ BeginEpilogue \/ Finish \/ Done

Spec == Init /\ [][Next]_vars

-----------------------------------------------------------------------------
(* Properties *)

\* Every step of the suite leaves a program that does what the source did: the
\* same writes in the same order, and the same end.
StepsKeepTheBehaviour == SameBehaviour(source, ast, Inputs, Fuel)

RECURSIVE DeclarationCount(_)
DeclarationCount(block) ==
    Total([n \in DOMAIN block |->
             LET s == block[n]
             IN (IF s.kind \in {"let", "function"} THEN Len(s.names) + Len(s.returns) ELSE 0)
                + Total(MapSeq(LAMBDA b : DeclarationCount(b), s.blocks))])

\* No name is declared twice between Disambiguator and VarNameCleaner: all
\* steps rely on it, and the ones that copy code or invent variables could lose
\* it.
NamesStayUnique ==
    (steps # Prologue /\ ~(phase \in {"epilogue", "done"} /\ steps = << >>)) =>
        Cardinality(NamesDeclared(ast)) = DeclarationCount(ast)

\* No assertion of a step fails, whatever the hash values of the names are.
NoAssertionFails == ~failed

\* The code generated for the source and for the optimised program does what
\* the source says, with and without the optimisation of the stack; the checks
\* of the stack height during code generation do not fail.
GeneratedCodeDoesTheSame ==
    (steps = Prologue \/ phase = "done") =>
        \A optimise \in BOOLEAN :
            With(CodeTransform(ast, optimise), LAMBDA r :
                /\ ~r.failed
                /\ r.errors = << >> => CodeDoes(r.code, source, Inputs, Fuel, 9))

=============================================================================
