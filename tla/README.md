# Verification of the Polynomial compiler

Polynomial is a compiler from a contract language to SVM bytecode, written in
C++: a front end (`liblangutil`, `libpolynomial`), an assembler with optimisers
(`libsvmasm`), the intermediate language Yul with its own optimiser and back end
(`libyul`), the older language LLL (`liblll`) and command line and library entry
points (`polc`, `libpolc`). The process is sequential. What is hard to test in it
is not concurrency: it is an object that clients drive through its stages in any
order and retry after failures (`CompilerStack`); work lists and containers
ordered by addresses or hashes, which no input determines; fixpoints over cyclic
graphs; about forty optimiser steps that run in rounds, enable one another and
rely on each other's results; knowledge about values that must be forgotten at
the right write; code whose size depends on the addresses in it; and generated
code in which values of small types share words, functions are asked for while
others are compiled, and the stack must have the same height on every path.

This directory holds TLA+ modules translated from the code, TLC configurations
that check them on small instances, and TLAPS proofs for every instance about the
compiler stack, the rounds of the assembly optimiser, the linker, the linearisation of
bases, the storage layout and the two control flow analyses. `PROJECT.json` lists the
components, the runs, the lines that definitions stand for (small helpers lie within
the lines of the definition that uses them), the hazards, the disagreements with what the
repository says of itself, and for every property a mutant of the code that
breaks it.

## Inventory

| component | state | operations | talks to | what makes it correct |
|---|---|---|---|---|
| `CompilerStack` (`libpolynomial/interface`) | stage, sources with ASTs, settings, source order, scopes, contracts with their artifacts, error list | `setSources`, setters, `parse`, `analyze`, `parseAndAnalyze`, `compile`, `reset` | every pass below; a callback that reads imports; clients `polc`, `StandardCompiler`, `libpolc` | the stage it claims was reached; no stale artifact; every call returns |
| `ErrorReporter` (`liblangutil`) | list, two counters | `error`, `warning`, fatal variants, `append`, `clear` | all passes share one | limits stop a pass, never lose the verdict |
| parser (`libpolynomial/parsing`) | token position, nodes | one function per construct | scanner, AST | operators bind as documented |
| name resolution | scopes with visible and invisible declarations | registration, activation, linearisation, resolution | AST annotations | a name means the innermost declaration; every base keeps its order |
| types, type checker, contract level checks | annotations | one visitor each | AST, `ErrorReporter` | what is accepted can be compiled and means one thing |
| view/pure checker | inferred mutability | one visitor | annotations | `view` and `pure` are kept by the code |
| `ControlFlowBuilder`, `ControlFlowAnalyzer` | graph; work list, sets per node | `createFunctionFlow`, `checkUninitializedAccess`, `checkUnreachable` | AST, `ErrorReporter` | every path of the code is in the graph; exact on paths, in any order of nodes |
| code generation (`libpolynomial/codegen`) | stack height, variable positions, function queue, low level functions, assembly | visitors, `appendMissingFunctions`, `packIntoContractCreator` | `libsvmasm`, inline Yul | the code does what the source says; all that is referred to is there |
| `Assembly` (`libsvmasm`) | items, sub-assemblies, data, tags | `append*`, `optimise`, `assemble` | its optimisers; sub-assemblies, whose tags it may push | same effects; every reference resolved; rounds end |
| peephole, jumpdest remover, block deduplicator | items, tag replacements | one pass each | called in rounds by `optimiseInternal` | as above |
| `KnownState`, CSE, constant optimiser | equivalence classes; stack, memory, storage contents; stores | `feedItem`, `getOptimizedItems`, `optimiseConstants` | the rules of `RuleList.h` | nothing stale is assumed after a write |
| gas meter | known state, largest memory access | `estimateMax`, `PathGasMeter` | `KnownState` | an upper bound |
| `LinkerObject` | bytecode, link references | `append`, `link` | `CompilerStack` | each reference filled once, in its place |
| Yul optimiser (`libyul/optimiser`) | an AST; per step maps | `OptimiserSuite::run` | called by code generation and `AssemblyStack` | same effects; names stay unique |
| Yul back end | stack layout, reference counts, unused slots | `CodeTransform`, `CompilabilityChecker` | `AbstractAssembly` | variables found where they are |
| SMT checker, IR generation, ABI functions, Yul parser, scanner, versions, LLL, outputs | | | | not modelled, see below |

The components with their files are in `PROJECT.json`; the hard spots in them, at
their lines, are its `hazards`.

## Modules

    ControlFlowGraph            CFGNode, VariableOccurrence, FunctionFlow; paths
      ControlFlowAnalyzer         checkUninitializedAccess
        ControlFlowAnalyzerProofs
        MCControlFlowAnalyzer
      UnreachableCode             checkUnreachable, BreadthFirstSearch, SourceLocation
        UnreachableCodeProofs
        MCUnreachableCode
    ErrorReporter               counters, limits, list
      CompilerStack               the stack, the client and the passes it runs
        CompilerStackProofs
        MCCompilerStack

    Instructions                the instruction table; words of WordBits bits
      PolynomialAst               tokens to syntax tree
        PolynomialTypes             uses ContractLayout
          NameAndTypeResolver         uses ContractLayout
            TypeChecker                 types; syntax, contract level, post type, static, view/pure
              ControlFlowBuilder          syntax tree to control flow graph, and its analysis
              CompilerUtils               conversions, storage, memory, arrays
                ExpressionCompiler
                  ContractCompiler
              ContractSemantics           the reference: an interpreter of the source
                CompiledContract            compiler and machine; implements SourceContract
                  MCCompiledContract
    ContractLayout              linearisation of bases, offsets in storage
      ContractLayoutProofs
      RuleList                    simplification rules
        KnownState                  expression classes, stack, memory, storage
          CommonSubexpressionEliminator
          ConstantOptimiser           gas meter and constant optimiser
            AssemblyProcess             optimise, assemble(); the machine; implements LinkerSpec
              MCAssemblyProcess
        YulAst                      trees, names, Disambiguator, NameDispenser; the
                                    reference: an interpreter of trees and of stack code
          YulStructure, YulDataFlow   the steps
          YulCodeTransform            the back end
            OptimiserSuite
              MCOptimiserSuite
    LinkerObject                append, link; LinkerSpec; its proofs
    SourceContract              what a contract promises, message by message
    PeepholeOptimiser           assembly items, the methods, one pass over the items
      AssemblyOptimiser           rounds, jumpdest remover, deduplicator, sub-assembly
        AssemblyOptimiserProofs
        AssemblyBehaviour           a machine for the items; what the code does
          MCAssemblyOptimiser
    RedundantAssignEliminator   Yul assignments; also used by YulDataFlow
      MCRedundantAssignEliminator

**ControlFlowGraph.** A graph is its arcs and a sequence of occurrences
(declaration, assignment, access, return, inline assembly) per node. `WellFormed`
says what the builder and the type checker guarantee: `exit` and `revert` have no
exits, nothing leads to `entry`, and a storage pointer that is declared in the
body is assigned by its initialiser before it can be used
(`InitialisedByItsDeclaration`; the initialiser may branch). The reference
notions are path notions written as least closed sets: `Reachable`,
`EnteredUnassigned`.

**ControlFlowAnalyzer.** One action per step of the loop: `Traverse` takes any
node of `nodesToTraverse` (a `std::set` of pointers), `ProcessOccurrence` is one
iteration of the inner loop, `Propagate` is the loop over the exits with
`NodeInfo::propagateFrom`, `Report` what follows the loop. Messages are left out.

**UnreachableCode.** `Visit` is one turn of `BreadthFirstSearch::run`, whose
work list is a set of pointers too. `NextLocation`, `ExtendLocation` and `Warn`
are the turns of the merging loop over the `std::set` of locations, ordered by
`SourceLocation::operator<`; a source name is its rank.

**ErrorReporter** and **CompilerStack.** A client call is an action, and so is
every step within it: a source parsed, an import loaded, a node of the import
graph sorted, an analysis pass run on a source or contract, a contract compiled,
the IR generated. `call`, `pc` and `work` are the position in the call and its
locals; `outcome` is what the client sees: a value or an exception. Every pass may
report warnings, report errors, or end in a `FatalError` that the reporter's limit
throws; the tables `Passes`, `Subjects`, `Findings` and `Verdicts` say for each of
the thirteen passes what it runs on, what it may report, and how its result is
computed (from its own answer or from the whole list). A source's text is how it
parses and what it imports; an artifact is the inputs that it was made from, so
that a stale one is visible. Contracts derive from (`Bases`) and create (`Creates`)
others as far as their sources import them: `contractDependencies` is what
`compileContract` visits, `compiledContracts` what code generation looks up, inherited
functions included. Settings that only `Empty`-to-`SourcesSet` setters
change are one value.

**From tokens to a running contract (CompiledContract and below it).** The passes
of `CompilerStack::analyze` are actions in their order: `ParseSource`,
`CheckSyntax`, `RegisterDeclarations`, `ResolveNamesAndTypes`, `CheckContracts`,
`CheckTypes`, `PostTypeCheck`, `AnalyzeControlFlow`, `StaticAnalysis`,
`CheckMutability`; a pass that reports errors ends the compilation where the code
does. `GenerateCode` is one step of code generation: the pieces of
`Compiler::compileContract` and one function of the queue at a time, first for the
runtime context, then for the creation context, then again for what the creation
code asked of the runtime code. An error that code generation throws (a stack too
deep, a copy that is not implemented) ends it. The setting `runOrderLiterals`, which
`ExpressionCompiler` itself reads, is chosen before. `AssembleCode` gives labels their
positions. At the end of the creation code the items that copy and return the runtime
code are one item, and the machine installs the runtime code there. `Deploy` and
`Call` send a message, `RunCode` lets the machine run some items.
The syntax tree is the sequence of its nodes; annotations
are functions from node numbers (`p.type`, `p.ref`, `p.bases`, ...). The visitors
of the code are recursive operators on the node: those of the compiler return the
context with the items appended, those of the type checker the annotations.
`ContractSemantics` is written independently of code, stack, slots and bytes: values
are numbers, arrays and structs are functions, a storage reference is a path. It is
what `SourceContract`, the abstract specification, answers messages with, and
`DoesWhatTheSourceSays` is the refinement: compiling, deploying and answering are
single steps there, a compiler pass and a piece of execution is a stutter, and the
mapping reads the abstract state variables out of the slots of the storage.

**ContractLayout** has two algorithms of the compiler as recursive functions, apart
from syntax trees, so that they can be proved about: `cThreeMerge` and the part of
`linearizeBaseContracts` around it, on sequences of contracts, where `taken` is what
the code has erased from the lists, and `StorageOffsets::computeOffsets` on the sizes
of members in bytes and slots (its limit of 2^256 slots is left out).
`NameAndTypeResolver` and `PolynomialTypes` call them.

**KnownState** to **AssemblyProcess.** An assembly with sub-assemblies, data and
libraries is taken through the halves of `optimiseInternal` that
`AssemblyOptimiser` leaves out (`RunCSE`, `OptimiseConstants`; sub-assemblies first),
`assemble` and several calls of `link`. Items and bytes are those of the code with
narrower words: the choice of push widths, tag and data reference widths, the
`INVALID` in front of data, and the offsets of link references when sub-assemblies
are appended are there. `LinkerObject` has the operations of the linker object as
operators and, as `LinkerSpec`, what happens to one object: it is assigned as
assembled, well formed, and linked again and again; `AssemblyProcess` is checked to
implement it. The machine in `AssemblyProcess` runs bytecode and counts
gas as `GasCosts` has it.

**PeepholeOptimiser, AssemblyOptimiser, AssemblyBehaviour.** Items are records; every peephole
method is an operator on the window, tried in the order of the code, and a pass is
kept under the code's own test of being better. `AssemblyOptimiser` runs
`optimiseInternal` of a sub-assembly and then of the outer assembly: an action for
the jumpdest remover, one per peephole pass, one per iteration of `deduplicate`,
one for handing its replacements over, one for the end of a round, and one for the
check of tags in `assemble`. In `AssemblyBehaviour` a machine runs items on a stack and
yields the effects (stores, calls, how it ends); it is a module of its own because it
needs `Bitwise` and narrow words, and the optimiser does not. A tag pushed as data is
compared by what the code behind it does (`Simulates`).

**OptimiserSuite** and the Yul modules. One action per step of
`OptimiserSuite::run`, in its order, with its loop of up to twelve rounds that ends
when the code size settles, `StackCompressor`, and code generation with and without
stack optimisation. Trees are sequences of statement records; the steps are
operators on them. Where the code iterates over a container ordered by hash while
it changes it (`clearValues`), both outcomes are possible (`Revisits`).
The interpreter in `YulAst` runs trees and stack code and logs what outlives the execution.

**RedundantAssignEliminator.** The members of the eliminator are a record, and
`Visit` is its walk over the AST with the merging at `if`, `switch` and `for`, the
second visit of a loop body below the nesting limit, the shortcut at the limit, the
pending states of `break` and `continue`, and `finalize` when variables go out of
scope; `Pruned` is `AssignmentRemover`. Which assignments may be read is defined
independently, as a fixpoint over paths.

## Runs

`tlc -workers 2 -config X.cfg M` with the pairs of `PROJECT.json`.

| run | question | bounds |
|---|---|---|
| `compiled_contracts` | Is a program read, resolved and checked as the language says, and does its code do, message by message, what an interpreter of the source says? | 22 programs and 21 with errors, with `runOrderLiterals` on and off; words of 8 bytes of 2 bits; every value of the parameters out of {0, 1, 3} or {0, 1, 2, 3}; up to five messages in any order |
| `array_copy` | violated: see below | one program |
| `assembly` | Do the CSE, the constant optimiser, the assembler and the linker keep what the code does, is every reference filled with the position of its target, is the gas estimate an upper bound, is the linker object what `LinkerSpec` says? | loads, stores and hashes after one another at places that are equal, apart, unknown or overlap by a byte, between jumps and stack operations; constants once or several times; references of all kinds to a sub-assembly, data and three libraries in code of every length around the width of tags; words of 14 bytes of 2 bits |
| `keccak_cache` | violated: see below | two hashes over the same memory |
| `yul_optimiser` | Do all steps and rounds of the suite keep what a program does, do names stay unique, does no assertion fail, does the generated code do the same? | six programs with functions, recursion, loops, switches, deep stacks and constants; both orders of a hash container; words of 3 bits, a stack that can be reached 5 slots deep; four inputs, 60 statements |
| `redundant_assignments` | Are exactly the assignments removed that no path reads? | three statements in a loop and a post block, two nested loops in a function, or three nested loops, out of five simple statements, four branching ones and two jumps; nesting limit 3 |
| `redundant_assignments_jumps` | violated: see below | a variable of the loop's body with a conditional jump between assignment and use |
| `optimised_code` | Do rounds of peephole, jumpdest remover and deduplicator keep effects and references, respect the outer assembly, replace tags only by earlier ones, fail only where replacements form a chain, and end? | all straight code of up to three items over 18 and of four over 7, in front of two blocks; all programs of three tagged blocks over nine bodies, with the settings on and off; words of 4 bits, addresses of 2 (`AddressBits`, 32 in the code), 24 steps of execution |
| `uninitialized_access` | Does the work list report exactly the storage pointers used unassigned on a path to the exit, in any order, and does it end? | all graphs of two inner nodes, two arcs out of each, loops and reverting paths, four bodies per node |
| `unreachable_code` | Do the two searches collect exactly the dead code that leads out, does merging lose or invent nothing, does it end? | three inner nodes with self-loops and cycles; locations that overlap, touch, nest, coincide, are empty |
| `compiler_stack` | In every sequence of client calls: is the claimed stage reached, are artifacts current, are sources sorted after their imports and contracts compiled after what they depend on, does a successful `compile` deliver, does every call return? | two sources, four texts (importing each other, one recovering, one failing), limits of two errors and one warning, two settings |
| `abstract_base` | violated: see below | three sources: a contract, its abstract base, what the base creates |

Why the bounds are enough for the cases at hand:

- *Compiled contracts.* A byte of 2 bits makes `uint8` the numbers 0 to 3 and
  `int8` -2 to 1, so the three words passed include both ends and wrapping; eight
  of them share a slot, so that arrays of ten elements cross its border. Selectors
  are two bytes. The programs together use each type, statement, expression and
  declaration that is modelled; the ones with errors take the error paths of the
  passes. Literals go up to `MaxLiteral` and intermediate constants have
  `PrecisionBits` bits. `StepItems` is how much the machine does in one step and
  decides nothing. `Hash` and `SignatureHash` have no collisions on what the
  programs use, as KECCAK256 is taken to have none.
- *Assembly.* Words of 28 bits leave room for the masks and shifts of the constant
  optimiser, and 14 bytes make overlaps of words by one byte possible. Five unknown
  words come from the input, so that addresses may or may not be equal.
- *Yul.* Three bits distinguish the rules that are wrong for some constants; the
  reach of 5 makes the deep programs exceed the stack.
- *Graphs.* Two inner nodes make a cycle, a diamond and a node that is entered from
  two sides.
- *Stack.* The limits of the reporter are constants that the code compares with and
  nothing else, so that 256 behaves as 2; two sources give an import cycle and a base.
  Any number of sources, contracts, texts and settings is what the proofs are about.
- *Peephole.* The windows of fixed width are at most four items wide, and what the
  widest of them read is in the smaller alphabet; three blocks allow one replacement
  that enables a second.
- *Redundant assignments.* The nesting limit of 3 (6 in the code) leaves two nested
  loops below it, so that both are visited twice and the inner one four times in all;
  of three nested loops the innermost is at the limit and visited once each time.

**Fairness.** The compiler is sequential and its steps do not wait for anything,
so a step that can be taken is taken: weak fairness of `Next` for the analyses and
the assembly optimiser (written out there as "stopped, or steps forever", which TLC
evaluates faster), of `CompilerStep` for the stack. Clients are under no fairness:
they may stop calling. A pass and the import callback are single steps, so that
their own termination is assumed. The other runs are about safety and state none.

**Deadlock** is checked for the stack, the assembly optimiser, the Yul optimiser and
the eliminator. The two analyses stop in their final state; the assembly process
and the compiled contracts stop when nothing is left to link or to send, or at an
error of the program.

**Refinement.** `DoesWhatTheSourceSays` is `Source!Spec` with
`Source == INSTANCE SourceContract WITH ...` in `CompiledContract`. `LinkerSpec` is a
property of `assembly`: what `LinkedWhereKnownHolds` is proved of.

## Disagreements

Runs that TLC finds violated, each a statement of the repository:

- `array_copy`: copying an array over a longer one clears the rest of the target
  with `clearStorageLoop(targetBaseType)` (`ArrayUtils.cpp:284`), which for packed
  elements zeroes the first of each slot only. "Increasing the length adds new
  zero-initialised elements to the array." (`docs/types/reference-types.rst:219`)
  then fails. Shrinking and deleting clear whole slots.
- `abstract_base`: `compileContract` returns for a contract that cannot be deployed
  before it visits what that contract depends on (`CompilerStack.cpp:908`). If C
  derives from an abstract E whose public function creates D, and only C is requested,
  D is not compiled, and the inherited function fails "Compiled contract not found."
  (`CompilerContext.cpp:175`).
- `keccak_cache`: `KnownState::applyKeccak256` remembers hashes by the words
  they cover and not by their length in bytes.
- `redundant_assignments_jumps`: for a variable declared in a loop body, the
  states saved at `break` and `continue` are finalized separately, and an
  assignment that is read on the path without the jump is removed.

Met while modelling, without a run of their own; the modules do what the code does
and the instances avoid the case:

- `UnusedPruner.cpp:127` overwrites `_allowMSizeOptization` with whether the block
  at hand contains `msize()`, and `StackCompressor` passes the main block alone, so
  that an `mload` which a function's `msize()` observes can be removed
  (`Changelog.md:22`).
- The merging loop of `checkUnreachable` (`ControlFlowAnalyzer.cpp:177`) compares
  positions in different files, so that a modifier inherited from another source
  unit can swallow a warning.
- `ErrorReporter::clear` leaves the counters: after the limit was reached, the first
  error of a later `parse` becomes a warning, and the assertion "Parser returned null
  but did not report error." fails (`CompilerStack.cpp:222`).
- `compile` may be called in stage `CompilationSuccessful`; when it throws half way,
  the stage stays and new objects are not linked (`CompilerStack.cpp:419`).
- Tag A replaced by B in one round and B by C in a later one leaves an outer
  reference to A pointing to B, which is gone (`Assembly.cpp:407`); with
  `deduplicate` and without `jumpdestRemover` "Replacement already known."
  (`Assembly.cpp:449`) fails on legal code. It can fail with the remover as well:
  when one call of `deduplicate` replaces tag 5 by 3 and, an iteration later, 3 by 1,
  and 5 is pushed from outside, the replacements are applied to the outside references
  in the order of the map, 3 before 5, so that 3 is among them afterwards, stays in
  the code as a tag, and is found to be a duplicate again in the next round. Trying to
  prove that a replaced tag is gone by the next round showed this; three blocks, as the
  runs have them, are too few for it.
- "Control Flow Graph: Detect every access to uninitialized storage pointers."
  (`Changelog.md:244`): in `x = x` the left side counts as assigned before the right
  side is read; and the graph has the modifier that is named, not the one that
  overrides it, which may skip the body.
- A contract without a constructor inherits its base's arguments but no check that
  no value is sent (`ContractCompiler.cpp:122`), against
  `docs/contracts/inheritance.rst:194`.
- Copying an array of small signed integers between types does not extend the sign
  (`CompilerUtils.cpp:828`). The size of `new T[](n)` wraps around. A private
  function can be overridden. A view function may apply a modifier that is
  overridden by one that writes (`docs/contracts/functions.rst:119`).
- The estimate of the code's size counts a reference to data with the width of a tag
  (`AssemblyItem.cpp:76`), but with large sub-assemblies it is wider; code with many of
  them can outgrow its tags and fail the assertion at `Assembly.cpp:672`. Code that runs off its end stops,
  or is invalid once data is appended. `PathGasMeter::queue` drops a path that
  arrives with less gas than another but with a larger memory. Copying a constant
  from the code can change `MSIZE`.
- `reset(false)` leaves `m_requestedContractNames` although the header says that all
  settings are reset; a `FatalError` of the limit met in `loadMissingSources`
  (`CompilerStack.cpp:807`) leaves `compile`, which `StandardCompiler.cpp:723` says
  it should not; a second `analyze` after a failed one meets its own scopes and
  asserts.

## Proofs

`tlapm M.tla` for `CompilerStackProofs`, `AssemblyOptimiserProofs`, `LinkerObject`,
`ContractLayoutProofs`, `ControlFlowAnalyzerProofs` and `UnreachableCodeProofs`. The constants are arbitrary:
any sources, texts, contracts and settings and any limits of the reporter (`StackAssumption`,
`ReporterAssumption`); any set of nodes, finite or not, any variables, any set of
graphs (`FlowAssumption`, `CFGsAssumption`, `GraphsAssumption`). `StackAssumption`
says what the type checker guarantees of contracts: inheritance is transitive, what
is created can be deployed, and no contract depends on itself.

*The compiler stack*, for `Spec` with every client call in every order:

- `StackTypeCorrect` is type correctness, which no run repeats. `AnalysisIsClean`,
  `ParsingIsComplete`, `NoStaleArtifacts`,
  `SourcesAreSorted` are the invariants of `compiler_stack`; `CompiledInOrder` and
  `CompileIsComplete` its two action properties. `FoundWithoutAbstractBases` says
  that abstract bases are the only way into the failure of `abstract_base`.
- The inductive invariant `IInv` is the conjunction of what each stage knows on the
  way. `Control`: the position in a call decides the stage, and below
  `ParsingSuccessful` there are no artifacts, so that neither new texts nor new
  settings can make one stale. `Parsed`: while no error is in the list, what has been
  parsed has its AST and imports what is there, is about to be added or is still to be
  loaded. `Sorted`: the pending calls of the depth first search form a path of
  imports, so that an import not yet ordered when its importer returns lies on that
  path, hence on a cycle. `Analysed`: some passes report errors and return true;
  `PostTypeChecker`, which answers for the whole list and runs over every source,
  catches them, and from there on no pass adds an error and succeeds. `Compiled`: what
  has been compiled is closed under dependencies, except for the contract that the
  next pending call is about; and the loop has called `compileContract` for every
  requested contract it has passed.
- `CompiledInOrder` has two halves: a contract is compiled after all that it depends
  on, and not a second time. The first follows from `Compiled`. The second needs
  `Pending`: a pending call of `compileContract` is for a contract that was not in
  `otherCompilers` when the call began, and another call can only have put it there in
  between if it is for the same contract. The pending calls form a path of
  dependencies, and as no contract depends on itself, they are for different contracts.
- `CompileIsComplete` takes the compiled contracts together with their bases: that
  set is closed under dependencies although abstract bases are never compiled,
  because a derived contract is only assembled when what its bases create was found.
- One lemma per action (`RunPassIInv`, `SortReturnIInv`, ...) shows that it keeps
  `IInv`; lemmas about the operators (`ReporterLists`, `ImportedByClosed`,
  `StackTop`, `EnterCases`) carry them.

*The assembly optimiser*, for every sub-assembly and outer assembly over the modelled
instructions, all settings of `Cases` and any number of rounds (`CasesAssumption`: the
items are items, and the code generator puts the tag where it pushes an own tag;
`AddressAssumption`):

- `OwnTagsStay` is `OwnReferencesHavePositions` and `NoReplacementCycle` is
  `ReplacementsGoBackwards` of `optimised_code`; `TagsStayUnique` says that no pass
  repeats a tag. `OnlyForeignTagsDangle` says what is left for the check of tags in
  `assemble` to find: tags of the sub-assembly pushed by the outer one.
- `OnlyChainsFail` is `FailsOnlyByChains` and says when it finds one: only if a tag
  gave way to a tag that gave way itself (`NoReplacementChain` is false), which is the
  case under "Met while modelling". "Replacement already known." fails only then, or
  with the jumpdest remover off. The hypothesis cannot be dropped: both assertions fail
  on legal code that has a chain. The invariant `TInv` is inductive only while there is
  none. `ForeignInv`: what the outer assembly pushes is still among the outside
  references of the sub-assembly, or its replacement is, and those keep their tags.
  `GoneInv`: a replaced tag is referenced nowhere, so that the jumpdest remover has
  removed it before the deduplicator looks for equal blocks again. `FailInv`: the claim.
- `IInv`: both assemblies are closed (every own reference has its tag) and have no tag
  twice, which `GoneInv` needs to conclude that a removed tag is gone; the
  replacements collected by `deduplicate` lead back in the items of the running level,
  which makes the next iteration, which applies all of them again, keep the items
  closed; there are none while the jumpdest remover or the peephole optimiser may
  remove tags; and what is handed to the outer assembly are tag numbers.
- A pass of the peephole optimiser and the jumpdest remover are recursive functions
  over the items. `OnePassFacts` and `KeepsTagsFacts` say what they keep, for code of
  any length, by induction: `LeastElement` follows from the theorems on well-founded
  relations, and `SetInduction` is induction stated of a set of numbers instead of a
  predicate, which the provers can instantiate. Each method of the peephole optimiser
  has its lemma (`PushPopKeepsTags`, ...): it consumes at least an item, keeps the tags
  it consumes, and adds no tag and no reference.
- `SeenBeforeLeadsBack`: the first of the equal blocks stands before the others,
  whatever a block is; `OwnReplacementClosed`: following such replacements keeps code
  closed.

*The linker object*, for any code, any libraries and addresses of any length
(`LinkerAssumption`: every address has the same length, at least one byte):

- `LinkedWhereKnownHolds` is `LinkedWhereKnown` of `assembly`, for every sequence of
  assignments and calls of `link`. The invariant `LinkedInv` adds that the assembled
  object is well formed, its references inside the code and apart: of two that overlap,
  the second to be linked would overwrite the first.
- `AppendKeepsWellFormed`: appending a sub-assembly keeps objects well formed. That
  `assemble` makes well formed objects, and that nothing but `link` changes them, is
  `LinkerSpec`, checked in `assembly`: `AssemblyProcess` reaches `RECURSIVE` operators.

*Linearisation* (`ContractLayoutProofs`), for any finite set of contracts, any list of
direct bases, repeated ones included, and any linearisations of those that start with
the base and do not have the contract (`BasesAreLinearized`; a base without a
linearisation is the error "Definition of base has to precede definition of derived
contract", so that a contract cannot be among the bases of its bases):

- `MergeKeepsEveryOrder`, `LinearizationKeepsEveryOrder`: a result that is not empty
  has every element once and keeps each order, as `LinearisationKeepsEveryOrder` of
  `compiled_contracts` says of the programs there. The invariant `MergeInv` of the loop:
  whatever stands before a taken element in one of the lists was taken before it.
- `MergeFailsOnlyIfImpossible`, `LinearizationFailsOnlyIfImpossible`: the converse. If
  some list keeps all the orders, its first element not yet taken heads each remaining
  list that has it, so there is a candidate in each turn; "Linearization of inheritance
  graph impossible" is reported for no graph that has a linearisation.

*Storage layout* (`ContractLayoutProofs`), for slots of any width and any sequence of
sizes that types have (`StorageObjects`: a type of several slots fills them):
`StorageObjectsAreApart` says that packed objects stay inside a slot, that every object
ends before the next begins (`EndsBefore`), and that all lie in the slots that are
counted. That what is assigned to a variable shows nowhere else is
`DoesWhatTheSourceSays`, checked for the programs of `compiled_contracts`.

The loops of both are recursive functions over the turns of the loop; what they compute
is proved by induction stated of a set here too (`InductionBySet`).

*The control flow analyses:*

- `TypeCorrect`, `ReportIsExact`: the uninitialized access analysis keeps its
  types and reports exactly the accesses that the path definition names. The
  property speaks of the end of the loop only, so the invariant `IInv` adds what
  holds on the way: what is recorded is justified by a path (`Justified`); a visited
  node that is neither queued nor being processed has told its successors all it
  knows (`Settled`); the local set is what the occurrences processed so far leave
  (`Scanning`). With an empty work list the recorded sets are closed, and the
  reference sets, being least, are included in them. A node that is never visited
  is one that nothing reached: this is where `InitialisedByItsDeclaration` is used.
- `SearchIsExact`: seen nodes are reachable and the children of visited
  nodes are seen, so that an empty queue means a closed set; once forwards, once
  backwards.
- `MergeLosesNothing`, `MergeInventsNothing`: what lies behind the iterator is
  covered by a warning or by the location being extended, and warnings end before
  what is ahead of the iterator starts (`Merged`, `Current`), for code of one
  source unit.

The proofs assume `WellFormed` of the graphs. That `ControlFlowBuilder` builds such
graphs is `GraphsAreWellFormed`, checked for the programs of `compiled_contracts`.
`ReportIsExact` in turn is what allows `ControlFlowBuilder` to state the analysis as a fixed
point instead of a work list.

Only model-checked: all liveness properties (`CallsReturn` among them), which need
fairness; what code does when it runs (`AssemblyBehaviour` with its `Bitwise`, and
`OutsideTagsAreKept` and `ForeignTagsKeepTheirMeaning`, which are stated there); that
`AssemblyProcess` implements `LinkerSpec` and that the resolver hands `ContractLayout`
what its theorems assume; everything that recurses over expressions
or trees (the compiler, the common subexpression eliminator and constant optimiser, the
optimiser of Yul), which uses `RECURSIVE` operators and `Bitwise`, out of the prover's
reach.

## Not modelled

- *Language*: byte arrays and strings, data in calldata other than single words,
  external calls and contract creation, libraries, values of function types, inline
  assembly, imports between the programs of `CompiledContract`, named arguments,
  `abi` functions and the second version of the encoder (`ABIFunctions`,
  `YulUtilFunctions`: text templates), fixed point numbers, `throw`, doc strings,
  warnings.
- *Stages*: the scanner (a program is its tokens), recovery of the parser after an
  error, IR generation (experimental; `CompilerStack` has when it runs and that it may
  throw), the SMT checker (its results are warnings and its solvers external), the Yul
  parser and analyser, eWasm, SVM 1.5, loose assembly, LLL.
- *Outputs*: metadata, ABI and documentation JSON, AST forms, source maps, messages.
  `StandardCompiler`, `libpolc` and `polc` are clients whose calls `CompilerStack`
  covers.
- *Composition*: `CompiledContract` runs items as they are generated, without the
  optimisers that work on them; these are checked on programs of their own, and the two halves of
  `optimiseInternal` in two modules.

In `CompilerUtils` the routine that copies memory in pieces of 16 of 32 bytes is
scaled with the word; apart from widths no number of the code is changed.

## What is left

In order of what would add most:

1. Byte arrays and strings, calldata arrays and external calls in the compiler.
2. Both halves of `optimiseInternal` in one module, fed with the output of
   `ContractCompiler`.
3. Proof that the assembler makes well formed linker objects and fills every reference
   with the position of its target, with the loop of `assemble` as a recursive function
   in a module without `Bitwise`.
4. Proof of `RedundantAssignEliminator` for trees of any depth.
5. SSA indices at joins in `SMTChecker`; `SemVerHandler`; `StandardCompiler` outputs.
