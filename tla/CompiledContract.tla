-------------------------- MODULE CompiledContract --------------------------
(***************************************************************************)
(* A program on its way through the compiler, as CompilerStack.cpp drives   *)
(* it: it is parsed and analysed, the last of its contracts is compiled,    *)
(* and the code runs.  A message creates the contract, further messages     *)
(* call it; the machine runs a bounded number of items in a step.           *)
(*                                                                         *)
(* The machine is not part of the repository and modelled as the code uses  *)
(* it: a stack of words, words of memory and storage, and the data of the   *)
(* message.                                                                 *)
(***************************************************************************)
EXTENDS ContractCompiler, ContractSemantics, ControlFlowBuilder

CONSTANTS Programs,     \* a sequence of programs: their tokens, the words that are passed
                        \* to them and how many messages they get
          Hash(_),      \* KECCAK256 of a sequence of words
          StepItems     \* how many items the machine runs in a step

VARIABLES
    program,   \* which of the programs it is
    phase,     \* how far the compiler has come
    p,         \* the syntax tree with its annotations
    contexts,  \* of the runtime and the creation code while they are compiled
    code,      \* the two when they are assembled
    storage,   \* of the contract, between messages
    frame,     \* the execution of a message
    result,    \* the last message that ended and how
    values     \* what the storage stands for in terms of the source

vars == <<program, phase, p, contexts, code, storage, frame, result, values>>

Idle == [message |-> "none"]
Sender == 5   \* who sends the messages

-----------------------------------------------------------------------------
(* Assembling: labels become positions *)

\* The place that a push of a label refers to; 0 if there is none or more than one
PlaceOf(items, op, arg) ==
    With({i \in DOMAIN items : items[i].op = op /\ items[i].arg = arg}, LAMBDA places :
         IF Cardinality(places) = 1 THEN CHOOSE i \in places : TRUE ELSE 0)

LabelOf == ("PUSHTAG" :> "TAG") @@ ("PUSHFUN" :> "FUNTAG") @@ ("PUSHLOW" :> "LOWTAG")

ProgramSize(items) == WordBytes * Len(items)

AssembledItem(items, i) ==
    LET item == items[i]
    IN CASE item.op \in DOMAIN LabelOf -> Item("PUSH", PlaceOf(items, LabelOf[item.op], item.arg))
         [] item.op = "PUSHREL" -> Item("PUSH", i + item.arg)
         [] item.op = "PUSHSIZE" -> Item("PUSH", ProgramSize(items))
         [] item.op \in {"TAG", "FUNTAG", "LOWTAG"} -> Item("JUMPDEST", 0)
         [] item.op \in DOMAIN DupDepth -> Item("DUP", DupDepth[item.op])
         [] item.op \in DOMAIN SwapDepth -> Item("SWAP", SwapDepth[item.op])
         [] OTHER -> item

Assembled(items) == << >> \o [i \in DOMAIN items |-> AssembledItem(items, i)]

-----------------------------------------------------------------------------
(* The machine; the first element of the stack is its top *)

At(map, place) == IF place \in DOMAIN map THEN map[place] ELSE 0

Frame(message, kind) ==
    [message |-> message, kind |-> kind, pc |-> 1, stack |-> << >>, memory |-> << >>, storage |-> storage,
     logs |-> << >>, end |-> "", data |-> << >>]

Words(f, from, bytes) == [i \in 1..(bytes \div WordBytes) |-> At(f.memory, from + WordBytes * (i - 1))]

\* The first bytes of the data are the selector.
CallDataSize(m) == IF m.selector < 0 THEN 0 ELSE SelectorBytes + WordBytes * Len(m.words)
WordGiven(m, i) == IF i \in DOMAIN m.words THEN m.words[i] ELSE 0
CallDataAt(m, place) ==
    IF place = 0 THEN m.selector * 2 ^ (WordBits - SelectorBytes * ByteBits) + WordGiven(m, 1) \div 2 ^ (SelectorBytes * ByteBits)
    ELSE WordGiven(m, (place - SelectorBytes) \div WordBytes + 1)

\* Behind the code are the arguments of the constructor.
Copied(f, size, to, from, bytes) ==
    [f EXCEPT !.memory =
        [a \in {to + WordBytes * i : i \in 0..(bytes \div WordBytes - 1)} |->
            WordGiven(f.message, (from + a - to - size) \div WordBytes + 1)] @@ @]

Ended(f, end, from, bytes) == [f EXCEPT !.end = end, !.data = << >> \o Words(f, from, bytes)]

\* a are the arguments, which are gone from the stack.
Effect(f, items, op, a) ==
    LET Result(v) == [f EXCEPT !.stack = <<v>> \o @]
        Jump == IF a[1] \in DOMAIN items /\ items[a[1]].op = "JUMPDEST" THEN [f EXCEPT !.pc = a[1]]
                ELSE [f EXCEPT !.end = "bad jump"]
    IN CASE op \in {"POP", "JUMPDEST"} -> f
         [] op = "JUMP" -> Jump
         [] op = "JUMPI" -> IF a[2] = 0 THEN f ELSE Jump
         [] op = "MLOAD" -> Result(At(f.memory, a[1]))
         [] op = "MSTORE" -> [f EXCEPT !.memory = (a[1] :> a[2]) @@ @]
         [] op = "SLOAD" -> Result(At(f.storage, a[1]))
         [] op = "SSTORE" -> [f EXCEPT !.storage = (a[1] :> a[2]) @@ @]
         [] op = "KECCAK256" -> Result(Hash(Words(f, a[1], a[2])))
         [] op = "CALLDATALOAD" -> Result(CallDataAt(f.message, a[1]))
         [] op = "CALLDATASIZE" -> Result(CallDataSize(f.message))
         [] op = "CODESIZE" -> Result(ProgramSize(items) + IF f.kind = "creation" THEN WordBytes * Len(f.message.words) ELSE 0)
         [] op = "CODECOPY" -> Copied(f, ProgramSize(items), a[1], a[2], a[3])
         [] op = "CALLVALUE" -> Result(f.message.value)
         [] op = "CALLER" -> Result(f.message.sender)
         [] op \in {"LOG0", "LOG1", "LOG2", "LOG3", "LOG4"} ->
                [f EXCEPT !.logs = Append(@, [topics |-> SubSeq(a, 3, Len(a)), data |-> << >> \o Words(f, a[1], a[2])])]
         [] op = "STOP" -> [f EXCEPT !.end = "return"]
         [] op = "RETURN" -> Ended(f, "return", a[1], a[2])
         [] op = "REVERT" -> [f EXCEPT !.end = "revert"]
         [] op = "INVALID" -> [f EXCEPT !.end = "invalid"]
         [] OTHER -> Result(Evaluate(op, a))

RunItem(f, items) ==
    LET item == items[f.pc]
        passed == [f EXCEPT !.pc = @ + 1]
        n == instructionInfo[item.op].args
    IN CASE f.pc \notin DOMAIN items -> [f EXCEPT !.end = "out of code"]
         [] f.pc \in DOMAIN items /\ item.op = "PUSH" -> [passed EXCEPT !.stack = <<item.arg>> \o @]
         [] f.pc \in DOMAIN items /\ item.op = "DUP" -> [passed EXCEPT !.stack = <<@[item.arg]>> \o @]
         [] f.pc \in DOMAIN items /\ item.op = "SWAP" ->
                [passed EXCEPT !.stack = [@ EXCEPT ![1] = f.stack[item.arg + 1], ![item.arg + 1] = f.stack[1]]]
         [] f.pc \in DOMAIN items /\ item.op = "ADJUST" -> passed
         [] OTHER -> Effect([passed EXCEPT !.stack = SubSeq(@, n + 1, Len(@))], items, item.op, SubSeq(f.stack, 1, n))

RECURSIVE RunItems(_, _, _)
RunItems(f, items, n) == IF n = 0 \/ f.end # "" THEN f ELSE RunItems(RunItem(f, items), items, n - 1)

-----------------------------------------------------------------------------
(* The contract in terms of its source: the values that the slots stand for *)

Contracts == ContractsOf(p.nodes)
Compiled == Last(Contracts)

FieldAt(slots, t, slot, byte) ==
    With((At(slots, slot) \div 2 ^ (byte * ByteBits)) % 2 ^ (storageBytes(p, t) * ByteBits), LAMBDA n :
         IF isSignedInteger(t) /\ n > maxValue(t) THEN n - 2 ^ (t.numBytes * ByteBits) ELSE n)

\* Elements that are smaller than half a slot share slots.
ElementAt(t, first, i) ==
    LET bytes == storageBytes(p, t.baseType)
        perSlot == WordBytes \div bytes
    IN IF bytes <= WordBytes \div 2 THEN <<first + i \div perSlot, bytes * (i % perSlot)>>
       ELSE <<first + i * storageSize(p, t.baseType), 0>>

KeyWord(t, k) == IF leftAligned(t) THEN k * 2 ^ (WordBits - t.numBytes * ByteBits) ELSE k % 2 ^ WordBits

RECURSIVE Decoded(_, _, _, _)
Decoded(slots, t, slot, byte) ==
    CASE t.category = "Mapping" ->
            [k \in ValuesOf(p, t.keyType) |-> Decoded(slots, t.valueType, Hash(<<KeyWord(t.keyType, k), slot>>), 0)]
      [] t.category = "Array" ->
            LET first == IF isDynamicallySized(t) THEN Hash(<<slot>>) ELSE slot
            IN [i \in 0..((IF isDynamicallySized(t) THEN At(slots, slot) ELSE t.length) - 1) |->
                    With(ElementAt(t, first, i), LAMBDA at : Decoded(slots, t.baseType, at[1], at[2]))]
      [] t.category = "Struct" ->
            With(p.nodes[t.struct].members, LAMBDA members :
                 With(computeOffsets(p, TypesOf(p, members)).offsets, LAMBDA offsets :
                      [m \in ToSet(members) |->
                          With(offsets[CHOOSE i \in DOMAIN members : members[i] = m], LAMBDA at :
                               Decoded(slots, p.type[m], slot + at[1], at[2]))]))
      [] OTHER -> FieldAt(slots, t, slot, byte)

StateOfContract(slots) ==
    With(contractStateVariables(p, Compiled), LAMBDA all :
         [v \in {a[1] : a \in ToSet(all)} |->
             With(CHOOSE a \in ToSet(all) : a[1] = v, LAMBDA at : Decoded(slots, p.type[v], at[2], at[3]))])

-----------------------------------------------------------------------------
(* CompilerStack::parse and analyze *)

NoContexts == [runtime |-> CompilerContext(<< >>, 0, FALSE, FALSE), creation |-> CompilerContext(<< >>, 0, TRUE, FALSE)]
NoCode == [runtime |-> << >>, creation |-> << >>]

Init ==
    /\ program \in DOMAIN Programs
    /\ phase = "source" /\ p = << >> /\ contexts = NoContexts /\ code = NoCode
    /\ storage = << >> /\ frame = Idle
    /\ result = [message |-> "none", count |-> 0] /\ values = << >>

ParseSource ==
    /\ phase = "source"
    /\ \E parsed \in {Parse(Programs[program].source)} :
          /\ phase' = IF parsed.errors = 0 THEN "parsed" ELSE "rejected"
          /\ p' = IF parsed.errors = 0 THEN Program(parsed.nodes) ELSE << >>
    /\ UNCHANGED <<program, contexts, code, storage, frame, result, values>>

TheSource == Len(p.nodes) - Len(magicVariables) - 2 * Len(Contracts)

\* What a step of the analysis leaves.  The first ones are all taken, unless names cannot
\* be resolved; the later ones only if there have been no errors.
Analysed(to, q, goesOn) ==
    /\ p' = q
    /\ phase' = IF goesOn THEN to ELSE "rejected"
    /\ UNCHANGED <<program, contexts, code, storage, frame, result, values>>

CheckSyntax ==
    /\ phase = "parsed"
    /\ \E q \in {checkSyntax(p, TheSource, FALSE)} :
          Analysed("syntax checked", q, TRUE)

RegisterDeclarations ==
    /\ phase = "syntax checked"
    /\ \E q \in {registerDeclarations(p, TheSource)} :
          Analysed("registered", q, ~q.fatal)

ResolveNamesAndTypes ==
    /\ phase = "registered"
    /\ \E q \in {FoldLeft(LAMBDA r, c : IF r.failed THEN r ELSE resolveNamesAndTypes(r, c), p, Contracts)} :
          Analysed("resolved", q, ~q.failed)

CheckContracts ==
    /\ phase = "resolved"
    /\ \E q \in {FoldLeft(checkContract, p, Contracts)} :
          Analysed("contracts checked", q, TRUE)

\* A fatal error ends the checks of one contract.
CheckTypes ==
    /\ phase = "contracts checked"
    /\ \E q \in {FoldLeft(LAMBDA r, c : [checkTypeRequirements(r, c) EXCEPT !.fatal = FALSE], p, Contracts)} :
          Analysed("types checked", q, q.errors = 0)

PostTypeCheck ==
    /\ phase = "types checked"
    /\ \E q \in {FoldLeft(postCheck, p, Contracts)} :
          Analysed("post checked", q, q.errors = 0)

AnalyzeControlFlow ==
    /\ phase = "post checked"
    /\ \E q \in {FoldLeft(analyzeControlFlow, p, Contracts)} :
          Analysed("control flow analysed", q, q.errors = 0)

StaticAnalysis ==
    /\ phase = "control flow analysed"
    /\ \E q \in {FoldLeft(staticAnalysis, p, Contracts)} :
          Analysed("statically analysed", q, q.errors = 0)

CheckMutability ==
    /\ phase = "statically analysed"
    /\ \E q \in {FoldLeft(checkMutability, p, Contracts)} :
          Analysed("analysed", q, q.errors = 0)

-----------------------------------------------------------------------------
(* Compiler::compileContract for the last contract, unless it is abstract; runOrderLiterals
   is the setting of the optimiser that code generation itself reads *)

canBeDeployed(contract) ==
    /\ p.unimplemented[contract] = {}
    /\ LET c == constructor(p, contract) IN c = 0 \/ p.nodes[c].visibility = "public"

StartCompiling ==
    /\ phase = "analysed"
    /\ IF canBeDeployed(Compiled)
       THEN /\ phase' = "runtime code"
            /\ \E orderLiterals \in BOOLEAN :
                  contexts' = [runtime |-> CompilerContext(p, Compiled, FALSE, orderLiterals),
                               creation |-> CompilerContext(p, Compiled, TRUE, orderLiterals)]
       ELSE phase' = "abstract" /\ UNCHANGED contexts
    /\ UNCHANGED <<program, p, code, storage, frame, result, values>>

\* The phases of compileContract and packIntoContractCreator: which code they add to, what
\* they begin with, and what comes next
CompilePhase ==
       "runtime code" :> [of |-> "runtime", what |-> "runtime", next |-> "runtime functions"]
    @@ "runtime functions" :> [of |-> "runtime", what |-> "missing", next |-> "creation code"]
    @@ "creation code" :> [of |-> "creation", what |-> "creation", next |-> "creation functions"]
    @@ "creation functions" :> [of |-> "creation", what |-> "missing", next |-> "late functions"]
    @@ "late functions" :> [of |-> "runtime", what |-> "missing", next |-> "deploy routine"]
    @@ "deploy routine" :> [of |-> "creation", what |-> "deploy", next |-> "assembly"]

\* appendMissingFunctions
MissingIn(c) ==
    IF nextFunctionToCompile(c) # 0 THEN "missing function"
    ELSE IF missingLowLevelFunctions(c) # << >> THEN "missing low level function" ELSE "nothing"

\* Functions that the creation code wants to be there at runtime are asked for there.
NextContexts(cs) ==
    IF phase = "creation functions" THEN [cs EXCEPT !.runtime = addRuntimeEntries(@, cs.creation)] ELSE cs

\* An error is not caught here.
GenerateCode ==
    /\ phase \in DOMAIN CompilePhase
    /\ \E current \in {CompilePhase[phase]} :
       \E what \in {IF current.what = "missing" THEN MissingIn(contexts[current.of]) ELSE current.what} :
          /\ contexts' = IF what = "nothing" THEN NextContexts(contexts)
                         ELSE [contexts EXCEPT ![current.of] = Generate(what, @, 0)]
          /\ phase' = IF contexts'[current.of].failed THEN "failed"
                      ELSE IF current.what = "missing" /\ what # "nothing" THEN phase ELSE current.next
    /\ UNCHANGED <<program, p, code, storage, frame, result, values>>

AssembleCode ==
    /\ phase = "assembly" /\ phase' = "compiled"
    /\ code' = [runtime |-> Assembled(contexts.runtime.items), creation |-> Assembled(contexts.creation.items)]
    /\ values' = StateOfContract(storage)
    /\ UNCHANGED <<program, p, contexts, storage, frame, result>>

-----------------------------------------------------------------------------
(* Messages *)

Message(selector, words, value) == [selector |-> selector, words |-> words, value |-> value, sender |-> Sender]

WordLists(n) == [1..n -> Programs[program].words]

ConstructorMessages ==
    LET constructor_ == constructor(p, Compiled)
        n == IF constructor_ = 0 THEN 0 ELSE Len(p.nodes[constructor_].parameters)
    IN {Message(0, w, v) : w \in WordLists(n), v \in {0, 1}}

\* Calls of all functions, without data, with too little of it, and for no function
CallMessages ==
    LET functions == ToSet(interfaceFunctionList(p, Compiled))
        Called(t, w, v) == Message(InterfaceHash(p, t), w, v)
    IN UNION {{Called(t, w, 0) : w \in WordLists(Len(t.parameterTypes))} : t \in functions}
       \cup {Called(t, << >>, v) : t \in functions, v \in {0, 1}}
       \cup {Message(-1, << >>, 0), Message(0, << >>, 0)}

Begin(message, kind) ==
    /\ frame = Idle /\ result.count < Programs[program].messages
    /\ frame' = Frame(message, kind)
    /\ UNCHANGED <<program, phase, p, contexts, code, storage, result, values>>

Deploy == phase = "compiled" /\ \E m \in ConstructorMessages : Begin(m, "creation")
Call == phase = "deployed" /\ \E m \in CallMessages : Begin(m, "runtime")

RunCode ==
    /\ frame # Idle
    /\ \E f \in {RunItems(frame, code[frame.kind], StepItems)} :
          IF f.end = "" THEN frame' = f /\ UNCHANGED <<phase, storage, result, values>>
          ELSE /\ frame' = Idle
               /\ result' = [message |-> f.message, count |-> result.count + 1, end |-> f.end,
                             data |-> f.data, logs |-> IF f.end = "return" THEN f.logs ELSE << >>]
               /\ storage' = IF f.end = "return" THEN f.storage ELSE storage
               /\ values' = IF f.end = "return" THEN StateOfContract(f.storage) ELSE values
               /\ phase' = IF f.kind = "creation" /\ f.end = "return" THEN "deployed" ELSE phase
    /\ UNCHANGED <<program, p, contexts, code>>

Next ==
    \/ ParseSource \/ CheckSyntax \/ RegisterDeclarations \/ ResolveNamesAndTypes \/ CheckContracts \/ CheckTypes
    \/ PostTypeCheck \/ AnalyzeControlFlow \/ StaticAnalysis \/ CheckMutability
    \/ StartCompiling \/ GenerateCode \/ AssembleCode
    \/ Deploy \/ Call \/ RunCode

Spec == Init /\ [][Next]_vars

-----------------------------------------------------------------------------
(* The tree *)

\* The table in docs/miscellaneous.rst, from the strongest operators to the weakest
OperatorTable ==
    <<{"**"}, {"*", "/", "%"}, {"+", "-"}, {"<<", ">>"}, {"&"}, {"^"}, {"|"}, {"<", ">", "<=", ">="}, {"==", "!="}, {"&&"}, {"||"}>>
Strength(n) == IF n.kind = "BinaryOperation" THEN 0 - CHOOSE i \in DOMAIN OperatorTable : n.op \in OperatorTable[i] ELSE 0

\* Operators take their operands as the documentation orders them, those of equal
\* strength from the left, whatever else is between them: parentheses, calls and indices
\* contain expressions of any strength, unary operators bind stronger than all of them, and
\* assignments and conditionals weaker (Parser::parseBinaryExpression).
OperatorsBindAsDocumented ==
    phase = "parsed" =>
        \A id \in DOMAIN p.nodes :
            LET n == p.nodes[id]
            IN /\ n.kind = "BinaryOperation" =>
                    /\ {p.nodes[n.left].kind, p.nodes[n.right].kind} \cap {"Assignment", "Conditional"} = {}
                    /\ Strength(p.nodes[n.left]) >= Strength(n) /\ Strength(p.nodes[n.right]) > Strength(n)
               /\ n.kind = "UnaryOperation" => p.nodes[n.sub].kind \notin {"BinaryOperation", "Assignment", "Conditional"}

RECURSIVE ScopesAround(_)
ScopesAround(id) == IF p.scope[id] = GlobalScope THEN << >> ELSE <<p.scope[id]>> \o ScopesAround(p.scope[id])

\* The declarations a name at some place can mean: those of the scopes around it that have
\* been made before it, and those that the contract inherits
CanMean(id, declaration) ==
    /\ p.nodes[declaration].kind \in Declared /\ p.nodes[declaration].name = p.nodes[id].name
    /\ isVisibleInContract(p.nodes[declaration])
    /\ \/ p.scope[declaration] \in ToSet(ScopesAround(id))
       \/ /\ isVisibleInDerivedContracts(p.nodes[declaration])
          /\ \E contract \in ToSet(ScopesAround(id)) :
                p.nodes[contract].kind = "ContractDefinition" /\ p.scope[declaration] \in ToSet(p.bases[contract])
    /\ ScopeOf(p, declaration).kind \in {"Block", "ForStatement"} =>
          \E statement \in 1..(id - 1) :
              /\ p.nodes[statement].kind = "VariableDeclarationStatement"
              /\ declaration \in ToSet(p.nodes[statement].variables)

\* A name means a declaration that can be seen from where it is used, and never one that
\* another one hides: a variable hides others only behind its own declaration, a block
\* keeps its variables, and private members stay in their contract.
NamesMeanTheInnermostDeclaration ==
    phase = "resolved" =>
        \A id \in {i \in DOMAIN p.nodes : p.nodes[i].kind = "Identifier"} :
        \A declaration \in {p.ref[id]} \cup ToSet(p.overloads[id]) :
            (declaration # 0 /\ p.nodes[declaration].kind # "MagicVariableDeclaration") =>
                /\ CanMean(id, declaration)
                /\ \A other \in DOMAIN p.nodes :
                      CanMean(id, other) => Len(ScopesAround(other)) <= Len(ScopesAround(declaration))

\* The order in which super and virtual calls go through the bases: every one is there
\* once, behind all that derive from it, in the order of each of the bases, and those
\* mentioned later come first (NameAndTypeResolver::linearizeBaseContracts).
LinearisationKeepsEveryOrder ==
    phase = "resolved" =>
        \A contract \in ToSet(Contracts) :
            LET specifiers == p.nodes[contract].baseContracts
                direct == [i \in DOMAIN specifiers |-> p.ref[p.nodes[specifiers[i]].baseName]]
            IN KeepsEveryOrder(p.bases[contract], contract, direct, p.bases)

-----------------------------------------------------------------------------
(* The control flow graph *)

AssignsFrom(node, v, i) ==
    \E k \in i..Len(node.variableOccurrences) : node.variableOccurrences[k] = [declaration |-> v, kind |-> "Assignment"]

UsesFrom(node, v, i) ==
    \E k \in i..Len(node.variableOccurrences) :
        /\ node.variableOccurrences[k].declaration = v /\ node.variableOccurrences[k].kind \in {"Access", "Return"}
        /\ \A j \in i..(k - 1) : node.variableOccurrences[j] # [declaration |-> v, kind |-> "Assignment"]

DeclaresAt(node, v, i) == node.variableOccurrences[i] = [declaration |-> v, kind |-> "Declaration"]

\* The nodes at whose start the value in the declaration of v is still being computed
RECURSIVE PendingIn(_, _, _)
PendingIn(nodes, v, pending) ==
    LET leaves == {n \in DOMAIN nodes \ {entry} :
                      \E i \in DOMAIN nodes[n].variableOccurrences : DeclaresAt(nodes[n], v, i) /\ ~AssignsFrom(nodes[n], v, i + 1)}
                  \cup {n \in pending : ~AssignsFrom(nodes[n], v, 1)}
        entered == UNION {nodes[n].exits : n \in leaves}
    IN IF entered \subseteq pending THEN pending ELSE PendingIn(nodes, v, pending \cup entered)

\* Every storage pointer but parameters has a value before its first use.
InitialisedByItsDeclaration(nodes, v) ==
    /\ \A n \in DOMAIN nodes \ {entry} : \A i \in DOMAIN nodes[n].variableOccurrences :
          DeclaresAt(nodes[n], v, i) => ~UsesFrom(nodes[n], v, i + 1)
    /\ \A n \in PendingIn(nodes, v, {}) : ~UsesFrom(nodes[n], v, 1)

StoragePointersIn(nodes) ==
    {o.declaration : o \in {o \in UNION {ToSet(node.variableOccurrences) : node \in ToSet(nodes)} :
                               dataStoredInStorage(p.type[o.declaration])}}

\* What module ControlFlowGraph assumes of the graphs, and the proofs about their analysis
\* rest on, is true of those that are built from the statements, loops and modifiers of a
\* program that got so far: nothing leaves the exit and the revert node or comes back to
\* the entry, and storage pointers are initialised where they are declared
\* (ControlFlowBuilder, TypeChecker::visit(VariableDeclarationStatement)).
GraphsAreWellFormed ==
    phase = "post checked" =>
        \A contract \in ToSet(Contracts) : \A function \in ToSet(ImplementedFunctions(p, contract)) :
            With(createFunctionFlow(p, function), LAMBDA nodes :
                 /\ nodes[exit].exits = {} /\ nodes[revert].exits = {}
                 /\ \A node \in ToSet(nodes) : entry \notin node.exits
                 /\ \A v \in StoragePointersIn(nodes) : InitialisedByItsDeclaration(nodes, v))

-----------------------------------------------------------------------------
(* The code *)

CreatedBy(q, m, variables) == Create(Running(q, m, variables))
AnsweredBy(q, m, variables) == Answered(Running(q, m, variables))

\* No function and no label is forgotten: when the code is complete, everything that it
\* refers to is in it exactly once, the functions that others asked for while they were
\* compiled included, and those of the runtime code that only the creation code asked for
\* (FunctionCompilationQueue, lowLevelFunctionTag, addRuntimeEntries); and every statement
\* and function leaves the stack as high as it has to be.
CodeIsComplete ==
    (phase = "compiled" /\ result.count = 0 /\ frame = Idle) =>
        /\ \A context \in Range(contexts) :
              /\ ~context.broken
              /\ \A i \in DOMAIN context.items :
                    context.items[i].op \in DOMAIN LabelOf =>
                        PlaceOf(context.items, LabelOf[context.items[i].op], context.items[i].arg) # 0
        /\ \A function \in ToSet(contexts.creation.runtimeEntries) :
              PlaceOf(contexts.runtime.items, "FUNTAG", function) # 0

\* What a function promises with view or pure, its code keeps: it changes no storage and
\* logs nothing, and a pure function answers as it would to anyone and in any state
\* (ViewPureChecker).
PromiseIsKept ==
    \A t \in ToSet(interfaceFunctionList(p, Compiled)) :
        InterfaceHash(p, t) = frame.message.selector =>
            /\ t.stateMutability \in {"view", "pure"} => storage' = storage /\ result'.logs = << >>
            /\ t.stateMutability = "pure" =>
                  \E s \in {AnsweredBy(p, [frame.message EXCEPT !.sender = @ + 1], InitialState(p))} :
                      IF s.end = "" THEN result'.end = "return" /\ result'.data = s.value ELSE result'.end = s.end

MutabilityIsKept == [][(phase = "deployed" /\ frame # Idle /\ frame' = Idle) => PromiseIsKept]_vars

\* A storage pointer that has not been assigned would point to the first slot.  An accepted
\* program uses one, or returns one from a function, only on the way to an error, whatever
\* path its branches, loops, modifiers and early returns take
\* (ControlFlowBuilder, ControlFlowAnalyzer::checkUninitializedAccess).
PointersAreAssigned ==
    [][(phase = "deployed" /\ frame # Idle /\ frame' = Idle /\ result'.end = "return") =>
          ~AnsweredBy(p, frame.message, values).astray]_vars

-----------------------------------------------------------------------------
(* The source *)

HasCode == phase \in {"compiled", "deployed"}

Source == INSTANCE SourceContract
          WITH source <- IF HasCode THEN p ELSE << >>,
               live <- (phase = "deployed"),
               state <- IF HasCode THEN values ELSE << >>,
               Create <- CreatedBy, Answered <- AnsweredBy

\* What the compiled code does with any message, from its deployment on, is what the
\* source says: the same results, events and errors, and the same values of the state
\* variables.
DoesWhatTheSourceSays == Source!Spec
=============================================================================
