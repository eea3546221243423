---------------------------- MODULE CompilerStack ----------------------------
(***************************************************************************)
(* dev::polynomial::CompilerStack (libpolynomial/interface/CompilerStack.h  *)
(* and .cpp): one object that a client drives through setSources, parse,    *)
(* analyze and compile, retries after a failure, reconfigures and resets.   *)
(*                                                                         *)
(* A client call is an action (call becomes its name); what it does then    *)
(* is a sequence of steps, one per source parsed, import loaded, node of    *)
(* the import graph sorted, analysis pass run, contract compiled.  The last *)
(* step sets outcome to what the client sees: the value returned or the     *)
(* exception thrown.                                                        *)
(*                                                                         *)
(* Data.  A source's text is a member of Contents: how it parses and what   *)
(* it imports (after applyRemapping).  A source declares at most one        *)
(* contract, which is named by the path of its source.  The settings that   *)
(* may only change before parsing (remappings, libraries, SVM version,      *)
(* optimiser, literal metadata) are one value.                              *)
(***************************************************************************)
EXTENDS ErrorReporter, Sequences, FiniteSets

CONSTANTS
    Paths,           \* source unit names
    Contents,        \* source texts: [parses : ParseResult, imports : SUBSET Paths]
    Declaring,       \* the paths whose source declares a contract
    Deployable,      \* the contracts for which canBeDeployed() holds: neither
                     \* abstract nor with an internal constructor
    Bases,           \* Bases[c]: the contracts c derives from, directly or not,
    Creates,         \* Creates[c]: those whose code its functions use (new, creationCode),
                     \* as far as its source imports them
    Settings,        \* values of the settings
    DefaultSettings, \* the one reset() restores
    RequestSets      \* values of m_requestedContractNames

\* The parser finds no error; it reports one and recovers; it gives up.
ParseResult == {"ok", "recovers", "fails"}

ASSUME StackAssumption ==
    /\ Contents \subseteq [parses : ParseResult, imports : SUBSET Paths]
    /\ Deployable \subseteq Declaring /\ Declaring \subseteq Paths
    /\ Bases \in [Declaring -> SUBSET Declaring]
    /\ \A c \in Declaring : \A b \in Bases[c] : Bases[b] \subseteq Bases[c]
    \* TypeChecker rejects the creation of a contract that cannot be deployed.
    /\ Creates \in [Declaring -> SUBSET Deployable]
    /\ DefaultSettings \in Settings
    /\ {} \in RequestSets /\ RequestSets \subseteq SUBSET Declaring
    \* TypeChecker rejects cyclic dependencies: every set of contracts has one
    \* that depends on none of them.
    /\ \A S \in SUBSET Declaring :
          S # {} => \E c \in S : (Bases[c] \cup Creates[c]) \cap S = {}

VARIABLES
    m_stackState,   \* CompilerStack::State, by its position in the enum
    m_sources,      \* path -> text and whether Source::ast is set
    m_settings,
    m_requestedContractNames,
    m_generateIR,
    m_sourceOrder,
    m_scopes,       \* what has a DeclarationContainer
    m_contracts,    \* contract -> what it was compiled from
    reporter,       \* m_errorReporter
    call,           \* the client call in progress, "none" between calls
    outcome,        \* how the last call ended
    pc,             \* the step of the call that is next
    work            \* the local variables of that step

settingVars == <<m_settings, m_requestedContractNames, m_generateIR>>
vars == <<m_stackState, m_sources, settingVars, m_sourceOrder, m_scopes,
          m_contracts, reporter, call, outcome, pc, work>>

Empty == 0
SourcesSet == 1
ParsingSuccessful == 2
AnalysisSuccessful == 3
CompilationSuccessful == 4

NoWork == [none |-> {}]

\* The scope of the global declarations, m_scopes[nullptr].
GlobalScope == "global"

\* No artifact has been made.
NotMade == << >>

\* What an artifact depends on: the text of its source and the settings.
Inputs(p) == <<m_sources[p].content, m_settings>>

NoArtifacts == [compiler |-> NotMade, object |-> NotMade, linked |-> FALSE,
                metadata |-> NotMade, yulIR |-> NotMade]

Init ==
    /\ m_stackState = Empty
    /\ m_sources = << >>
    /\ m_settings = DefaultSettings
    /\ m_requestedContractNames = {}
    /\ m_generateIR = FALSE
    /\ m_sourceOrder = << >>
    /\ m_scopes = {}
    /\ m_contracts = << >>
    /\ reporter = NewReporter
    /\ call = "none"
    /\ outcome = "none"
    /\ pc = "client"
    /\ work = NoWork

-----------------------------------------------------------------------------
(* How a call ends.                                                         *)

EndWith(result) ==
    /\ call' = "none"
    /\ outcome' = result
    /\ pc' = "client"
    /\ work' = NoWork

GoTo(step, locals) ==
    /\ pc' = step
    /\ work' = locals
    /\ UNCHANGED <<call, outcome>>

\* A call that the state does not allow throws a CompilerError.
Refuse ==
    /\ EndWith("CompilerError")
    /\ UNCHANGED <<m_stackState, m_sources, settingVars, m_sourceOrder, m_scopes,
                   m_contracts, reporter>>

-----------------------------------------------------------------------------
(* Calls that return at once.                                               *)

SetSources(sources) ==
    /\ call = "none"
    /\ IF m_stackState # Empty THEN Refuse
       ELSE /\ m_sources' = [p \in DOMAIN sources |->
                               [content |-> sources[p], ast |-> FALSE]]
            /\ m_stackState' = SourcesSet
            /\ EndWith("true")
            /\ UNCHANGED <<settingVars, m_sourceOrder, m_scopes, m_contracts,
                           reporter>>

\* Mutant of Configure: settings may change until the compilation succeeds.
ConfigureUntilCompiled(settings) ==
    /\ call = "none"
    /\ IF m_stackState >= CompilationSuccessful THEN Refuse
       ELSE /\ m_settings' = settings
            /\ EndWith("true")
            /\ UNCHANGED <<m_stackState, m_sources, m_requestedContractNames,
                           m_generateIR, m_sourceOrder, m_scopes, m_contracts,
                           reporter>>

\* setRemappings, setSVMVersion, setLibraries, setOptimiserSettings and
\* useMetadataLiteralSources.
Configure(settings) ==
    /\ call = "none"
    /\ IF m_stackState >= ParsingSuccessful THEN Refuse
       ELSE /\ m_settings' = settings
            /\ EndWith("true")
            /\ UNCHANGED <<m_stackState, m_sources, m_requestedContractNames,
                           m_generateIR, m_sourceOrder, m_scopes, m_contracts,
                           reporter>>

SetRequestedContractNames(names) ==
    /\ call = "none"
    /\ m_requestedContractNames' = names
    /\ EndWith("true")
    /\ UNCHANGED <<m_stackState, m_sources, m_settings, m_generateIR,
                   m_sourceOrder, m_scopes, m_contracts, reporter>>

EnableIRGeneration(enable) ==
    /\ call = "none"
    /\ m_generateIR' = enable
    /\ EndWith("true")
    /\ UNCHANGED <<m_stackState, m_sources, m_settings, m_requestedContractNames,
                   m_sourceOrder, m_scopes, m_contracts, reporter>>

Reset(keepSettings) ==
    /\ call = "none"
    /\ m_stackState' = Empty
    /\ m_sources' = << >>
    /\ m_settings' = IF keepSettings THEN m_settings ELSE DefaultSettings
    /\ m_generateIR' = (keepSettings /\ m_generateIR)
    /\ m_sourceOrder' = << >>
    /\ m_scopes' = {}
    /\ m_contracts' = << >>
    /\ reporter' = clear(reporter)
    /\ EndWith("reset")
    /\ UNCHANGED m_requestedContractNames

-----------------------------------------------------------------------------
(* parse, parseAndAnalyze, analyze and compile.                             *)

\* The stages a call runs through before the one it is named after.
BeginParse(name) ==
    IF m_stackState # SourcesSet THEN Refuse
    ELSE /\ call' = name
         /\ reporter' \in {clear(reporter), warning(clear(reporter))}
         /\ pc' = "parse"
         /\ work' = [toParse |-> DOMAIN m_sources]
         /\ outcome' = "none"
         /\ UNCHANGED <<m_stackState, m_sources, settingVars, m_sourceOrder,
                        m_scopes, m_contracts>>

Parse == call = "none" /\ BeginParse("parse")

ParseAndAnalyze == call = "none" /\ BeginParse("parseAndAnalyze")

NewSort == [stack |-> << >>, seen |-> {}, order |-> << >>]

Analyze ==
    /\ call = "none"
    /\ IF m_stackState # ParsingSuccessful THEN Refuse
       ELSE /\ call' = "analyze"
            /\ outcome' = "none"
            /\ pc' = "sort"
            /\ work' = NewSort
            /\ UNCHANGED <<m_stackState, m_sources, settingVars, m_sourceOrder,
                           m_scopes, m_contracts, reporter>>

NewCompilation ==
    [next |-> 1, stage |-> "code", stack |-> << >>, otherCompilers |-> {}]

Compile ==
    /\ call = "none"
    /\ IF m_stackState < AnalysisSuccessful THEN BeginParse("compile")
       ELSE /\ call' = "compile"
            /\ outcome' = "none"
            /\ pc' = "compile"
            /\ work' = NewCompilation
            /\ UNCHANGED <<m_stackState, m_sources, settingVars, m_sourceOrder,
                           m_scopes, m_contracts, reporter>>

\* The loop of parse() at source p.  A parser that gives up returns no AST,
\* which parse() asserts to come with an error in the list.
ParseSource(p) ==
    /\ pc = "parse"
    /\ p \in work.toParse
    /\ LET content == m_sources[p].content
           report == IF content.parses = "ok" THEN reporter ELSE error(reporter)
           gaveUp == \/ content.parses = "fails"
                     \/ content.parses = "recovers" /\ ErrorIsFatal(reporter)
       IN /\ reporter' = report
          /\ m_sources' = [m_sources EXCEPT ![p].ast = ~gaveUp]
          /\ CASE ~gaveUp ->
                    GoTo("load", [toParse    |-> work.toParse \ {p},
                                  imports    |-> content.imports,
                                  newSources |-> << >>])
               [] gaveUp /\ ~containsOnlyWarnings(report) ->
                    GoTo("parse", [toParse |-> work.toParse \ {p}])
               [] gaveUp /\ containsOnlyWarnings(report) ->
                    EndWith("InternalCompilerError")
    /\ UNCHANGED <<m_stackState, settingVars, m_sourceOrder, m_scopes,
                   m_contracts>>

\* loadMissingSources at one import directive.  The read callback may find a
\* file or not, and need not give the same answer twice.
LoadImport(i) ==
    /\ pc = "load"
    /\ i \in work.imports
    /\ \/ /\ i \in DOMAIN m_sources \cup DOMAIN work.newSources
          /\ GoTo("load", [work EXCEPT !.imports = @ \ {i}])
          /\ UNCHANGED reporter
       \/ /\ i \notin DOMAIN m_sources \cup DOMAIN work.newSources
          /\ \E content \in Contents :
                GoTo("load", [work EXCEPT !.imports = @ \ {i},
                    !.newSources = [q \in DOMAIN @ \cup {i} |->
                                      IF q = i THEN content ELSE @[q]]])
          /\ UNCHANGED reporter
       \/ /\ i \notin DOMAIN m_sources \cup DOMAIN work.newSources
          /\ reporter' = error(reporter)
          /\ IF ErrorIsFatal(reporter) THEN EndWith("FatalError")
             ELSE GoTo("load", [work EXCEPT !.imports = @ \ {i}])
    /\ UNCHANGED <<m_stackState, m_sources, settingVars, m_sourceOrder, m_scopes,
                   m_contracts>>

\* Mutant of AddNewSources: the new sources are not queued.
AddNewSourcesUnparsed ==
    /\ pc = "load"
    /\ work.imports = {}
    /\ m_sources' = [p \in DOMAIN m_sources \cup DOMAIN work.newSources |->
                        IF p \in DOMAIN m_sources THEN m_sources[p]
                        ELSE [content |-> work.newSources[p], ast |-> FALSE]]
    /\ GoTo("parse", [toParse |-> work.toParse])
    /\ UNCHANGED <<m_stackState, settingVars, m_sourceOrder, m_scopes, m_contracts,
                   reporter>>

\* Mutant of AddNewSources: every source is queued, not only the new ones.
AddNewSourcesAll ==
    /\ pc = "load"
    /\ work.imports = {}
    /\ m_sources' = [p \in DOMAIN m_sources \cup DOMAIN work.newSources |->
                        IF p \in DOMAIN m_sources THEN m_sources[p]
                        ELSE [content |-> work.newSources[p], ast |-> FALSE]]
    /\ GoTo("parse", [toParse |-> DOMAIN m_sources \cup DOMAIN work.newSources])
    /\ UNCHANGED <<m_stackState, settingVars, m_sourceOrder, m_scopes, m_contracts,
                   reporter>>

AddNewSources ==
    /\ pc = "load"
    /\ work.imports = {}
    /\ m_sources' = [p \in DOMAIN m_sources \cup DOMAIN work.newSources |->
                        IF p \in DOMAIN m_sources THEN m_sources[p]
                        ELSE [content |-> work.newSources[p], ast |-> FALSE]]
    /\ GoTo("parse", [toParse |-> work.toParse \cup DOMAIN work.newSources])
    /\ UNCHANGED <<m_stackState, settingVars, m_sourceOrder, m_scopes,
                   m_contracts, reporter>>

EndParse ==
    /\ pc = "parse"
    /\ work.toParse = {}
    /\ IF containsOnlyWarnings(reporter)
       THEN /\ m_stackState' = ParsingSuccessful
            /\ IF call = "parse" THEN EndWith("true") ELSE GoTo("sort", NewSort)
       ELSE EndWith("false") /\ UNCHANGED m_stackState
    /\ UNCHANGED <<m_sources, settingVars, m_sourceOrder, m_scopes, m_contracts,
                   reporter>>

-----------------------------------------------------------------------------
(* resolveImports: depth first search of the import graph.  A frame is a    *)
(* call of the lambda toposort; the order of roots and of imports is left   *)
(* open.                                                                    *)

Top(stack) == stack[Len(stack)]
Pop(stack) == SubSeq(stack, 1, Len(stack) - 1)
SetTop(stack, frame) == [stack EXCEPT ![Len(stack)] = frame]

\* Calls toposort(p) with the stack left by the caller.
Toposort(p, stack) ==
    IF p \in work.seen THEN [work EXCEPT !.stack = stack]
    ELSE [work EXCEPT !.stack = Append(stack,
                           [source |-> p, imports |-> m_sources[p].content.imports]),
                      !.seen = @ \cup {p}]

SortRoot(p) ==
    /\ pc = "sort"
    /\ work.stack = << >>
    /\ p \in DOMAIN m_sources \ work.seen
    /\ GoTo("sort", Toposort(p, << >>))
    /\ UNCHANGED <<m_stackState, m_sources, settingVars, m_sourceOrder, m_scopes,
                   m_contracts, reporter>>

SortImport(i) ==
    /\ pc = "sort"
    /\ work.stack # << >>
    /\ i \in Top(work.stack).imports
    /\ GoTo("sort", Toposort(i, SetTop(work.stack,
                        [Top(work.stack) EXCEPT !.imports = @ \ {i}])))
    /\ UNCHANGED <<m_stackState, m_sources, settingVars, m_sourceOrder, m_scopes,
                   m_contracts, reporter>>

\* Mutant of SortReturn: a source is put in front of those sorted before it.
SortReturnReversed ==
    /\ pc = "sort"
    /\ work.stack # << >>
    /\ Top(work.stack).imports = {}
    /\ GoTo("sort", [work EXCEPT !.stack = Pop(@),
                                 !.order = <<Top(work.stack).source>> \o @])
    /\ UNCHANGED <<m_stackState, m_sources, settingVars, m_sourceOrder, m_scopes,
                   m_contracts, reporter>>

SortReturn ==
    /\ pc = "sort"
    /\ work.stack # << >>
    /\ Top(work.stack).imports = {}
    /\ GoTo("sort", [work EXCEPT !.stack = Pop(@),
                                 !.order = Append(@, Top(work.stack).source)])
    /\ UNCHANGED <<m_stackState, m_sources, settingVars, m_sourceOrder, m_scopes,
                   m_contracts, reporter>>

EndSort ==
    /\ pc = "sort"
    /\ work.stack = << >>
    /\ DOMAIN m_sources \subseteq work.seen
    /\ m_sourceOrder' = work.order
    /\ GoTo("analyze", [pass |-> 1, noErrors |-> TRUE])
    /\ UNCHANGED <<m_stackState, m_sources, settingVars, m_scopes, m_contracts,
                   reporter>>

-----------------------------------------------------------------------------
(* The passes of analyze(), in order.  What a pass returns:                 *)
(*   "list"   containsOnlyWarnings of the whole error list                  *)
(*   "flag"   a flag that each of its own errors clears                     *)
(*   "loose"  a flag that some of its own errors leave alone                *)
(*   "none"   nothing, or true however many errors it reports               *)
(* A gated pass only runs if no pass before it failed; after the failure of *)
(* one that bails out analyze() returns at once.                            *)

Pass(name, over, verdict, gated, bailsOut) ==
    [name |-> name, over |-> over, verdict |-> verdict, gated |-> gated,
     bailsOut |-> bailsOut]

Passes ==
    <<Pass("SyntaxChecker",        "sources",   "list",  FALSE, FALSE),
      Pass("DocStringAnalyser",    "sources",   "flag",  FALSE, FALSE),
      Pass("registerDeclarations", "sources",   "none",  FALSE, TRUE),
      Pass("performImports",       "sources",   "flag",  FALSE, TRUE),
      Pass("resolveNamesAndTypes", "contracts", "loose", FALSE, TRUE),
      Pass("ContractLevelChecker", "contracts", "list",  FALSE, FALSE),
      Pass("TypeChecker",          "contracts", "list",  FALSE, FALSE),
      Pass("PostTypeChecker",      "sources",   "list",  TRUE,  FALSE),
      Pass("CFG",                  "sources",   "list",  TRUE,  FALSE),
      Pass("ControlFlowAnalyzer",  "sources",   "list",  TRUE,  FALSE),
      Pass("StaticAnalyzer",       "sources",   "list",  TRUE,  FALSE),
      Pass("ViewPureChecker",      "contracts", "flag",  TRUE,  FALSE),
      Pass("SMTChecker",           "sources",   "none",  TRUE,  FALSE)>>

\* What the pass runs over: nothing, if there is none of it.
Subjects(pass) ==
    IF pass.over = "sources" THEN DOMAIN m_sources ELSE DOMAIN m_sources \cap Declaring

\* What a pass may report: CFG reports nothing and SMTChecker only warns, for
\* the most part through a reporter of its own that it appends.
Findings(pass) ==
    CASE Subjects(pass) = {} \/ pass.name = "CFG" -> {"nothing"}
      [] Subjects(pass) # {} /\ pass.name = "SMTChecker" ->
            {"nothing", "warning", "appended warning"}
      [] OTHER -> {"nothing", "warning", "error", "fatal error"}

Reported(finding) ==
    CASE finding = "nothing"          -> reporter
      [] finding = "warning"          -> warning(reporter)
      [] finding = "appended warning" -> append(reporter, {"warning"})
      [] OTHER                        -> error(reporter)

\* Mutant of Verdicts: a pass answers for its own errors only.
VerdictsOnOwnErrors(pass, finding) ==
    IF pass.verdict # "none" /\ finding = "error" THEN {FALSE} ELSE {TRUE}

\* The values the pass may return.
Verdicts(pass, finding) ==
    CASE Subjects(pass) # {} /\ pass.verdict = "list" ->
            {containsOnlyWarnings(Reported(finding))}
      [] pass.verdict = "flag" /\ finding = "error"  -> {FALSE}
      [] pass.verdict = "loose" /\ finding = "error" -> BOOLEAN
      [] OTHER -> {TRUE}

\* resolveNamesAndTypes is followed by the contract's entry in m_contracts.
Register(contracts) ==
    m_contracts' = [c \in DOMAIN m_contracts \cup contracts |->
                      IF c \in DOMAIN m_contracts THEN m_contracts[c] ELSE NoArtifacts]

\* What the pass leaves in m_contracts and m_scopes once it has dealt with
\* the contracts in done.
Records(pass, done) ==
    /\ IF pass.name = "resolveNamesAndTypes" THEN Register(done)
       ELSE UNCHANGED m_contracts
    /\ m_scopes' = IF pass.name = "registerDeclarations"
                   THEN m_scopes \cup {GlobalScope} \cup done ELSE m_scopes

\* enterNewSubScope asserts that a contract gets its scope only once.
ScopesAreFree == m_scopes \cap Declaring = {}

RunPass ==
    /\ pc = "analyze"
    /\ work.pass <= Len(Passes)
    /\ LET pass == Passes[work.pass]
           contracts == DOMAIN m_sources \cap Declaring
       IN /\ pass.name = "registerDeclarations" => ScopesAreFree
          /\ \/ /\ pass.gated /\ ~work.noErrors
                /\ GoTo("analyze", [work EXCEPT !.pass = @ + 1])
                /\ UNCHANGED <<reporter, m_contracts, m_scopes>>
             \/ /\ ~pass.gated \/ work.noErrors
                /\ \E finding \in Findings(pass) :
                      LET throws == \/ finding = "fatal error"
                                    \/ finding = "error" /\ ErrorIsFatal(reporter)
                      IN /\ reporter' = Reported(finding)
                         /\ \E ok \in Verdicts(pass, finding) :
                               IF throws \/ (~ok /\ pass.bailsOut)
                               THEN /\ EndWith("false")
                                    /\ \E done \in SUBSET contracts : Records(pass, done)
                               ELSE /\ GoTo("analyze", [pass |-> work.pass + 1,
                                                        noErrors |-> work.noErrors /\ ok])
                                    /\ Records(pass, contracts)
    /\ UNCHANGED <<m_stackState, m_sources, settingVars, m_sourceOrder>>

\* A second analyze() meets the scopes of the first.  The new GlobalContext
\* has replaced the one whose declarations they name, and conflictingDeclaration
\* follows those pointers: what it returns is undefined.  An assertion fails
\* there or at the first contract.
RegisterDeclarationsAgain ==
    /\ pc = "analyze"
    /\ work.pass <= Len(Passes)
    /\ Passes[work.pass].name = "registerDeclarations"
    /\ GlobalScope \in m_scopes
    /\ EndWith("InternalCompilerError")
    /\ UNCHANGED <<m_stackState, m_sources, settingVars, m_sourceOrder, m_scopes,
                   m_contracts, reporter>>

EndAnalyze ==
    /\ pc = "analyze"
    /\ work.pass = Len(Passes) + 1
    /\ IF work.noErrors
       THEN /\ m_stackState' = AnalysisSuccessful
            /\ IF call = "compile" THEN GoTo("compile", NewCompilation) ELSE EndWith("true")
       ELSE EndWith("false") /\ UNCHANGED m_stackState
    /\ UNCHANGED <<m_sources, settingVars, m_sourceOrder, m_scopes, m_contracts,
                   reporter>>

-----------------------------------------------------------------------------
(* compile(): compileContract and generateIR recurse over the contracts     *)
(* that a contract depends on.  A frame is a call of one of them.           *)

isRequestedContract(c) ==
    m_requestedContractNames = {} \/ c \in m_requestedContractNames

\* The sources that p imports, directly or not: performImports copies all that
\* the imported source has, what it imported itself included.
ImportedBy(p) ==
    {q \in DOMAIN m_sources : \A S \in SUBSET DOMAIN m_sources :
        (/\ m_sources[p].content.imports \subseteq S
         /\ \A r \in S : m_sources[r].content.imports \subseteq S) => q \in S}

linearizedBaseContracts(c) == {c} \cup (Bases[c] \cap ImportedBy(c))

\* linearizeBaseContracts adds the bases of a contract, TypeChecker what its
\* own functions create.
contractDependencies(c) == (Bases[c] \cup Creates[c]) \cap ImportedBy(c)

\* What the code of a contract needs: the inherited functions are part of it.
compiledContracts(c) == UNION {Creates[b] \cap ImportedBy(b) : b \in linearizedBaseContracts(c)}

\* Mutant of Enter: the dependencies are not visited.
EnterAlone(kind, c, stack, otherCompilers) ==
    IF \/ c \notin Deployable
       \/ kind = "code" /\ c \in otherCompilers
       \/ kind = "ir" /\ m_contracts[c].yulIR # NotMade
    THEN stack
    ELSE Append(stack, [kind |-> kind, contract |-> c, rest |-> {}])

\* Mutant of Enter: a contract that has been compiled is compiled again.
EnterAgain(kind, c, stack, otherCompilers) ==
    IF \/ c \notin Deployable
       \/ kind = "ir" /\ m_contracts[c].yulIR # NotMade
    THEN stack
    ELSE Append(stack, [kind |-> kind, contract |-> c, rest |-> contractDependencies(c)])

\* The function kind ("code" or "ir") is called for c: it returns at once if
\* there is nothing to do.
Enter(kind, c, stack, otherCompilers) ==
    IF \/ c \notin Deployable
       \/ kind = "code" /\ c \in otherCompilers
       \/ kind = "ir" /\ m_contracts[c].yulIR # NotMade
    THEN stack
    ELSE Append(stack, [kind |-> kind, contract |-> c, rest |-> contractDependencies(c)])

\* The loop over the source order at its next element.  stage tells whether
\* compileContract or generateIR is to be called for it.
CompileNext ==
    /\ pc = "compile"
    /\ work.stack = << >>
    /\ work.next <= Len(m_sourceOrder)
    /\ LET c == m_sourceOrder[work.next]
           wanted == c \in Declaring /\ isRequestedContract(c)
       IN GoTo("compile",
            IF ~wanted THEN [work EXCEPT !.next = @ + 1]
            ELSE IF work.stage = "code"
            THEN [work EXCEPT !.stage = "ir",
                              !.stack = Enter("code", c, @, work.otherCompilers)]
            ELSE [work EXCEPT !.stage = "code", !.next = @ + 1,
                              !.stack = IF m_generateIR THEN Enter("ir", c, @, {}) ELSE @])
    /\ UNCHANGED <<m_stackState, m_sources, settingVars, m_sourceOrder, m_scopes,
                   m_contracts, reporter>>

VisitDependency(d) ==
    /\ pc = "compile"
    /\ work.stack # << >>
    /\ LET top == Top(work.stack)
       IN /\ d \in top.rest
          /\ GoTo("compile", [work EXCEPT !.stack =
                Enter(top.kind, d, SetTop(@, [top EXCEPT !.rest = @ \ {d}]),
                      work.otherCompilers)])
    /\ UNCHANGED <<m_stackState, m_sources, settingVars, m_sourceOrder, m_scopes,
                   m_contracts, reporter>>

\* The rest of compileContract.  Code generation asserts that the code it needs
\* is there; it and the two assemblers may throw (stack too deep, a feature that
\* is not implemented): the compiler and the cached metadata are then already
\* stored, the object perhaps.  What went well once does so again.
CompileContract ==
    /\ pc = "compile"
    /\ work.stack # << >>
    /\ LET top == Top(work.stack)
           c == top.contract
           metadata == IF m_contracts[c].metadata = NotMade THEN Inputs(c)
                       ELSE m_contracts[c].metadata
           found == compiledContracts(c) \subseteq work.otherCompilers
       IN /\ top.kind = "code"
          /\ top.rest = {}
          /\ \E assembled \in BOOLEAN :
                /\ assembled => found
                /\ m_contracts' = [m_contracts EXCEPT
                      ![c].compiler = Inputs(c), ![c].metadata = metadata,
                      ![c].object = IF assembled THEN Inputs(c) ELSE @,
                      ![c].linked = ~assembled /\ @]
                /\ \/ /\ assembled
                      /\ GoTo("compile", [work EXCEPT !.stack = Pop(@),
                                                     !.otherCompilers = @ \cup {c}])
                   \/ /\ m_contracts[c].object # Inputs(c)
                      /\ EndWith("exception")
                   \/ /\ ~assembled /\ ~found
                      /\ EndWith("InternalCompilerError")
    /\ UNCHANGED <<m_stackState, m_sources, settingVars, m_sourceOrder, m_scopes,
                   reporter>>

\* The rest of generateIR, which may throw too.
GenerateIR ==
    /\ pc = "compile"
    /\ work.stack # << >>
    /\ LET top == Top(work.stack)
       IN /\ top.kind = "ir"
          /\ top.rest = {}
          /\ \/ /\ m_contracts' = [m_contracts EXCEPT ![top.contract].yulIR = Inputs(top.contract)]
                /\ GoTo("compile", [work EXCEPT !.stack = Pop(@)])
             \/ /\ EndWith("exception")
                /\ UNCHANGED m_contracts
    /\ UNCHANGED <<m_stackState, m_sources, settingVars, m_sourceOrder, m_scopes,
                   reporter>>

\* Mutant of EndCompile: link() is not called.
EndCompileUnlinked ==
    /\ pc = "compile"
    /\ work.stack = << >>
    /\ work.next = Len(m_sourceOrder) + 1
    /\ m_stackState' = CompilationSuccessful
    /\ EndWith("true")
    /\ UNCHANGED <<m_sources, settingVars, m_sourceOrder, m_scopes, m_contracts,
                   reporter>>

\* link() resolves the library placeholders of every object there is.
EndCompile ==
    /\ pc = "compile"
    /\ work.stack = << >>
    /\ work.next = Len(m_sourceOrder) + 1
    /\ m_stackState' = CompilationSuccessful
    /\ m_contracts' = [c \in DOMAIN m_contracts |-> [m_contracts[c] EXCEPT !.linked = TRUE]]
    /\ EndWith("true")
    /\ UNCHANGED <<m_sources, settingVars, m_sourceOrder, m_scopes, reporter>>

-----------------------------------------------------------------------------

ClientCall ==
    \/ \E S \in SUBSET Paths : \E sources \in [S -> Contents] : SetSources(sources)
    \/ \E s \in Settings : Configure(s)
    \/ \E names \in RequestSets : SetRequestedContractNames(names)
    \/ \E enable \in BOOLEAN : EnableIRGeneration(enable)
    \/ \E keepSettings \in BOOLEAN : Reset(keepSettings)
    \/ Parse
    \/ ParseAndAnalyze
    \/ Analyze
    \/ Compile

CompilerStep ==
    \/ \E p \in Paths : ParseSource(p) \/ LoadImport(p) \/ SortRoot(p) \/ SortImport(p)
    \/ AddNewSources
    \/ EndParse
    \/ SortReturn
    \/ EndSort
    \/ RunPass
    \/ RegisterDeclarationsAgain
    \/ EndAnalyze
    \/ CompileNext
    \/ \E d \in Declaring : VisitDependency(d)
    \/ CompileContract
    \/ GenerateIR
    \/ EndCompile

Next == ClientCall \/ CompilerStep

Spec == Init /\ [][Next]_vars

\* The compiler does not stop in the middle of a call; clients may.
FairSpec == Spec /\ WF_vars(CompilerStep)

-----------------------------------------------------------------------------

TypeOK ==
    /\ m_stackState \in Empty..CompilationSuccessful
    /\ DOMAIN m_sources \subseteq Paths
    /\ \A p \in DOMAIN m_sources : m_sources[p] \in [content : Contents, ast : BOOLEAN]
    /\ m_settings \in Settings
    /\ m_requestedContractNames \in RequestSets
    /\ m_generateIR \in BOOLEAN
    /\ m_sourceOrder \in Seq(Paths)
    /\ m_scopes \subseteq {GlobalScope} \cup Declaring
    /\ DOMAIN m_contracts \subseteq DOMAIN m_sources \cap Declaring
    /\ reporter \in Reporter
    /\ call \in {"none", "parse", "parseAndAnalyze", "analyze", "compile"}
    /\ pc \in {"client", "parse", "load", "sort", "analyze", "compile"}
    /\ (call = "none") <=> (pc = "client")

(***************************************************************************)
(* Once analyze() has succeeded the list holds no error, although           *)
(* registerDeclarations and resolveNamesAndTypes may report one and return  *)
(* true: a later pass answers for the whole list, unless there is no later  *)
(* pass that runs.                                                          *)
(***************************************************************************)
AnalysedWithoutErrors ==
    m_stackState >= AnalysisSuccessful => containsOnlyWarnings(reporter)

(***************************************************************************)
(* Once parse() has succeeded every source has an AST and every import was  *)
(* loaded, which ast(), lastContractName() and resolveImports dereference   *)
(* without a check; and once analyze() has, every contract has its entry in *)
(* m_contracts, which compileContract takes with at().                      *)
(***************************************************************************)
ParsedIsComplete ==
    /\ m_stackState >= ParsingSuccessful =>
          \A p \in DOMAIN m_sources :
              m_sources[p].ast /\ m_sources[p].content.imports \subseteq DOMAIN m_sources
    /\ m_stackState >= AnalysisSuccessful =>
          DOMAIN m_contracts = DOMAIN m_sources \cap Declaring

Position(p) == CHOOSE k \in 1..Len(m_sourceOrder) : m_sourceOrder[k] = p

(***************************************************************************)
(* resolveImports lists every source exactly once, and an imported source   *)
(* before the one that imports it except where the imports are cyclic:      *)
(* "topological sorting (depth first search) of the import graph, cutting   *)
(* potential cycles".                                                       *)
(***************************************************************************)
OrderRespectsImports ==
    m_stackState >= AnalysisSuccessful =>
        /\ {m_sourceOrder[k] : k \in DOMAIN m_sourceOrder} = DOMAIN m_sources
        /\ Len(m_sourceOrder) = Cardinality(DOMAIN m_sources)
        /\ \A p \in DOMAIN m_sources : \A q \in m_sources[p].content.imports :
              p \notin ImportedBy(q) => Position(q) < Position(p)

(***************************************************************************)
(* No result outlives what it was made from: an object, the metadata hashed *)
(* into it and the IR belong to the text and the settings that are set now, *)
(* after any sequence of resets, reconfigurations, failures and repeated    *)
(* compilations.                                                            *)
(***************************************************************************)
ArtifactsAreCurrent ==
    \A c \in DOMAIN m_contracts :
        LET made == m_contracts[c]
        IN {made.compiler, made.object, made.metadata, made.yulIR} \subseteq {NotMade, Inputs(c)}

\* The contracts that compiling c needs: c and those it depends on, and so on.
Needed(c) ==
    {d \in Declaring : \A S \in SUBSET Declaring :
        (c \in S /\ \A e \in S \cap DOMAIN m_sources : contractDependencies(e) \subseteq S)
            => d \in S}

(***************************************************************************)
(* When compile() succeeds, every requested contract that can be deployed   *)
(* and everything it depends on, directly or not, has a linked object.      *)
(***************************************************************************)
CompileDelivers ==
    [][call = "compile" /\ outcome' = "true" =>
          \A c \in DOMAIN m_contracts : isRequestedContract(c) /\ c \in Deployable =>
              \A d \in Needed(c) \cap Deployable :
                  m_contracts'[d].object # NotMade /\ m_contracts'[d].linked]_vars

(***************************************************************************)
(* A contract is compiled at most once per compile(), and only after all    *)
(* that it depends on: the compiler looks their bytecode up in              *)
(* _otherCompilers, "Only filled after they have been compiled".            *)
(***************************************************************************)
DependenciesFirst ==
    [][CompileContract =>
          LET c == Top(work.stack).contract
          IN /\ c \notin work.otherCompilers
             /\ contractDependencies(c) \cap Deployable \subseteq work.otherCompilers]_vars

(***************************************************************************)
(* Code generation finds every contract whose code it needs ("Compiled      *)
(* contract not found." is asserted not to happen).                         *)
(***************************************************************************)
CompiledContractIsFound ==
    pc = "compile" /\ work.stack # << >> =>
        LET top == Top(work.stack)
        IN top.kind = "code" /\ top.rest = {} =>
              compiledContracts(top.contract) \subseteq work.otherCompilers

(***************************************************************************)
(* Every call comes to an end, whatever imports whatever: parse() loads and *)
(* parses each source once, the depth first search visits each once, and    *)
(* compile() recurses over an acyclic relation.                             *)
(***************************************************************************)
CallsReturn == call # "none" ~> call = "none"

=============================================================================
