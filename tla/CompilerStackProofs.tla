------------------------- MODULE CompilerStackProofs -------------------------
(***************************************************************************)
(* For any sources, imports and contracts, and any sequence of calls: what  *)
(* the stage of the stack promises holds, no artifact is stale, sources are *)
(* in import order, and a successful compile() has made all it must.        *)
(*                                                                         *)
(* The argument.  Where the stack is in a call decides its stage, and below *)
(* ParsingSuccessful there are no artifacts: so neither new texts nor new   *)
(* settings can make one stale (Control).  As long as parse() has met no    *)
(* error, what it has parsed has an AST and imports what is there or still  *)
(* to be loaded (Parsed).  The pending calls of the depth first search form *)
(* a path of imports: an import that is not ordered yet when its importer   *)
(* returns lies on that path, hence on a cycle (Sorted).  From the pass     *)
(* PostTypeChecker on, no error is pending (Analysed).  The contracts       *)
(* compiled so far are closed under dependencies, except for the one that a *)
(* pending call of compileContract waits for (Compiled).                    *)
(***************************************************************************)
EXTENDS CompilerStack, FunctionTheorems, FiniteSetTheorems, SequenceTheorems, TLAPS

imports(p) == m_sources[p].content.imports

Artifact == {NotMade} \cup (Contents \X Settings)

Artifacts == [compiler : Artifact, object : Artifact, linked : BOOLEAN,
              metadata : Artifact, yulIR : Artifact]

\* The sources a call of loadMissingSources can return.
NewSources == UNION {[S -> Contents] : S \in SUBSET Paths}

Frame == [source : DOMAIN m_sources, imports : SUBSET DOMAIN m_sources]

ContractFrame == [kind : {"code", "ir"}, contract : Deployable \cap DOMAIN m_contracts,
                  rest : SUBSET DOMAIN m_contracts]

NewFrame(kind, c) == [kind |-> kind, contract |-> c, rest |-> contractDependencies(c)]

Typed ==
    /\ TypeOK
    /\ m_sources \in [DOMAIN m_sources -> [content : Contents, ast : BOOLEAN]]
    /\ m_contracts \in [DOMAIN m_contracts -> Artifacts]
    /\ pc = "parse" => work \in [toParse : SUBSET DOMAIN m_sources]
    /\ pc = "load" => work \in [toParse : SUBSET DOMAIN m_sources,
                                imports : SUBSET Paths, newSources : NewSources]
    /\ pc = "sort" => work \in [stack : Seq(Frame), seen : SUBSET DOMAIN m_sources,
                                order : Seq(DOMAIN m_sources)]
    /\ pc = "analyze" => work \in [pass : 1..(Len(Passes) + 1), noErrors : BOOLEAN]
    /\ pc = "compile" => work \in [next : 1..(Len(m_sourceOrder) + 1), stage : {"code", "ir"},
                                   stack : Seq(ContractFrame),
                                   otherCompilers : SUBSET DOMAIN m_contracts]

Control ==
    /\ pc \in {"parse", "load"} =>
          m_stackState = SourcesSet /\ call \in {"parse", "parseAndAnalyze", "compile"}
    /\ pc \in {"sort", "analyze"} =>
          m_stackState = ParsingSuccessful /\ call \in {"parseAndAnalyze", "analyze", "compile"}
    /\ pc = "compile" => m_stackState >= AnalysisSuccessful /\ call = "compile"
    /\ call # "none" => outcome = "none"
    /\ m_stackState < ParsingSuccessful => DOMAIN m_contracts = {}

Clean == containsOnlyWarnings(reporter)

\* What is already there, is about to be added or has still to be loaded.
Expected ==
    IF pc = "load" THEN DOMAIN m_sources \cup work.imports \cup DOMAIN work.newSources
    ELSE DOMAIN m_sources

Parsed ==
    /\ pc \in {"parse", "load"} /\ Clean =>
          \A p \in DOMAIN m_sources \ work.toParse :
              m_sources[p].ast /\ imports(p) \subseteq Expected
    /\ m_stackState >= ParsingSuccessful =>
          \A p \in DOMAIN m_sources : m_sources[p].ast /\ imports(p) \subseteq DOMAIN m_sources

\* The position of an import that is on no cycle is before its importer's.
InOrder(order) ==
    /\ \A j, k \in DOMAIN order : order[j] = order[k] => j = k
    /\ \A k \in DOMAIN order : \A q \in imports(order[k]) :
          order[k] \notin ImportedBy(q) => \E j \in 1..(k - 1) : order[j] = q

Sorting ==
    LET stack == work.stack
    IN /\ work.seen = {work.order[k] : k \in DOMAIN work.order}
                         \cup {stack[i].source : i \in DOMAIN stack}
       /\ \A i \in DOMAIN stack : \A k \in DOMAIN work.order : stack[i].source # work.order[k]
       /\ \A i, j \in DOMAIN stack : i < j => /\ stack[i].source # stack[j].source
                                              /\ stack[j].source \in ImportedBy(stack[i].source)
       /\ \A i \in DOMAIN stack :
             /\ stack[i].imports \subseteq imports(stack[i].source)
             /\ imports(stack[i].source) \ stack[i].imports \subseteq work.seen
       /\ InOrder(work.order)

Sorted ==
    /\ pc = "sort" => Sorting
    /\ pc = "analyze" \/ m_stackState >= AnalysisSuccessful =>
          /\ m_sourceOrder \in Seq(DOMAIN m_sources)
          /\ {m_sourceOrder[k] : k \in DOMAIN m_sourceOrder} = DOMAIN m_sources
          /\ InOrder(m_sourceOrder)

Analysed ==
    /\ m_stackState >= ParsingSuccessful /\ DOMAIN m_sources = {} => Clean
    /\ pc = "analyze" /\ work.pass > 5 => DOMAIN m_contracts = DOMAIN m_sources \cap Declaring
    /\ pc = "analyze" /\ work.pass > 8 /\ work.noErrors => Clean
    /\ m_stackState >= AnalysisSuccessful =>
          Clean /\ DOMAIN m_contracts = DOMAIN m_sources \cap Declaring

\* The contracts that the loop of compile() has called compileContract for.
Called ==
    {m_sourceOrder[k] : k \in {j \in DOMAIN m_sourceOrder :
        j < work.next \/ (j = work.next /\ work.stage = "ir")}}

Compiling ==
    LET stack == work.stack
    IN /\ work.stage = "ir" =>
             /\ work.next <= Len(m_sourceOrder)
             /\ m_sourceOrder[work.next] \in Declaring
             /\ isRequestedContract(m_sourceOrder[work.next])
       /\ \A i \in DOMAIN stack : stack[i].kind = "code" <=> work.stage = "ir"
       /\ work.stage = "ir" =>
             \A i \in DOMAIN stack :
                \A d \in contractDependencies(stack[i].contract) \cap Deployable :
                   \/ d \in stack[i].rest \cup work.otherCompilers
                   \/ i + 1 \in DOMAIN stack /\ d = stack[i + 1].contract
       /\ \A c \in work.otherCompilers :
             /\ contractDependencies(c) \cap Deployable \subseteq work.otherCompilers
             /\ compiledContracts(c) \subseteq work.otherCompilers
             /\ m_contracts[c].object # NotMade
       /\ \A c \in Called \cap Declaring \cap Deployable :
             isRequestedContract(c) =>
                \/ c \in work.otherCompilers
                \/ work.stage = "ir" /\ stack # << >> /\ stack[1].contract = c

Compiled == pc = "compile" => Compiling

IInv ==
    /\ Typed
    /\ Control
    /\ Parsed
    /\ Sorted
    /\ Analysed
    /\ ArtifactsAreCurrent
    /\ Compiled

-----------------------------------------------------------------------------
(* The operators the model is built from.                                   *)

\* A new reporter has warnings only, in fact none.
LEMMA NewReporterType == NewReporter \in Reporter /\ containsOnlyWarnings(NewReporter)
<1>1. 0 \in 0..(MaxErrors + 1) /\ 0 \in 0..(MaxWarnings + 1)
  BY ReporterAssumption
<1>2. NewReporter \in Reporter
  BY <1>1, Zenon DEF NewReporter, Reporter
<1> QED
  BY <1>2 DEF NewReporter, containsOnlyWarnings

\* The reporter keeps its type, whatever is reported.
LEMMA ReporterTypes ==
    ASSUME NEW r \in Reporter
    PROVE  /\ error(r) \in Reporter /\ warning(r) \in Reporter /\ clear(r) \in Reporter
           /\ append(r, {"warning"}) \in Reporter
<1>1. ASSUME NEW max \in Nat, NEW n \in 0..(max + 1)
      PROVE  Increment(n, max) \in 0..(max + 1)
  BY <1>1 DEF Increment
<1>2. error(r) \in Reporter
  BY <1>1, ReporterAssumption DEF error, Reporter
<1>3. warning(r) \in Reporter
  BY <1>1, ReporterAssumption DEF warning, Reporter
<1>4. clear(r) \in Reporter /\ append(r, {"warning"}) \in Reporter
  BY DEF clear, append, Reporter
<1> QED
  BY <1>2, <1>3, <1>4

\* Only an error that is not fatal makes a list with warnings only one with
\* errors; nothing but clear() does the opposite.
LEMMA ReporterLists ==
    ASSUME NEW r \in Reporter
    PROVE  /\ containsOnlyWarnings(clear(r))
           /\ containsOnlyWarnings(warning(r)) <=> containsOnlyWarnings(r)
           /\ containsOnlyWarnings(append(r, {"warning"})) <=> containsOnlyWarnings(r)
           /\ containsOnlyWarnings(error(r)) => containsOnlyWarnings(r) /\ ErrorIsFatal(r)
<1> USE DEF containsOnlyWarnings
<1>1. containsOnlyWarnings(clear(r))
  BY DEF clear, Reporter
<1>2. containsOnlyWarnings(warning(r)) <=> containsOnlyWarnings(r)
  BY DEF warning, Reporter
<1>3. containsOnlyWarnings(append(r, {"warning"})) <=> containsOnlyWarnings(r)
  BY DEF append, Reporter
<1>4. containsOnlyWarnings(error(r)) => containsOnlyWarnings(r) /\ ErrorIsFatal(r)
  BY DEF error, Reporter
<1> QED
  BY <1>1, <1>2, <1>3, <1>4

\* What a source imports, directly or not, is the least set that has its
\* imports and theirs.
LEMMA ImportedByClosed ==
    ASSUME \A p \in DOMAIN m_sources : imports(p) \subseteq DOMAIN m_sources,
           NEW p \in DOMAIN m_sources
    PROVE  /\ ImportedBy(p) \subseteq DOMAIN m_sources
           /\ imports(p) \subseteq ImportedBy(p)
           /\ \A q \in ImportedBy(p) : imports(q) \subseteq ImportedBy(p)
           /\ \A q \in ImportedBy(p) : ImportedBy(q) \subseteq ImportedBy(p)
<1>1. ImportedBy(p) \subseteq DOMAIN m_sources
  BY DEF ImportedBy
<1>2. imports(p) \subseteq ImportedBy(p)
  BY DEF ImportedBy, imports
<1>3. \A q \in ImportedBy(p) : imports(q) \subseteq ImportedBy(p)
  BY DEF ImportedBy, imports
<1>4. ASSUME NEW q \in ImportedBy(p)
      PROVE  ImportedBy(q) \subseteq ImportedBy(p)
  BY <1>1, <1>3, <1>4 DEF ImportedBy, imports
<1> QED
  BY <1>1, <1>2, <1>3, <1>4

\* The imports only depend on the sources.
LEMMA ImportsKept ==
    ASSUME m_sources' = m_sources
    PROVE  \A p : imports(p)' = imports(p) /\ ImportedBy(p)' = ImportedBy(p)
<1>1. \A p : imports(p)' = imports(p)
  BY DEF imports
<1>2. \A p : ImportedBy(p)' = ImportedBy(p)
  BY DEF ImportedBy
<1> QED
  BY <1>1, <1>2

\* The top of a stack of calls.
LEMMA StackTop ==
    ASSUME NEW S, NEW stack \in Seq(S), stack # << >>
    PROVE  /\ Len(stack) \in DOMAIN stack
           /\ Top(stack) = stack[Len(stack)] /\ Top(stack) \in S
           /\ Pop(stack) \in Seq(S) /\ Len(Pop(stack)) = Len(stack) - 1
           /\ \A i \in 1..(Len(stack) - 1) : Pop(stack)[i] = stack[i]
<1>1. Len(stack) \in Nat /\ Len(stack) # 0 /\ DOMAIN stack = 1..Len(stack)
  OBVIOUS
<1>2. Top(stack) \in S
  BY <1>1 DEF Top
<1>3. /\ Pop(stack) \in Seq(S) /\ Len(Pop(stack)) = Len(stack) - 1
      /\ \A i \in 1..(Len(stack) - 1) : Pop(stack)[i] = stack[i]
  BY <1>1 DEF Pop
<1> QED
  BY <1>1, <1>2, <1>3 DEF Top

\* The top of a stack of calls is replaced.
LEMMA StackSetTop ==
    ASSUME NEW S, NEW stack \in Seq(S), stack # << >>, NEW f \in S
    PROVE  /\ SetTop(stack, f) \in Seq(S)
           /\ Len(SetTop(stack, f)) = Len(stack)
           /\ SetTop(stack, f)[Len(stack)] = f
           /\ \A i \in 1..(Len(stack) - 1) : SetTop(stack, f)[i] = stack[i]
<1> DEFINE g == [stack EXCEPT ![Len(stack)] = f]
<1>1. Len(stack) \in 1..Len(stack) /\ DOMAIN stack = 1..Len(stack)
  OBVIOUS
<1>2. g \in Seq(S)
  BY <1>1, ExceptSeq
<1>3. Len(g) = Len(stack)
  BY <1>1, ExceptSeq
<1>4. g[Len(stack)] = f
  BY <1>1
<1>5. ASSUME NEW i \in 1..(Len(stack) - 1)
      PROVE  g[i] = stack[i]
  BY <1>5
<1> QED
  BY <1>2, <1>3, <1>4, <1>5 DEF SetTop

\* The passes that the proofs tell apart.
LEMMA PassFacts ==
    /\ Len(Passes) = 13
    /\ \A i \in 1..13 :
          /\ Passes[i].name = "resolveNamesAndTypes" <=> i = 5
          /\ i = 5 => ~Passes[i].gated
          /\ i = 8 => /\ Passes[i].over = "sources" /\ Passes[i].verdict = "list"
                      /\ Passes[i].gated
          /\ i > 8 => /\ Passes[i].gated
                      /\ \/ Passes[i].verdict \in {"list", "flag"}
                         \/ Passes[i].name = "SMTChecker"
BY DEF Passes, Pass

-----------------------------------------------------------------------------
(* The steps that begin and end a call.                                     *)

\* Nothing has been set, parsed or made.
LEMMA InitIInv == Init => IInv
<1> SUFFICES ASSUME Init PROVE IInv
  OBVIOUS
<1> USE DEF Init, Empty, SourcesSet, ParsingSuccessful, AnalysisSuccessful,
            CompilationSuccessful
<1>1. TypeOK
  <2>1. DOMAIN m_sources = {} /\ DOMAIN m_contracts = {} /\ m_sourceOrder \in Seq(Paths)
    OBVIOUS
  <2>2. m_settings \in Settings /\ m_requestedContractNames \in RequestSets
    BY StackAssumption
  <2>3. reporter \in Reporter
    BY NewReporterType
  <2>4. m_stackState \in Empty..CompilationSuccessful
    OBVIOUS
  <2>5. m_generateIR \in BOOLEAN /\ m_scopes = {} /\ call = "none" /\ pc = "client"
    BY Zenon
  <2> QED
    BY <2>1, <2>2, <2>3, <2>4, <2>5, Zenon DEF TypeOK
<1>2. Typed
  BY <1>1 DEF Typed
<1>3. Control
  BY DEF Control
<1> QED
  BY <1>2, <1>3 DEF IInv, Parsed, Sorted, Analysed, ArtifactsAreCurrent, Compiled

\* What is kept while the sources, the settings and the artifacts are.
LEMMA ArtifactsKept ==
    ASSUME ArtifactsAreCurrent, UNCHANGED <<m_sources, m_settings, m_contracts>>
    PROVE  ArtifactsAreCurrent'
BY DEF ArtifactsAreCurrent, Inputs

\* What is kept while the sources and their order are.
LEMMA OrderKept ==
    ASSUME NEW order, InOrder(order), m_sources' = m_sources
    PROVE  InOrder(order)'
BY ImportsKept DEF InOrder

\* A call that ends without a change of stage, sources or settings.
LEMMA EndIInv ==
    ASSUME IInv, NEW result, EndWith(result),
           UNCHANGED <<m_stackState, m_sources, settingVars, m_sourceOrder>>,
           TypeOK', ArtifactsAreCurrent',
           m_contracts' \in [DOMAIN m_contracts' -> Artifacts],
           m_stackState < ParsingSuccessful => DOMAIN m_contracts' = {},
           m_stackState >= AnalysisSuccessful =>
              reporter' = reporter /\ DOMAIN m_contracts' = DOMAIN m_contracts,
           m_stackState >= ParsingSuccessful /\ DOMAIN m_sources = {} => Clean'
    PROVE  IInv'
<1> USE DEF EndWith
<1>1. Typed'
  BY DEF IInv, Typed
<1>2. Control'
  BY DEF Control
<1>3. Parsed'
  BY DEF IInv, Parsed, imports
<1>4. Sorted'
  BY OrderKept DEF IInv, Sorted
<1>5. Analysed'
  BY DEF IInv, Analysed, Clean
<1> QED
  BY <1>1, <1>2, <1>3, <1>4, <1>5 DEF IInv, Compiled

\* A refused call changes nothing but the outcome.
LEMMA RefuseIInv ==
    ASSUME IInv, Refuse
    PROVE  IInv'
<1>1. TypeOK'
  BY DEF IInv, Typed, TypeOK, Refuse, EndWith, settingVars
<1>2. ArtifactsAreCurrent'
  BY ArtifactsKept DEF IInv, Refuse, settingVars
<1>3. m_contracts' \in [DOMAIN m_contracts' -> Artifacts]
  BY DEF IInv, Typed, Refuse
<1>4. Clean' = Clean
  BY DEF Refuse, Clean
<1> QED
  BY <1>1, <1>2, <1>3, <1>4, EndIInv DEF IInv, Control, Analysed, Refuse

\* The calls that return at once.
LEMMA SettersIInv ==
    ASSUME IInv,
           \/ \E S \in SUBSET Paths : \E sources \in [S -> Contents] : SetSources(sources)
           \/ \E s \in Settings : Configure(s)
           \/ \E names \in RequestSets : SetRequestedContractNames(names)
           \/ \E enable \in BOOLEAN : EnableIRGeneration(enable)
           \/ \E keepSettings \in BOOLEAN : Reset(keepSettings)
    PROVE  IInv'
<1> USE DEF Empty, SourcesSet, ParsingSuccessful, AnalysisSuccessful,
            CompilationSuccessful, settingVars
<1>1. ASSUME NEW S \in SUBSET Paths, NEW sources \in [S -> Contents], SetSources(sources)
      PROVE  IInv'
  <2>1. CASE m_stackState # Empty
    BY <1>1, <2>1, RefuseIInv DEF SetSources
  <2>2. CASE m_stackState = Empty
    <3> USE <1>1, <2>2 DEF SetSources, EndWith
    <3>1. m_sources' \in [S -> [content : Contents, ast : BOOLEAN]] /\ DOMAIN m_contracts' = {}
      <4>1. DOMAIN m_contracts' = {}
        BY DEF IInv, Control
      <4>2. \A p \in S : [content |-> sources[p], ast |-> FALSE] \in [content : Contents, ast : BOOLEAN]
        BY <1>1, Zenon
      <4> QED
        BY ZenonT(40), <4>1, <4>2
    <3>2. TypeOK'
      BY <3>1 DEF IInv, Typed, TypeOK
    <3>3. Typed'
      BY <3>1, <3>2 DEF IInv, Typed
    <3> QED
      BY <3>1, <3>3 DEF IInv, Control, Parsed, Sorted, Analysed, ArtifactsAreCurrent, Compiled
  <2> QED
    BY <2>1, <2>2
<1>2. ASSUME NEW s \in Settings, Configure(s)
      PROVE  IInv'
  <2>1. CASE m_stackState >= ParsingSuccessful
    BY <1>2, <2>1, RefuseIInv DEF Configure
  <2>2. CASE ~(m_stackState >= ParsingSuccessful)
    <3> USE <1>2, <2>2 DEF Configure, EndWith
    <3>1. DOMAIN m_contracts' = {} /\ m_stackState < ParsingSuccessful
      BY DEF IInv, Control, Typed, TypeOK
    <3>2. TypeOK'
      BY DEF IInv, Typed, TypeOK
    <3>3. Typed'
      BY <3>2 DEF IInv, Typed
    <3>4. Control'
      BY <3>1 DEF IInv, Control
    <3>5. Parsed' /\ Sorted' /\ Analysed'
      BY <3>1, <3>2 DEF Parsed, Sorted, Analysed, TypeOK
    <3> QED
      BY <3>1, <3>3, <3>4, <3>5 DEF IInv, ArtifactsAreCurrent, Compiled
  <2> QED
    BY <2>1, <2>2
<1>3. ASSUME \/ \E names \in RequestSets : SetRequestedContractNames(names)
             \/ \E enable \in BOOLEAN : EnableIRGeneration(enable)
      PROVE  IInv'
  <2> USE <1>3 DEF SetRequestedContractNames, EnableIRGeneration, EndWith
  <2>1. TypeOK'
    BY DEF IInv, Typed, TypeOK
  <2>2. Typed' /\ Control'
    BY <2>1 DEF IInv, Typed, Control
  <2>3. ArtifactsAreCurrent'
    BY ArtifactsKept DEF IInv
  <2>4. Sorted'
    BY OrderKept DEF IInv, Sorted
  <2>5. Parsed' /\ Analysed'
    BY DEF IInv, Parsed, Analysed, Clean, imports
  <2> QED
    BY <2>2, <2>3, <2>4, <2>5 DEF IInv, Compiled
<1>4. ASSUME NEW keepSettings \in BOOLEAN, Reset(keepSettings)
      PROVE  IInv'
  <2> USE <1>4 DEF Reset, EndWith
  <2>1. DOMAIN m_sources' = {} /\ DOMAIN m_contracts' = {}
    OBVIOUS
  <2>2. reporter' \in Reporter /\ m_settings' \in Settings /\ m_generateIR' \in BOOLEAN
    BY StackAssumption, ReporterTypes DEF IInv, Typed, TypeOK
  <2>3. TypeOK'
    BY <2>1, <2>2 DEF IInv, Typed, TypeOK
  <2>4. Typed'
    BY <2>1, <2>3 DEF Typed
  <2> QED
    BY <2>1, <2>4 DEF IInv, Control, Parsed, Sorted, Analysed, ArtifactsAreCurrent, Compiled
<1> QED
  BY <1>1, <1>2, <1>3, <1>4

\* parse() and the calls that begin with it.
LEMMA BeginParseIInv ==
    ASSUME IInv, call = "none", NEW name \in {"parse", "parseAndAnalyze", "compile"},
           BeginParse(name)
    PROVE  IInv'
<1> USE DEF Empty, SourcesSet, ParsingSuccessful, AnalysisSuccessful,
            CompilationSuccessful, settingVars
<1>1. CASE m_stackState # SourcesSet
  BY <1>1, RefuseIInv DEF BeginParse
<1>2. CASE m_stackState = SourcesSet
  <2> USE <1>2 DEF BeginParse
  <2>1. reporter' \in Reporter
    BY ReporterTypes DEF IInv, Typed, TypeOK
  <2>2. TypeOK'
    BY <2>1 DEF IInv, Typed, TypeOK
  <2>3. Typed'
    BY <2>2 DEF IInv, Typed
  <2>4. Control' /\ Parsed' /\ Sorted' /\ Analysed'
    BY DEF IInv, Control, Parsed, Sorted, Analysed
  <2>5. ArtifactsAreCurrent'
    BY ArtifactsKept DEF IInv
  <2> QED
    BY <2>3, <2>4, <2>5 DEF IInv, Compiled
<1> QED
  BY <1>1, <1>2

\* At the beginning of compile() nothing has been called or compiled.
LEMMA NewCompilationStarts ==
    ASSUME work' = NewCompilation, m_sourceOrder' \in Seq(Paths)
    PROVE  Compiling'
<1>1. /\ work'.next = 1 /\ work'.stage = "code" /\ work'.stack = << >>
      /\ work'.otherCompilers = {} /\ DOMAIN work'.stack = {}
  BY DEF NewCompilation
<1>2. Called' = {}
  <2>1. ~\E j \in DOMAIN m_sourceOrder' : j < work'.next \/ (j = work'.next /\ work'.stage = "ir")
    BY <1>1
  <2> QED
    BY <2>1 DEF Called
<1> QED
  BY <1>1, <1>2 DEF Compiling

\* The calls that run through several steps.
LEMMA CallsIInv ==
    ASSUME IInv, Parse \/ ParseAndAnalyze \/ Analyze \/ Compile
    PROVE  IInv'
<1> USE DEF Empty, SourcesSet, ParsingSuccessful, AnalysisSuccessful,
            CompilationSuccessful, settingVars
<1>1. CASE Parse \/ ParseAndAnalyze
  BY <1>1, BeginParseIInv DEF Parse, ParseAndAnalyze
<1>2. CASE Analyze
  <2>1. CASE m_stackState # ParsingSuccessful
    BY <1>2, <2>1, RefuseIInv DEF Analyze
  <2>2. CASE m_stackState = ParsingSuccessful
    <3> USE <1>2, <2>2 DEF Analyze
    <3>1. TypeOK'
      BY DEF IInv, Typed, TypeOK
    <3>2. Typed'
      <4>1. NewSort \in [stack : Seq(Frame'), seen : SUBSET DOMAIN m_sources',
                         order : Seq(DOMAIN m_sources')]
        BY DEF NewSort
      <4> QED
        BY <3>1, <4>1 DEF IInv, Typed
    <3>3. Control' /\ Parsed' /\ Analysed'
      BY DEF IInv, Control, Parsed, Analysed, Clean, imports
    <3>4. ArtifactsAreCurrent'
      BY ArtifactsKept DEF IInv
    <3>5. Sorted'
      BY DEF Sorted, Sorting, InOrder, NewSort
    <3> QED
      BY <3>2, <3>3, <3>4, <3>5 DEF IInv, Compiled
  <2> QED
    BY <2>1, <2>2
<1>3. CASE Compile
  <2>1. CASE m_stackState < AnalysisSuccessful
    BY <1>3, <2>1, BeginParseIInv DEF Compile
  <2>2. CASE ~(m_stackState < AnalysisSuccessful)
    <3> USE <1>3, <2>2 DEF Compile
    <3>1. m_stackState >= AnalysisSuccessful
      BY DEF IInv, Typed, TypeOK
    <3>2. TypeOK'
      BY DEF IInv, Typed, TypeOK
    <3>3. Typed'
      <4>1. 1 \in 1..(Len(m_sourceOrder') + 1)
        BY DEF IInv, Typed, TypeOK
      <4>2. NewCompilation \in [next : 1..(Len(m_sourceOrder') + 1), stage : {"code", "ir"},
                                stack : Seq(ContractFrame'),
                                otherCompilers : SUBSET DOMAIN m_contracts']
        BY <4>1 DEF NewCompilation
      <4> QED
        BY <3>2, <4>2 DEF IInv, Typed
    <3>4. Control' /\ Parsed' /\ Analysed'
      BY <3>1 DEF IInv, Control, Parsed, Analysed, Clean, imports
    <3>5. ArtifactsAreCurrent'
      BY ArtifactsKept DEF IInv
    <3>6. Sorted'
      BY <3>1, OrderKept DEF IInv, Sorted
    <3>7. Compiled'
      BY <3>2, NewCompilationStarts DEF Compiled, TypeOK
    <3> QED
      BY <3>3, <3>4, <3>5, <3>6, <3>7 DEF IInv
  <2> QED
    BY <2>1, <2>2
<1> QED
  BY <1>1, <1>2, <1>3

-----------------------------------------------------------------------------
(* parse().                                                                 *)

\* The sources that loadMissingSources returns.
LEMMA NewSourcesType ==
    ASSUME NEW f
    PROVE  f \in NewSources <=> f \in [DOMAIN f -> Contents] /\ DOMAIN f \subseteq Paths
BY DEF NewSources

\* While parse() runs, most of the invariant says nothing.
LEMMA ParsingIInv ==
    ASSUME Typed', m_stackState' = SourcesSet, DOMAIN m_contracts' = {},
           Parsed', pc' \in {"client", "parse", "load"},
           pc' # "client" => call' \in {"parse", "parseAndAnalyze", "compile"} /\ outcome' = "none"
    PROVE  IInv'
<1> USE DEF Empty, SourcesSet, ParsingSuccessful, AnalysisSuccessful, CompilationSuccessful
<1>1. Control'
  BY DEF Typed, TypeOK, Control
<1> QED
  BY <1>1 DEF IInv, Sorted, Analysed, ArtifactsAreCurrent, Compiled

\* One source is parsed.
LEMMA ParseSourceIInv ==
    ASSUME IInv, NEW p \in Paths, ParseSource(p)
    PROVE  IInv'
<1> USE DEF Empty, SourcesSet, ParsingSuccessful, AnalysisSuccessful,
            CompilationSuccessful, settingVars
<1> DEFINE content == m_sources[p].content
           report == IF content.parses = "ok" THEN reporter ELSE error(reporter)
           gaveUp == \/ content.parses = "fails"
                     \/ content.parses = "recovers" /\ ErrorIsFatal(reporter)
<1>1. /\ m_stackState = SourcesSet /\ DOMAIN m_contracts = {} /\ outcome = "none"
      /\ call \in {"parse", "parseAndAnalyze", "compile"}
  BY DEF IInv, Control, Typed, TypeOK, ParseSource
<1>2. work \in [toParse : SUBSET DOMAIN m_sources] /\ p \in work.toParse
  BY DEF IInv, Typed, ParseSource
<1>3. content \in Contents /\ content.imports \subseteq Paths
  BY <1>2, StackAssumption DEF IInv, Typed
<1>4. report \in Reporter /\ (containsOnlyWarnings(report) => Clean)
  BY ReporterTypes, ReporterLists DEF IInv, Typed, TypeOK, Clean
<1>5. /\ m_sources' \in [DOMAIN m_sources -> [content : Contents, ast : BOOLEAN]]
      /\ \A q \in DOMAIN m_sources : m_sources'[q].content = m_sources[q].content
      /\ \A q \in DOMAIN m_sources \ {p} : m_sources'[q].ast = m_sources[q].ast
      /\ ~gaveUp => m_sources'[p].ast
  BY <1>2 DEF IInv, Typed, ParseSource
<1>6. reporter' = report
  BY DEF ParseSource
<1>7. TypeOK'
  BY <1>1, <1>4, <1>5, <1>6 DEF IInv, Typed, TypeOK, ParseSource, GoTo, EndWith
<1>8. CASE ~gaveUp
  <2>1. GoTo("load", [toParse |-> work.toParse \ {p}, imports |-> content.imports,
                      newSources |-> << >>])
    BY <1>8 DEF ParseSource
  <2>2. << >> \in NewSources
    <3>1. << >> \in [{} -> Contents] /\ {} \in SUBSET Paths
      OBVIOUS
    <3> QED
      BY <3>1, Zenon DEF NewSources
  <2>3. Typed'
    BY <1>1, <1>2, <1>3, <1>5, <1>7, <2>1, <2>2 DEF IInv, Typed, ParseSource, GoTo
  <2>4. Parsed'
    BY <1>1, <1>2, <1>4, <1>5, <1>6, <1>8, <2>1 DEF IInv, Parsed, Expected, Clean, imports, ParseSource, GoTo
  <2> QED
    BY <1>1, <2>1, <2>3, <2>4, ParsingIInv DEF ParseSource, GoTo
<1>9. CASE gaveUp /\ ~containsOnlyWarnings(report)
  <2>1. GoTo("parse", [toParse |-> work.toParse \ {p}])
    BY <1>9 DEF ParseSource
  <2>2. Typed'
    BY <1>1, <1>2, <1>5, <1>7, <2>1 DEF IInv, Typed, ParseSource, GoTo
  <2>3. Parsed'
    BY <1>1, <1>6, <1>9 DEF Parsed, Clean, ParseSource
  <2> QED
    BY <1>1, <2>1, <2>2, <2>3, ParsingIInv DEF ParseSource, GoTo
<1>10. CASE gaveUp /\ containsOnlyWarnings(report)
  <2>1. EndWith("InternalCompilerError")
    BY <1>10 DEF ParseSource
  <2>2. Typed'
    BY <1>1, <1>5, <1>7, <2>1 DEF IInv, Typed, ParseSource, EndWith
  <2>3. Parsed'
    BY <1>1, <2>1 DEF Parsed, ParseSource, EndWith
  <2> QED
    BY <1>1, <2>1, <2>2, <2>3, ParsingIInv DEF ParseSource, EndWith
<1> QED
  BY <1>8, <1>9, <1>10

\* One import directive: the source is there, is read or is missed.
LEMMA LoadImportIInv ==
    ASSUME IInv, NEW i \in Paths, LoadImport(i)
    PROVE  IInv'
<1> USE DEF Empty, SourcesSet, ParsingSuccessful, AnalysisSuccessful,
            CompilationSuccessful, settingVars
<1>1. /\ m_stackState = SourcesSet /\ DOMAIN m_contracts = {} /\ outcome = "none"
      /\ call \in {"parse", "parseAndAnalyze", "compile"}
  <2>1. pc = "load"
    BY DEF LoadImport
  <2> QED
    BY <2>1 DEF IInv, Control, Typed, TypeOK
<1>2. /\ work \in [toParse : SUBSET DOMAIN m_sources, imports : SUBSET Paths,
                   newSources : NewSources]
      /\ i \in work.imports
  BY DEF IInv, Typed, LoadImport
<1>3. /\ m_sources \in [DOMAIN m_sources -> [content : Contents, ast : BOOLEAN]]
      /\ m_contracts \in [DOMAIN m_contracts -> Artifacts]
      /\ reporter \in Reporter
  BY DEF IInv, Typed, TypeOK
<1>4. /\ m_stackState' = SourcesSet /\ m_sources' = m_sources /\ DOMAIN m_contracts' = {}
      /\ m_contracts' = m_contracts
  BY <1>1 DEF LoadImport
<1>5. reporter' \in Reporter /\ (Clean' => Clean)
  <2>1. reporter' = reporter \/ reporter' = error(reporter)
    BY DEF LoadImport
  <2> QED
    BY <1>3, <2>1, ReporterTypes, ReporterLists DEF Clean
<1>6. TypeOK'
  BY <1>1, <1>5 DEF IInv, Typed, TypeOK, LoadImport, GoTo, EndWith
<1>7. ASSUME NEW new \in NewSources,
             GoTo("load", [work EXCEPT !.imports = @ \ {i}, !.newSources = new]),
             DOMAIN work.newSources \subseteq DOMAIN new,
             Clean' => i \in DOMAIN m_sources \cup DOMAIN new
      PROVE  IInv'
  <2>1. /\ work' \in [toParse : SUBSET DOMAIN m_sources, imports : SUBSET Paths,
                      newSources : NewSources]
        /\ work'.imports = work.imports \ {i} /\ work'.newSources = new
        /\ work'.toParse = work.toParse
    BY <1>2, <1>7 DEF GoTo
  <2>2. Typed'
    BY <1>3, <1>4, <1>6, <1>7, <2>1 DEF Typed, GoTo
  <2>3. Clean' => Expected \subseteq Expected'
    BY ZenonT(40), <1>4, <1>7, <2>1 DEF Expected, LoadImport, GoTo
  <2>4. Parsed'
    BY <1>4, <1>5, <1>7, <2>1, <2>3 DEF IInv, Parsed, imports, LoadImport, GoTo
  <2> QED
    BY <1>1, <1>4, <1>7, <2>2, <2>4, ParsingIInv DEF GoTo
<1>8. CASE /\ i \in DOMAIN m_sources \cup DOMAIN work.newSources
           /\ GoTo("load", [work EXCEPT !.imports = @ \ {i}])
  <2>1. [work EXCEPT !.imports = @ \ {i}]
           = [work EXCEPT !.imports = @ \ {i}, !.newSources = work.newSources]
    BY <1>2
  <2> QED
    BY <1>2, <1>7, <1>8, <2>1
<1>9. ASSUME NEW content \in Contents,
             GoTo("load", [work EXCEPT !.imports = @ \ {i},
                    !.newSources = [q \in DOMAIN @ \cup {i} |->
                                      IF q = i THEN content ELSE @[q]]])
      PROVE  IInv'
  <2> DEFINE new == [q \in DOMAIN work.newSources \cup {i} |->
                        IF q = i THEN content ELSE work.newSources[q]]
  <2>1. work.newSources \in [DOMAIN work.newSources -> Contents] /\ DOMAIN work.newSources \subseteq Paths
    BY <1>2, NewSourcesType
  <2>2. new \in [DOMAIN new -> Contents] /\ DOMAIN new = DOMAIN work.newSources \cup {i}
    BY <1>9, <2>1
  <2>3. new \in NewSources
    BY <2>1, <2>2, NewSourcesType
  <2>4. GoTo("load", [work EXCEPT !.imports = @ \ {i}, !.newSources = new])
    BY <1>9
  <2> QED
    BY <1>7, <2>2, <2>3, <2>4
<1>10. CASE /\ reporter' = error(reporter)
            /\ ~ErrorIsFatal(reporter)
            /\ GoTo("load", [work EXCEPT !.imports = @ \ {i}])
  <2>1. [work EXCEPT !.imports = @ \ {i}]
           = [work EXCEPT !.imports = @ \ {i}, !.newSources = work.newSources]
    BY <1>2
  <2>2. ~Clean'
    BY <1>3, <1>10, ReporterLists DEF Clean
  <2> QED
    BY <1>2, <1>7, <1>10, <2>1, <2>2
<1>11. CASE EndWith("FatalError")
  <2>1. Typed'
    BY <1>3, <1>4, <1>6, <1>11 DEF Typed, EndWith
  <2>2. Parsed'
    BY <1>4, <1>11 DEF Parsed, EndWith
  <2> QED
    BY <1>4, <1>11, <2>1, <2>2, ParsingIInv DEF EndWith
<1> QED
  BY <1>8, <1>9, <1>10, <1>11 DEF LoadImport

\* The sources that were read are added and queued.
LEMMA AddNewSourcesIInv ==
    ASSUME IInv, AddNewSources
    PROVE  IInv'
<1> USE DEF Empty, SourcesSet, ParsingSuccessful, AnalysisSuccessful,
            CompilationSuccessful, settingVars
<1>1. /\ m_stackState = SourcesSet /\ DOMAIN m_contracts = {} /\ outcome = "none"
      /\ call \in {"parse", "parseAndAnalyze", "compile"}
  BY DEF IInv, Control, Typed, TypeOK, AddNewSources
<1>2. /\ work \in [toParse : SUBSET DOMAIN m_sources, imports : SUBSET Paths,
                   newSources : NewSources]
      /\ m_sources \in [DOMAIN m_sources -> [content : Contents, ast : BOOLEAN]]
      /\ DOMAIN m_sources \subseteq Paths
  BY DEF IInv, Typed, TypeOK, AddNewSources
<1>3. work.newSources \in [DOMAIN work.newSources -> Contents] /\ DOMAIN work.newSources \subseteq Paths
  BY <1>2, NewSourcesType
<1>4. \A p \in DOMAIN work.newSources :
         [content |-> work.newSources[p], ast |-> FALSE] \in [content : Contents, ast : BOOLEAN]
  BY <1>3, Zenon
<1>5. /\ m_sources' \in [DOMAIN m_sources \cup DOMAIN work.newSources
                           -> [content : Contents, ast : BOOLEAN]]
      /\ \A p \in DOMAIN m_sources : m_sources'[p] = m_sources[p]
  BY <1>2, <1>4 DEF AddNewSources
<1>6. TypeOK'
  BY <1>1, <1>2, <1>3, <1>5 DEF IInv, Typed, TypeOK, AddNewSources, GoTo
<1>7. work' \in [toParse : SUBSET DOMAIN m_sources']
  BY <1>2, <1>5 DEF AddNewSources, GoTo
<1>8. Typed'
  BY <1>5, <1>6, <1>7 DEF IInv, Typed, AddNewSources, GoTo
<1>9. Parsed'
  BY <1>1, <1>5 DEF IInv, Parsed, Expected, imports, Clean, AddNewSources, GoTo
<1> QED
  BY <1>1, <1>8, <1>9, ParsingIInv DEF AddNewSources, GoTo

\* parse() succeeds, and analyze() begins if it was called for that, or fails.
LEMMA EndParseIInv ==
    ASSUME IInv, EndParse
    PROVE  IInv'
<1> USE DEF Empty, SourcesSet, ParsingSuccessful, AnalysisSuccessful,
            CompilationSuccessful, settingVars
<1>1. /\ m_stackState = SourcesSet /\ DOMAIN m_contracts = {} /\ outcome = "none"
      /\ call \in {"parse", "parseAndAnalyze", "compile"}
  BY DEF IInv, Control, Typed, TypeOK, EndParse
<1>2. TypeOK'
  BY <1>1 DEF IInv, Typed, TypeOK, EndParse, GoTo, EndWith
<1>3. CASE ~containsOnlyWarnings(reporter)
  <2>1. Typed'
    BY <1>2, <1>3 DEF IInv, Typed, EndParse, EndWith
  <2>2. Parsed'
    BY <1>1, <1>3 DEF Parsed, EndParse, EndWith
  <2> QED
    BY <1>1, <1>3, <2>1, <2>2, ParsingIInv DEF EndParse, EndWith
<1>4. CASE containsOnlyWarnings(reporter)
  <2>1. NewSort \in [stack : Seq(Frame'), seen : SUBSET DOMAIN m_sources',
                     order : Seq(DOMAIN m_sources')]
    BY DEF NewSort
  <2>2. Typed'
    BY <1>2, <1>4, <2>1 DEF IInv, Typed, EndParse, EndWith, GoTo
  <2>3. Control'
    BY <1>1, <1>4 DEF Control, EndParse, EndWith, GoTo
  <2>4. Parsed'
    BY <1>4 DEF IInv, Parsed, Expected, Clean, imports, EndParse, EndWith, GoTo
  <2>5. Sorted'
    BY <1>4 DEF Sorted, Sorting, InOrder, NewSort, EndParse, EndWith, GoTo
  <2>6. Analysed'
    BY <1>4 DEF Analysed, Clean, EndParse, EndWith, GoTo
  <2> QED
    BY <1>1, <1>4, <2>2, <2>3, <2>4, <2>5, <2>6
    DEF IInv, ArtifactsAreCurrent, Compiled, EndParse, EndWith, GoTo
<1> QED
  BY <1>3, <1>4

-----------------------------------------------------------------------------
(* The steps of resolveImports.                                             *)

\* A step of the search leaves all but its own part of the invariant alone.
LEMMA SortStepIInv ==
    ASSUME IInv, pc = "sort", pc' = "sort",
           UNCHANGED <<m_stackState, m_sources, settingVars, m_sourceOrder, m_scopes,
                       m_contracts, reporter, call, outcome>>,
           work' \in [stack : Seq(Frame), seen : SUBSET DOMAIN m_sources,
                      order : Seq(DOMAIN m_sources)],
           Sorting'
    PROVE  IInv'
<1> USE DEF Empty, SourcesSet, ParsingSuccessful, AnalysisSuccessful,
            CompilationSuccessful, settingVars
<1>1. TypeOK'
  BY DEF IInv, Typed, TypeOK
<1>2. Frame' = Frame
  BY DEF Frame
<1>3. Typed'
  BY <1>1, <1>2 DEF IInv, Typed
<1>4. Control' /\ Parsed' /\ Analysed'
  BY DEF IInv, Control, Parsed, Analysed, Clean, imports
<1>5. ArtifactsAreCurrent'
  BY ArtifactsKept DEF IInv
<1>6. Sorted'
  BY OrderKept DEF IInv, Sorted, Control
<1> QED
  BY <1>3, <1>4, <1>5, <1>6 DEF IInv, Compiled

\* What holds during the search.
LEMMA SortFacts ==
    ASSUME IInv, pc = "sort"
    PROVE  /\ work \in [stack : Seq(Frame), seen : SUBSET DOMAIN m_sources,
                        order : Seq(DOMAIN m_sources)]
           /\ \A p \in DOMAIN m_sources : imports(p) \subseteq DOMAIN m_sources
           /\ Sorting
BY DEF IInv, Typed, Control, Parsed, Sorted, ParsingSuccessful

\* toposort is called for a source not seen before.
LEMMA SortPushIInv ==
    ASSUME IInv, pc = "sort", pc' = "sort", NEW p \in DOMAIN m_sources \ work.seen,
           UNCHANGED <<m_stackState, m_sources, settingVars, m_sourceOrder, m_scopes,
                       m_contracts, reporter, call, outcome>>,
           NEW stack \in Seq(Frame), Len(stack) = Len(work.stack),
           \A i \in 1..Len(stack) :
              /\ stack[i].source = work.stack[i].source
              /\ stack[i].imports \subseteq imports(stack[i].source)
              /\ imports(stack[i].source) \ stack[i].imports \subseteq work.seen \cup {p}
              /\ p \in ImportedBy(stack[i].source),
           work' = Toposort(p, stack)
    PROVE  IInv'
<1> DEFINE new == [source |-> p, imports |-> m_sources[p].content.imports]
<1>1. /\ work \in [stack : Seq(Frame), seen : SUBSET DOMAIN m_sources,
                   order : Seq(DOMAIN m_sources)]
      /\ \A q \in DOMAIN m_sources : imports(q) \subseteq DOMAIN m_sources
      /\ Sorting
  BY SortFacts
<1>2. new \in Frame /\ new.source = p /\ new.imports = imports(p)
  BY <1>1 DEF Frame, imports
<1>3. /\ work'.stack = Append(stack, new) /\ work'.seen = work.seen \cup {p}
      /\ work'.order = work.order
      /\ work' = [stack |-> work'.stack, seen |-> work'.seen, order |-> work'.order]
  BY <1>1 DEF Toposort
<1> DEFINE n == Len(stack)
<1>4. /\ work'.stack \in Seq(Frame) /\ DOMAIN work'.stack = 1..(n + 1) /\ n \in Nat
      /\ work'.stack[n + 1] = new
      /\ \A i \in 1..n : work'.stack[i] = stack[i]
      /\ DOMAIN work.stack = 1..n
  BY <1>1, <1>2, <1>3
<1>5. work' \in [stack : Seq(Frame), seen : SUBSET DOMAIN m_sources,
                 order : Seq(DOMAIN m_sources)]
  BY <1>1, <1>3, <1>4
<1>6. \A i \in 1..n : work'.stack[i].source = work.stack[i].source
  BY <1>4
<1>7. \A q : imports(q)' = imports(q) /\ ImportedBy(q)' = ImportedBy(q)
  BY ImportsKept
<1>8. work'.seen = {work'.order[k] : k \in DOMAIN work'.order}
                      \cup {work'.stack[i].source : i \in DOMAIN work'.stack}
  <2>1. DOMAIN work'.stack = DOMAIN work.stack \cup {n + 1} /\ work'.stack[n + 1].source = p
    BY <1>2, <1>4
  <2>2. \A i \in DOMAIN work.stack : work'.stack[i].source = work.stack[i].source
    BY <1>4, <1>6
  <2>3. {work'.stack[i].source : i \in DOMAIN work'.stack}
           = {work.stack[i].source : i \in DOMAIN work.stack} \cup {p}
    BY <2>1, <2>2
  <2>4. work.seen = {work.order[k] : k \in DOMAIN work.order}
                       \cup {work.stack[i].source : i \in DOMAIN work.stack}
    BY <1>1 DEF Sorting
  <2>5. {work'.order[k] : k \in DOMAIN work'.order} = {work.order[k] : k \in DOMAIN work.order}
    BY <1>3
  <2> QED
    BY <1>3, <2>3, <2>4, <2>5
<1>9. \A i \in DOMAIN work'.stack : \A k \in DOMAIN work'.order :
         work'.stack[i].source # work'.order[k]
  <2>1. \A k \in DOMAIN work.order : work.order[k] \in work.seen
    BY <1>1, Zenon DEF Sorting
  <2>2. \A i \in DOMAIN work.stack : \A k \in DOMAIN work.order :
           work.stack[i].source # work.order[k]
    BY <1>1 DEF Sorting
  <2> QED
    BY <1>2, <1>3, <1>4, <1>6, <2>1, <2>2
<1>10. \A i, j \in DOMAIN work'.stack : i < j =>
         /\ work'.stack[i].source # work'.stack[j].source
         /\ work'.stack[j].source \in ImportedBy(work'.stack[i].source)
  BY SMTT(30), <1>1, <1>2, <1>4, <1>6 DEF Sorting
<1>11. \A i \in DOMAIN work'.stack :
         /\ work'.stack[i].imports \subseteq imports(work'.stack[i].source)
         /\ imports(work'.stack[i].source) \ work'.stack[i].imports \subseteq work'.seen
  BY <1>2, <1>3, <1>4
<1>12. InOrder(work'.order)
  BY <1>1, <1>3 DEF Sorting
<1>13. InOrder(work.order)'
  BY <1>1, <1>3, <1>7, <1>12 DEF InOrder
<1>14. Sorting'
  BY <1>7, <1>8, <1>9, <1>10, <1>11, <1>13 DEF Sorting
<1> QED
  BY <1>5, <1>14, SortStepIInv

\* A search starts at a source not seen before.
LEMMA SortRootIInv ==
    ASSUME IInv, NEW p \in Paths, SortRoot(p)
    PROVE  IInv'
<1> DEFINE stack == << >>
<1>1. stack \in Seq(Frame) /\ Len(stack) = Len(work.stack) /\ 1..Len(stack) = {}
  BY DEF SortRoot
<1>2. work.stack = stack /\ p \in DOMAIN m_sources \ work.seen /\ work' = Toposort(p, stack)
  BY DEF SortRoot, GoTo
<1> HIDE DEF stack
<1> QED
  BY <1>1, <1>2, SortPushIInv DEF SortRoot, GoTo

\* toposort is called for an import; it returns at once if it was seen.
LEMMA SortImportIInv ==
    ASSUME IInv, NEW p \in Paths, SortImport(p)
    PROVE  IInv'
<1> DEFINE n == Len(work.stack)
           top == work.stack[n]
           rest == [top EXCEPT !.imports = @ \ {p}]
           stack == SetTop(work.stack, rest)
<1>1. /\ work \in [stack : Seq(Frame), seen : SUBSET DOMAIN m_sources,
                   order : Seq(DOMAIN m_sources)]
      /\ \A q \in DOMAIN m_sources : imports(q) \subseteq DOMAIN m_sources
      /\ Sorting
  BY SortFacts DEF SortImport
<1>2. /\ n \in DOMAIN work.stack /\ top \in Frame /\ p \in top.imports
      /\ work' = Toposort(p, stack)
  BY <1>1, StackTop DEF SortImport, GoTo, Top
<1>3. /\ rest \in Frame /\ rest.source = top.source /\ rest.imports = top.imports \ {p}
      /\ p \in DOMAIN m_sources
  BY <1>2 DEF Frame
<1>4. /\ stack \in Seq(Frame) /\ Len(stack) = n /\ stack[n] = rest
      /\ \A i \in 1..(n - 1) : stack[i] = work.stack[i]
  <2>1. work.stack \in Seq(Frame) /\ work.stack # << >>
    BY <1>1 DEF SortImport
  <2>2. rest \in Frame
    BY <1>3
  <2> HIDE DEF rest
  <2>3. SetTop(work.stack, rest) \in Seq(Frame)
    BY <2>1, <2>2, StackSetTop
  <2>4. Len(SetTop(work.stack, rest)) = Len(work.stack)
    BY <2>1, <2>2, StackSetTop
  <2>5. SetTop(work.stack, rest)[Len(work.stack)] = rest
    BY <2>1, <2>2, StackSetTop
  <2>6. \A i \in 1..(n - 1) : SetTop(work.stack, rest)[i] = work.stack[i]
    BY <2>1 DEF SetTop
  <2> QED
    BY <2>3, <2>4, <2>5, <2>6
<1>5. n \in Nat /\ n > 0 /\ DOMAIN work.stack = 1..n
  BY <1>1, <1>2
<1> HIDE DEF rest, stack
<1>6. \A i \in 1..n :
         /\ stack[i].source = work.stack[i].source
         /\ stack[i].imports \subseteq imports(stack[i].source)
         /\ imports(stack[i].source) \ stack[i].imports \subseteq work.seen \cup {p}
  <2>1. \A i \in 1..n :
           /\ work.stack[i].imports \subseteq imports(work.stack[i].source)
           /\ imports(work.stack[i].source) \ work.stack[i].imports \subseteq work.seen
    BY <1>1, <1>5 DEF Sorting
  <2>2. \A i \in 1..n : i = n \/ i \in 1..(n - 1)
    BY <1>5
  <2> QED
    BY <1>3, <1>4, <2>1, <2>2
<1>7. ASSUME NEW i \in 1..n
      PROVE  p \in ImportedBy(stack[i].source)
  <2>1. work.stack[i].source \in DOMAIN m_sources /\ top.source \in DOMAIN m_sources
    <3>1. work.stack[i] \in Frame
      BY <1>1, <1>7
    <3> QED
      BY <1>2, <3>1 DEF Frame
  <2>2. p \in imports(top.source)
    BY <1>1, <1>2 DEF Sorting
  <2>3. i = n \/ top.source \in ImportedBy(work.stack[i].source)
    BY <1>1, <1>5, <1>7 DEF Sorting
  <2>4. p \in ImportedBy(work.stack[i].source)
    BY <1>1, <2>1, <2>2, <2>3, ImportedByClosed
  <2> QED
    BY <1>6, <1>7, <2>4
<1>8. CASE p \notin work.seen
  BY <1>2, <1>3, <1>4, <1>6, <1>7, <1>8, SortPushIInv DEF SortImport, GoTo
<1>9. CASE p \in work.seen
  <2>1. work' = [work EXCEPT !.stack = stack]
    BY <1>2, <1>9 DEF Toposort
  <2>2. /\ work'.stack = stack /\ work'.seen = work.seen /\ work'.order = work.order
        /\ work' \in [stack : Seq(Frame), seen : SUBSET DOMAIN m_sources,
                      order : Seq(DOMAIN m_sources)]
    BY <1>1, <1>4, <2>1
  <2>3. DOMAIN stack = 1..n
    BY <1>4, <1>5
  <2>4. \A q : imports(q)' = imports(q) /\ ImportedBy(q)' = ImportedBy(q)
    BY ImportsKept DEF SortImport
  <2>5. {stack[i].source : i \in DOMAIN stack} = {work.stack[i].source : i \in DOMAIN work.stack}
    BY <1>5, <1>6, <2>3
  <2>6. /\ \A i \in DOMAIN stack : \A k \in DOMAIN work.order : stack[i].source # work.order[k]
        /\ \A i, j \in DOMAIN stack : i < j => /\ stack[i].source # stack[j].source
                                               /\ stack[j].source \in ImportedBy(stack[i].source)
    BY SMTT(30), <1>1, <1>5, <1>6, <2>3 DEF Sorting
  <2>7. InOrder(work.order)'
    BY <1>1, <2>2, <2>4 DEF InOrder, Sorting
  <2>8. Sorting'
    <3>1. work.seen = {work.order[k] : k \in DOMAIN work.order}
                         \cup {stack[i].source : i \in DOMAIN stack}
      BY <1>1, <2>5, Zenon DEF Sorting
    <3>2. \A i \in DOMAIN stack :
             /\ stack[i].imports \subseteq imports(stack[i].source)
             /\ imports(stack[i].source) \ stack[i].imports \subseteq work.seen
      BY <1>6, <1>9, <2>3
    <3> QED
      BY <2>2, <2>4, <2>6, <2>7, <3>1, <3>2 DEF Sorting
  <2> QED
    BY <2>2, <2>8, SortStepIInv DEF SortImport, GoTo
<1> QED
  BY <1>8, <1>9

\* toposort returns: its source comes after the sources ordered before.  An
\* import that is not among them is pending, and so on a cycle.
LEMMA SortReturnIInv ==
    ASSUME IInv, SortReturn
    PROVE  IInv'
<1> DEFINE n == Len(work.stack)
           top == work.stack[n]
           stack == Pop(work.stack)
           order == Append(work.order, top.source)
           m == Len(work.order)
<1>1. /\ work \in [stack : Seq(Frame), seen : SUBSET DOMAIN m_sources,
                   order : Seq(DOMAIN m_sources)]
      /\ \A q \in DOMAIN m_sources : imports(q) \subseteq DOMAIN m_sources
      /\ Sorting
  BY SortFacts DEF SortReturn
<1>2. /\ work.stack \in Seq(Frame) /\ work.stack # << >>
      /\ work.order \in Seq(DOMAIN m_sources)
  BY <1>1 DEF SortReturn
<1>3. /\ n \in DOMAIN work.stack /\ top \in Frame
      /\ stack \in Seq(Frame) /\ Len(stack) = n - 1
  BY <1>2, StackTop
<1>4. \A i \in 1..(n - 1) : stack[i] = work.stack[i]
  BY <1>2 DEF Pop
<1>5. /\ n \in Nat /\ n > 0 /\ DOMAIN work.stack = 1..n /\ DOMAIN stack = 1..(n - 1)
      /\ top.imports = {} /\ top.source \in DOMAIN m_sources
  BY <1>2, <1>3 DEF SortReturn, Top, Frame
<1>6. /\ order \in Seq(DOMAIN m_sources) /\ m \in Nat /\ DOMAIN order = 1..(m + 1)
      /\ order[m + 1] = top.source /\ DOMAIN work.order = 1..m
      /\ \A k \in 1..m : order[k] = work.order[k]
  BY <1>2, <1>5
<1>7. /\ work' = [work EXCEPT !.stack = stack, !.order = order]
      /\ work'.stack = stack /\ work'.order = order /\ work'.seen = work.seen
      /\ work' \in [stack : Seq(Frame), seen : SUBSET DOMAIN m_sources,
                    order : Seq(DOMAIN m_sources)]
  <2>1. work' = [work EXCEPT !.stack = stack, !.order = order]
    BY DEF SortReturn, GoTo, Top
  <2> HIDE DEF stack, order
  <2> QED
    BY <1>1, <1>3, <1>6, <2>1
<1> HIDE DEF stack, order, m, n
<1>8. /\ work.seen = {work.order[k] : k \in DOMAIN work.order}
                        \cup {work.stack[i].source : i \in DOMAIN work.stack}
      /\ \A i \in 1..n : \A k \in 1..m : work.stack[i].source # work.order[k]
      /\ \A i, j \in 1..n : i < j =>
            /\ work.stack[i].source # work.stack[j].source
            /\ work.stack[j].source \in ImportedBy(work.stack[i].source)
      /\ \A i \in 1..n :
            /\ work.stack[i].imports \subseteq imports(work.stack[i].source)
            /\ imports(work.stack[i].source) \ work.stack[i].imports \subseteq work.seen
      /\ InOrder(work.order)
  BY <1>1, <1>5, <1>6 DEF Sorting
<1>9. work.seen = {order[k] : k \in DOMAIN order} \cup {stack[i].source : i \in DOMAIN stack}
  <2>1. {order[k] : k \in DOMAIN order} = {work.order[k] : k \in DOMAIN work.order} \cup {top.source}
    <3>1. DOMAIN order = DOMAIN work.order \cup {m + 1}
      BY <1>6
    <3> QED
      BY <1>6, <3>1
  <2>2. {work.stack[i].source : i \in DOMAIN work.stack}
           = {stack[i].source : i \in DOMAIN stack} \cup {top.source}
    <3>1. DOMAIN work.stack = DOMAIN stack \cup {n}
      BY <1>5
    <3> QED
      BY <1>4, <1>5, <3>1
  <2> QED
    BY <1>8, <2>1, <2>2
<1>10. \A i \in DOMAIN stack : \A k \in DOMAIN order : stack[i].source # order[k]
  BY <1>4, <1>5, <1>6, <1>8
<1>11. \A i, j \in DOMAIN stack : i < j => /\ stack[i].source # stack[j].source
                                           /\ stack[j].source \in ImportedBy(stack[i].source)
  BY <1>4, <1>5, <1>8
<1>12. \A i \in DOMAIN stack :
          /\ stack[i].imports \subseteq imports(stack[i].source)
          /\ imports(stack[i].source) \ stack[i].imports \subseteq work.seen
  BY <1>4, <1>5, <1>8
<1>13. \A j, k \in DOMAIN order : order[j] = order[k] => j = k
  <2>1. \A j, k \in 1..m : work.order[j] = work.order[k] => j = k
    BY <1>6, <1>8 DEF InOrder
  <2>2. \A k \in 1..m : top.source # work.order[k]
    BY <1>5, <1>8
  <2> QED
    BY <1>6, <2>1, <2>2
<1>14. ASSUME NEW k \in DOMAIN order, NEW q \in imports(order[k]), order[k] \notin ImportedBy(q)
       PROVE  \E j \in 1..(k - 1) : order[j] = q
  <2>1. CASE k \in 1..m
    <3>1. \E j \in 1..(k - 1) : work.order[j] = q
      BY <1>6, <1>8, <1>14, <2>1 DEF InOrder
    <3> QED
      BY <1>6, <2>1, <3>1
  <2>2. CASE k = m + 1
    <3>1. q \in work.seen /\ q \in imports(top.source)
      <4>1. q \in imports(top.source)
        BY <1>6, <1>14, <2>2
      <4>2. n \in 1..n /\ top.imports = {}
        BY <1>5
      <4>3. imports(top.source) \ top.imports \subseteq work.seen
        BY <1>8, <4>2
      <4> QED
        BY <4>1, <4>2, <4>3
    <3>2. ASSUME NEW i \in 1..n, work.stack[i].source = q
          PROVE  FALSE
      <4>1. i # n => top.source \in ImportedBy(q)
        BY <1>5, <1>8, <3>2
      <4>2. i = n => top.source \in imports(top.source)
        BY <3>1, <3>2
      <4>3. i = n => top.source \in ImportedBy(q)
        BY <1>1, <1>5, <3>2, <4>2, ImportedByClosed
      <4> QED
        BY <1>6, <1>14, <2>2, <4>1, <4>3
    <3>3. \E j \in 1..m : work.order[j] = q
      BY <1>5, <1>6, <1>8, <3>1, <3>2
    <3> QED
      BY <1>6, <2>2, <3>3
  <2> QED
    BY <1>6, <1>14, <2>1, <2>2
<1>15. InOrder(order)
  BY <1>13, <1>14 DEF InOrder
<1>16. \A q : imports(q)' = imports(q) /\ ImportedBy(q)' = ImportedBy(q)
  BY ImportsKept DEF SortReturn
<1>17. InOrder(work.order)'
  BY <1>7, <1>15, <1>16 DEF InOrder
<1>18. Sorting'
  BY <1>7, <1>9, <1>10, <1>11, <1>12, <1>16, <1>17 DEF Sorting
<1> QED
  BY <1>7, <1>18, SortStepIInv DEF SortReturn, GoTo

\* All sources are in order.
LEMMA EndSortIInv ==
    ASSUME IInv, EndSort
    PROVE  IInv'
<1> USE DEF Empty, SourcesSet, ParsingSuccessful, AnalysisSuccessful,
            CompilationSuccessful, settingVars
<1>1. /\ work \in [stack : Seq(Frame), seen : SUBSET DOMAIN m_sources,
                   order : Seq(DOMAIN m_sources)]
      /\ Sorting
  BY SortFacts DEF EndSort
<1>2. m_sourceOrder' \in Seq(DOMAIN m_sources) /\ m_sourceOrder' = work.order
  BY <1>1 DEF EndSort
<1>3. m_sourceOrder' \in Seq(Paths)
  BY <1>2 DEF IInv, Typed, TypeOK
<1>4. TypeOK'
  BY <1>3 DEF IInv, Typed, TypeOK, EndSort, GoTo
<1>5. [pass |-> 1, noErrors |-> TRUE] \in [pass : 1..(Len(Passes) + 1), noErrors : BOOLEAN]
  <2>1. 1 \in 1..(Len(Passes) + 1)
    BY PassFacts
  <2> QED
    BY <2>1, Zenon
<1>6. Typed'
  BY <1>4, <1>5 DEF IInv, Typed, EndSort, GoTo
<1>7. Control' /\ Parsed' /\ Analysed'
  BY DEF IInv, Control, Parsed, Analysed, Clean, imports, EndSort, GoTo
<1>8. ArtifactsAreCurrent'
  BY ArtifactsKept DEF IInv, EndSort
<1>9. {work.order[k] : k \in DOMAIN work.order} = DOMAIN m_sources
  <2>1. {work.stack[i].source : i \in DOMAIN work.stack} = {}
    BY DEF EndSort
  <2>2. work.seen = {work.order[k] : k \in DOMAIN work.order}
                       \cup {work.stack[i].source : i \in DOMAIN work.stack}
    BY <1>1 DEF Sorting
  <2>3. work.seen = DOMAIN m_sources
    BY <1>1 DEF EndSort
  <2> QED
    BY <2>1, <2>2, <2>3
<1>10. InOrder(m_sourceOrder)'
  <2>1. InOrder(work.order)
    BY <1>1 DEF Sorting
  <2>2. \A q : imports(q)' = imports(q) /\ ImportedBy(q)' = ImportedBy(q)
    BY ImportsKept DEF EndSort
  <2> QED
    BY <1>2, <2>1, <2>2 DEF InOrder
<1>11. Sorted'
  BY <1>2, <1>9, <1>10 DEF Sorted, EndSort, GoTo
<1> QED
  BY <1>6, <1>7, <1>8, <1>11 DEF IInv, Compiled, EndSort, GoTo

-----------------------------------------------------------------------------
(* The steps of analyze().                                                  *)

\* What a pass may report keeps the reporter's type; a list without errors was
\* one before, and an error in it leaves no trace only if it is fatal.
LEMMA ReportedTypes ==
    ASSUME reporter \in Reporter, NEW pass, NEW finding \in Findings(pass)
    PROVE  /\ Reported(finding) \in Reporter
           /\ containsOnlyWarnings(Reported(finding)) => containsOnlyWarnings(reporter)
           /\ containsOnlyWarnings(reporter) /\ finding \notin {"error", "fatal error"}
                 => containsOnlyWarnings(Reported(finding))
           /\ finding \in {"nothing", "warning", "appended warning", "error", "fatal error"}
           /\ Subjects(pass) = {} \/ pass.name = "CFG" => finding = "nothing"
           /\ pass.name = "SMTChecker" => finding \notin {"error", "fatal error"}
<1>1. /\ finding \in {"nothing", "warning", "appended warning", "error", "fatal error"}
      /\ Subjects(pass) = {} \/ pass.name = "CFG" => finding = "nothing"
      /\ pass.name = "SMTChecker" => finding \notin {"error", "fatal error"}
  <2> HIDE DEF Subjects
  <2> QED
    BY DEF Findings
<1>2. Reported(finding) \in {reporter, warning(reporter), append(reporter, {"warning"}),
                             error(reporter)}
  BY <1>1 DEF Reported
<1>3. finding \notin {"error", "fatal error"} =>
         Reported(finding) \in {reporter, warning(reporter), append(reporter, {"warning"})}
  BY <1>1 DEF Reported
<1>4. Reported(finding) \in Reporter
  BY <1>2, ReporterTypes
<1>5. containsOnlyWarnings(Reported(finding)) => containsOnlyWarnings(reporter)
  BY <1>2, ReporterLists
<1>6. containsOnlyWarnings(reporter) /\ finding \notin {"error", "fatal error"}
                 => containsOnlyWarnings(Reported(finding))
  BY ZenonT(40), <1>3, ReporterLists
<1> QED
  BY <1>1, <1>4, <1>5, <1>6

\* Contracts get their entry, the others keep theirs.
LEMMA RegisterTypes ==
    ASSUME Typed, ArtifactsAreCurrent, UNCHANGED <<m_sources, m_settings>>,
           NEW done \in SUBSET (DOMAIN m_sources \cap Declaring), Register(done)
    PROVE  /\ m_contracts' \in [DOMAIN m_contracts' -> Artifacts]
           /\ DOMAIN m_contracts' = DOMAIN m_contracts \cup done
           /\ ArtifactsAreCurrent'
<1>1. NoArtifacts \in Artifacts
  BY Zenon DEF NoArtifacts, Artifacts, Artifact
<1>2. /\ DOMAIN m_contracts' = DOMAIN m_contracts \cup done
      /\ \A c \in DOMAIN m_contracts : m_contracts'[c] = m_contracts[c]
      /\ \A c \in DOMAIN m_contracts' \ DOMAIN m_contracts : m_contracts'[c] = NoArtifacts
  BY DEF Register
<1>3. m_contracts' \in [DOMAIN m_contracts' -> Artifacts]
  BY <1>1 DEF Register, Typed
<1>4. ArtifactsAreCurrent'
  <2> SUFFICES ASSUME NEW c \in DOMAIN m_contracts'
               PROVE  {m_contracts'[c].compiler, m_contracts'[c].object, m_contracts'[c].metadata,
                       m_contracts'[c].yulIR} \subseteq {NotMade, Inputs(c)'}
    BY DEF ArtifactsAreCurrent
  <2>1. Inputs(c)' = Inputs(c)
    BY DEF Inputs
  <2>2. CASE c \in DOMAIN m_contracts
    BY <1>2, <2>1, <2>2 DEF ArtifactsAreCurrent
  <2>3. CASE c \notin DOMAIN m_contracts
    BY <1>2, <2>3 DEF NoArtifacts
  <2> QED
    BY <2>2, <2>3
<1> QED
  BY <1>2, <1>3, <1>4

\* A pass runs, is skipped, or ends the analysis.
LEMMA RunPassIInv ==
    ASSUME IInv, RunPass
    PROVE  IInv'
<1> USE DEF Empty, SourcesSet, ParsingSuccessful, AnalysisSuccessful,
            CompilationSuccessful, settingVars
<1> DEFINE pass == Passes[work.pass]
           contracts == DOMAIN m_sources \cap Declaring
<1>1. /\ pc = "analyze" /\ m_stackState = ParsingSuccessful /\ outcome = "none"
      /\ call \in {"parseAndAnalyze", "analyze", "compile"}
      /\ UNCHANGED <<m_stackState, m_sources, settingVars, m_sourceOrder>>
      /\ DOMAIN m_contracts \subseteq contracts /\ reporter \in Reporter
      /\ m_contracts \in [DOMAIN m_contracts -> Artifacts]
  BY DEF IInv, Control, Typed, TypeOK, RunPass
<1>2. work \in [pass : 1..(Len(Passes) + 1), noErrors : BOOLEAN] /\ work.pass \in 1..13
  <2>1. work \in [pass : 1..(Len(Passes) + 1), noErrors : BOOLEAN]
    BY <1>1 DEF IInv, Typed
  <2>2. work.pass <= 13
    BY PassFacts DEF RunPass
  <2> QED
    BY <2>1, <2>2, PassFacts
<1>3. /\ pass.name = "resolveNamesAndTypes" <=> work.pass = 5
      /\ work.pass = 5 => ~pass.gated
      /\ work.pass = 8 => pass.over = "sources" /\ pass.verdict = "list" /\ pass.gated
      /\ work.pass > 8 => /\ pass.gated
                          /\ pass.verdict \in {"list", "flag"} \/ pass.name = "SMTChecker"
  BY <1>2, PassFacts
<1> HIDE DEF pass
<1>4. ASSUME NEW done \in SUBSET contracts, Records(pass, done)
      PROVE  /\ m_contracts' \in [DOMAIN m_contracts' -> Artifacts]
             /\ work.pass = 5 => DOMAIN m_contracts' = DOMAIN m_contracts \cup done
             /\ work.pass # 5 => m_contracts' = m_contracts
             /\ ArtifactsAreCurrent'
             /\ DOMAIN m_contracts' \subseteq contracts
             /\ m_scopes' \subseteq {GlobalScope} \cup Declaring
  <2>1. CASE work.pass = 5
    <3>1. Register(done)
      BY <1>3, <1>4, <2>1 DEF Records
    <3>2. /\ m_contracts' \in [DOMAIN m_contracts' -> Artifacts]
          /\ DOMAIN m_contracts' = DOMAIN m_contracts \cup done
          /\ ArtifactsAreCurrent'
      BY <1>1, <1>4, <3>1, RegisterTypes DEF IInv
    <3> QED
      BY <1>1, <1>4, <2>1, <3>2 DEF Records, IInv, Typed, TypeOK
  <2>2. CASE work.pass # 5
    <3>1. m_contracts' = m_contracts
      BY <1>3, <1>4, <2>2 DEF Records
    <3>2. ArtifactsAreCurrent'
      BY <1>1, <3>1, ArtifactsKept DEF IInv
    <3> QED
      BY <1>1, <1>4, <2>2, <3>1, <3>2 DEF Records, IInv, Typed, TypeOK
  <2> QED
    BY <2>1, <2>2
<1>5. ASSUME GoTo("analyze", work'), work' \in [pass : 1..(Len(Passes) + 1), noErrors : BOOLEAN],
             work'.pass = work.pass + 1,
             m_contracts' \in [DOMAIN m_contracts' -> Artifacts],
             work.pass = 5 => DOMAIN m_contracts' = contracts,
             work.pass # 5 => m_contracts' = m_contracts,
             ArtifactsAreCurrent', DOMAIN m_contracts' \subseteq contracts,
             m_scopes' \subseteq {GlobalScope} \cup Declaring,
             reporter' \in Reporter, DOMAIN m_sources = {} => Clean',
             work.pass > 7 /\ work'.noErrors => Clean'
      PROVE  IInv'
  <2>1. TypeOK'
    BY <1>1, <1>5 DEF IInv, Typed, TypeOK, GoTo
  <2>2. Typed'
    BY <1>1, <1>5, <2>1 DEF IInv, Typed, GoTo
  <2>3. Control'
    BY <1>1, <1>5 DEF Control, GoTo
  <2>4. Parsed'
    BY <1>1, <1>5 DEF IInv, Parsed, imports, GoTo
  <2>5. Sorted'
    BY <1>1, <1>5, OrderKept DEF IInv, Sorted, GoTo
  <2>6. Analysed'
    BY <1>1, <1>2, <1>5 DEF IInv, Analysed, GoTo
  <2> QED
    BY <1>5, <2>2, <2>3, <2>4, <2>5, <2>6 DEF IInv, Compiled, GoTo
<1>6. CASE /\ pass.gated /\ ~work.noErrors
           /\ GoTo("analyze", [work EXCEPT !.pass = @ + 1])
           /\ UNCHANGED <<reporter, m_contracts, m_scopes>>
  <2>1. /\ work' \in [pass : 1..(Len(Passes) + 1), noErrors : BOOLEAN]
        /\ work'.pass = work.pass + 1 /\ ~work'.noErrors
    BY <1>2, <1>6, PassFacts DEF GoTo
  <2>2. DOMAIN m_sources = {} => Clean'
    BY <1>1, <1>6 DEF IInv, Analysed, Clean
  <2>3. ArtifactsAreCurrent'
    BY <1>1, <1>6, ArtifactsKept DEF IInv
  <2>4. work.pass # 5
    BY <1>3, <1>6
  <2> QED
    BY <1>1, <1>5, <1>6, <2>1, <2>2, <2>3, <2>4 DEF GoTo, IInv, Typed, TypeOK
<1>7. ASSUME ~pass.gated \/ work.noErrors, NEW finding \in Findings(pass),
             reporter' = Reported(finding), NEW ok \in Verdicts(pass, finding)
      PROVE  /\ GoTo("analyze", [pass |-> work.pass + 1, noErrors |-> work.noErrors /\ ok])
                /\ Records(pass, contracts)
                /\ ~(\/ finding = "fatal error"
                     \/ finding = "error" /\ ErrorIsFatal(reporter)) => IInv'
             /\ \A done \in SUBSET contracts :
                   EndWith("false") /\ Records(pass, done) => IInv'
  <2>1. /\ reporter' \in Reporter
        /\ Clean' => Clean
        /\ Clean /\ finding \notin {"error", "fatal error"} => Clean'
        /\ finding \in {"nothing", "warning", "appended warning", "error", "fatal error"}
        /\ Subjects(pass) = {} \/ pass.name = "CFG" => finding = "nothing"
        /\ pass.name = "SMTChecker" => finding \notin {"error", "fatal error"}
    BY <1>1, <1>7, ReportedTypes DEF Clean
  <2>2. DOMAIN m_sources = {} => Clean'
    <3>1. DOMAIN m_sources = {} => Clean /\ Subjects(pass) = {}
      BY <1>1 DEF IInv, Analysed, Subjects
    <3> QED
      BY <2>1, <3>1
  <2>3. ASSUME NEW done \in SUBSET contracts, EndWith("false"), Records(pass, done)
        PROVE  IInv'
    <3>1. TypeOK'
      BY <1>1, <1>4, <2>1, <2>3 DEF IInv, Typed, TypeOK, EndWith
    <3> QED
      <4>1. m_contracts' \in [DOMAIN m_contracts' -> Artifacts] /\ ArtifactsAreCurrent'
        BY <1>4, <2>3
      <4> QED
        BY <1>1, <2>2, <2>3, <3>1, <4>1, EndIInv
  <2>4. ASSUME GoTo("analyze", [pass |-> work.pass + 1, noErrors |-> work.noErrors /\ ok]),
               Records(pass, contracts),
               finding # "fatal error", ~(finding = "error" /\ ErrorIsFatal(reporter))
        PROVE  IInv'
    <3>1. /\ work' = [pass |-> work.pass + 1, noErrors |-> work.noErrors /\ ok]
          /\ GoTo("analyze", work')
      BY <2>4 DEF GoTo
    <3>2. ok \in BOOLEAN
      BY <1>7 DEF Verdicts, containsOnlyWarnings
    <3>3. work' \in [pass : 1..(Len(Passes) + 1), noErrors : BOOLEAN]
      <4>1. work.pass + 1 \in 1..(Len(Passes) + 1)
        BY <1>2, PassFacts
      <4>2. (work.noErrors /\ ok) \in BOOLEAN
        BY Zenon
      <4> QED
        BY <3>1, <4>1, <4>2, Zenon
    <3>4. work'.pass = work.pass + 1 /\ (work'.noErrors => work.noErrors /\ ok)
      BY <3>1
    <3>5. ASSUME work.pass > 7, work'.noErrors
          PROVE  Clean'
      <4>1. work.noErrors /\ ok
        BY <3>4, <3>5
      <4>2. CASE DOMAIN m_sources = {}
        BY <2>2, <4>2
      <4>3. CASE Subjects(pass) # {} /\ pass.verdict = "list"
        BY <1>7, <4>1, <4>3 DEF Verdicts, Clean
      <4>4. CASE work.pass > 8 /\ ~(Subjects(pass) # {} /\ pass.verdict = "list")
        <5>1. Clean
          BY <1>1, <4>1, <4>4 DEF IInv, Analysed
        <5>2. finding # "error"
          <6>1. Subjects(pass) = {} \/ pass.verdict = "flag" \/ pass.name = "SMTChecker"
            BY <1>3, <4>4
          <6>2. CASE pass.verdict = "flag"
            BY <1>7, <4>1, <4>4, <6>2 DEF Verdicts
          <6> QED
            BY <2>1, <6>1, <6>2
        <5> QED
          BY <2>1, <2>4, <5>1, <5>2
      <4>5. work.pass = 8 /\ DOMAIN m_sources # {} => Subjects(pass) # {} /\ pass.verdict = "list"
        BY <1>3 DEF Subjects
      <4> QED
        <5>1. work.pass = 8 \/ work.pass > 8
          BY <1>2, <3>5
        <5> QED
          BY <4>2, <4>3, <4>4, <4>5, <5>1
    <3>6. work.pass = 5 => DOMAIN m_contracts' = contracts
      BY <1>1, <1>4, <2>4
    <3> QED
      BY <1>4, <1>5, <2>1, <2>2, <2>4, <3>1, <3>3, <3>4, <3>5, <3>6
  <2> QED
    BY <2>3, <2>4
<1> QED
  BY <1>6, <1>7 DEF RunPass, pass

\* A second analyze() fails an assertion.
LEMMA RegisterDeclarationsAgainIInv ==
    ASSUME IInv, RegisterDeclarationsAgain
    PROVE  IInv'
<1> USE DEF settingVars
<1>1. TypeOK'
  BY DEF IInv, Typed, TypeOK, RegisterDeclarationsAgain, EndWith
<1>2. ArtifactsAreCurrent'
  BY ArtifactsKept DEF IInv, RegisterDeclarationsAgain
<1>3. m_contracts' \in [DOMAIN m_contracts' -> Artifacts] /\ Clean' = Clean
  BY DEF IInv, Typed, Clean, RegisterDeclarationsAgain
<1> QED
  BY <1>1, <1>2, <1>3, EndIInv DEF IInv, Control, Analysed, RegisterDeclarationsAgain

\* analyze() ends, and compile() begins if it was called for that.
LEMMA EndAnalyzeIInv ==
    ASSUME IInv, EndAnalyze
    PROVE  IInv'
<1> USE DEF Empty, SourcesSet, ParsingSuccessful, AnalysisSuccessful,
            CompilationSuccessful, settingVars
<1>1. /\ pc = "analyze" /\ m_stackState = ParsingSuccessful /\ outcome = "none"
      /\ call \in {"parseAndAnalyze", "analyze", "compile"}
      /\ UNCHANGED <<m_sources, settingVars, m_sourceOrder, m_scopes, m_contracts, reporter>>
      /\ work.pass = 14
  BY PassFacts DEF IInv, Control, EndAnalyze
<1>2. TypeOK'
  BY <1>1 DEF IInv, Typed, TypeOK, EndAnalyze, GoTo, EndWith
<1>3. ArtifactsAreCurrent'
  BY <1>1, ArtifactsKept DEF IInv
<1>4. m_contracts' \in [DOMAIN m_contracts' -> Artifacts] /\ Clean' = Clean
  BY <1>1 DEF IInv, Typed, Clean
<1>5. CASE ~work.noErrors
  BY <1>1, <1>2, <1>3, <1>4, <1>5, EndIInv DEF IInv, Analysed, EndAnalyze
<1>6. CASE work.noErrors
  <2>1. NewCompilation \in [next : 1..(Len(m_sourceOrder') + 1), stage : {"code", "ir"},
                            stack : Seq(ContractFrame'),
                            otherCompilers : SUBSET DOMAIN m_contracts']
    <3>1. 1 \in 1..(Len(m_sourceOrder') + 1)
      BY <1>2 DEF TypeOK
    <3> QED
      BY <3>1 DEF NewCompilation
  <2>2. Typed'
    BY <1>1, <1>2, <1>4, <1>6, <2>1 DEF IInv, Typed, EndAnalyze, GoTo, EndWith
  <2>3. Control'
    BY <1>1, <1>6 DEF Control, EndAnalyze, GoTo, EndWith
  <2>4. Parsed'
    BY <1>1, <1>6 DEF IInv, Parsed, imports, EndAnalyze, GoTo, EndWith
  <2>5. Sorted'
    BY <1>1, <1>6, OrderKept DEF IInv, Sorted, EndAnalyze, GoTo, EndWith
  <2>6. Analysed'
    BY <1>1, <1>4, <1>6 DEF IInv, Analysed, EndAnalyze, GoTo, EndWith
  <2>7. Compiled'
    <3>1. pc' = "compile" => work' = NewCompilation
      BY <1>1, <1>6 DEF EndAnalyze, GoTo, EndWith
    <3> QED
      BY <1>2, <3>1, NewCompilationStarts DEF Compiled, TypeOK
  <2> QED
    BY <1>3, <2>2, <2>3, <2>4, <2>5, <2>6, <2>7 DEF IInv
<1> QED
  BY <1>5, <1>6

-----------------------------------------------------------------------------
(* The steps of compile().                                                  *)

\* What holds during compile().
LEMMA CompileFacts ==
    ASSUME IInv, pc = "compile"
    PROVE  /\ work \in [next : 1..(Len(m_sourceOrder) + 1), stage : {"code", "ir"},
                        stack : Seq(ContractFrame), otherCompilers : SUBSET DOMAIN m_contracts]
           /\ m_contracts \in [DOMAIN m_contracts -> Artifacts]
           /\ m_sources \in [DOMAIN m_sources -> [content : Contents, ast : BOOLEAN]]
           /\ m_settings \in Settings
           /\ DOMAIN m_contracts = DOMAIN m_sources \cap Declaring
           /\ \A p \in DOMAIN m_sources : imports(p) \subseteq DOMAIN m_sources
           /\ m_sourceOrder \in Seq(DOMAIN m_sources)
           /\ {m_sourceOrder[k] : k \in DOMAIN m_sourceOrder} = DOMAIN m_sources
           /\ Compiling
           /\ call = "compile" /\ outcome = "none" /\ m_stackState >= AnalysisSuccessful
<1> USE DEF Empty, SourcesSet, ParsingSuccessful, AnalysisSuccessful, CompilationSuccessful
<1>1. m_stackState >= AnalysisSuccessful /\ m_stackState >= ParsingSuccessful /\ call = "compile"
  BY DEF IInv, Control, Typed, TypeOK
<1>2. outcome = "none"
  BY <1>1 DEF IInv, Control
<1>3. \A p \in DOMAIN m_sources : imports(p) \subseteq DOMAIN m_sources
  BY <1>1 DEF IInv, Parsed
<1>4. /\ m_sourceOrder \in Seq(DOMAIN m_sources)
      /\ {m_sourceOrder[k] : k \in DOMAIN m_sourceOrder} = DOMAIN m_sources
  BY <1>1 DEF IInv, Sorted
<1>5. DOMAIN m_contracts = DOMAIN m_sources \cap Declaring
  BY <1>1 DEF IInv, Analysed
<1> QED
  BY <1>1, <1>2, <1>3, <1>4, <1>5 DEF IInv, Typed, TypeOK, Compiled

\* A step of compile() leaves all but its own part of the invariant alone.
LEMMA CompileStepIInv ==
    ASSUME IInv, pc = "compile", pc' = "compile",
           UNCHANGED <<m_stackState, m_sources, settingVars, m_sourceOrder, m_scopes,
                       reporter, call, outcome>>,
           m_contracts' \in [DOMAIN m_contracts -> Artifacts], ArtifactsAreCurrent',
           work' \in [next : 1..(Len(m_sourceOrder) + 1), stage : {"code", "ir"},
                      stack : Seq(ContractFrame), otherCompilers : SUBSET DOMAIN m_contracts],
           Compiling'
    PROVE  IInv'
<1> USE DEF Empty, SourcesSet, ParsingSuccessful, AnalysisSuccessful,
            CompilationSuccessful, settingVars
<1>1. DOMAIN m_contracts' = DOMAIN m_contracts
  OBVIOUS
<1>2. TypeOK'
  BY <1>1 DEF IInv, Typed, TypeOK
<1>3. ContractFrame' = ContractFrame
  BY <1>1 DEF ContractFrame
<1>4. Typed'
  BY <1>1, <1>2, <1>3 DEF IInv, Typed
<1>5. Control'
  BY <1>1 DEF IInv, Control
<1>6. Parsed'
  BY DEF IInv, Parsed, imports
<1>7. Analysed'
  BY <1>1 DEF IInv, Analysed, Clean
<1>8. Sorted'
  BY OrderKept DEF IInv, Sorted
<1> QED
  BY <1>4, <1>5, <1>6, <1>7, <1>8 DEF IInv, Compiled

\* What a contract depends on is declared in a source that is there.
LEMMA DependenciesDeclared ==
    ASSUME DOMAIN m_contracts = DOMAIN m_sources \cap Declaring, NEW c \in DOMAIN m_contracts
    PROVE  contractDependencies(c) \subseteq DOMAIN m_contracts
BY StackAssumption DEF contractDependencies, ImportedBy

\* It only depends on the sources.
LEMMA DependenciesKept ==
    ASSUME UNCHANGED <<m_sources, settingVars>>
    PROVE  \A c : /\ contractDependencies(c)' = contractDependencies(c)
                  /\ compiledContracts(c)' = compiledContracts(c)
                  /\ isRequestedContract(c)' = isRequestedContract(c)
                  /\ Inputs(c)' = Inputs(c)
<1>1. \A p : ImportedBy(p)' = ImportedBy(p)
  BY ImportsKept
<1>2. \A c : contractDependencies(c)' = contractDependencies(c)
  BY <1>1 DEF contractDependencies
<1>3. \A c : compiledContracts(c)' = compiledContracts(c)
  BY <1>1 DEF compiledContracts, linearizedBaseContracts
<1>4. \A c : isRequestedContract(c)' = isRequestedContract(c) /\ Inputs(c)' = Inputs(c)
  BY DEF isRequestedContract, Inputs, settingVars
<1> QED
  BY <1>2, <1>3, <1>4

\* compileContract or generateIR returns at once or becomes a pending call.
LEMMA EnterCases ==
    ASSUME DOMAIN m_contracts = DOMAIN m_sources \cap Declaring,
           NEW kind \in {"code", "ir"}, NEW c \in DOMAIN m_contracts,
           NEW stack \in Seq(ContractFrame), NEW others
    PROVE  \/ /\ Enter(kind, c, stack, others) = stack
              /\ kind = "code" /\ c \in Deployable => c \in others
           \/ /\ Enter(kind, c, stack, others) = Append(stack, NewFrame(kind, c))
              /\ NewFrame(kind, c) \in ContractFrame
              /\ kind = "code" => c \notin others
<1>1. c \in Deployable => NewFrame(kind, c) \in ContractFrame
  BY DependenciesDeclared DEF ContractFrame, NewFrame
<1> QED
  BY <1>1 DEF Enter, NewFrame

\* A stack with one call.
LEMMA SingleFrame ==
    ASSUME NEW S, NEW f \in S
    PROVE  /\ Append(<< >>, f) \in Seq(S) /\ Append(<< >>, f) # << >>
           /\ DOMAIN Append(<< >>, f) = {1} /\ Append(<< >>, f)[1] = f
<1>1. << >> \in Seq(S) /\ Len(<< >>) = 0
  OBVIOUS
<1>2. Append(<< >>, f) \in Seq(S) /\ Len(Append(<< >>, f)) = 1 /\ Append(<< >>, f)[1] = f
  BY <1>1
<1> QED
  BY <1>2

\* The loop of compile() takes its next step: a contract that is not wanted is
\* passed over, a wanted one is compiled and then has its IR generated.
LEMMA CompileNextIInv ==
    ASSUME IInv, CompileNext
    PROVE  IInv'
<1> DEFINE c == m_sourceOrder[work.next]
<1>1. /\ pc = "compile" /\ pc' = "compile" /\ work.stack = << >>
      /\ UNCHANGED <<m_stackState, m_sources, settingVars, m_sourceOrder, m_scopes,
                     m_contracts, reporter, call, outcome>>
  BY DEF CompileNext, GoTo
<1>2. /\ work \in [next : 1..(Len(m_sourceOrder) + 1), stage : {"code", "ir"},
                   stack : Seq(ContractFrame), otherCompilers : SUBSET DOMAIN m_contracts]
      /\ m_contracts \in [DOMAIN m_contracts -> Artifacts]
      /\ DOMAIN m_contracts = DOMAIN m_sources \cap Declaring
      /\ m_sourceOrder \in Seq(DOMAIN m_sources)
      /\ Compiling
  BY <1>1, CompileFacts
<1>3. work.next \in 1..Len(m_sourceOrder) /\ Len(m_sourceOrder) \in Nat /\ c \in DOMAIN m_sources
  BY <1>2 DEF CompileNext
<1>4. ArtifactsAreCurrent'
  BY <1>1, ArtifactsKept DEF IInv, settingVars
<1>5. \A d : /\ contractDependencies(d)' = contractDependencies(d)
             /\ compiledContracts(d)' = compiledContracts(d)
             /\ isRequestedContract(d)' = isRequestedContract(d)
  BY <1>1, DependenciesKept
<1>6. \A d \in work.otherCompilers :
             /\ contractDependencies(d) \cap Deployable \subseteq work.otherCompilers
             /\ compiledContracts(d) \subseteq work.otherCompilers
             /\ m_contracts[d].object # NotMade
  BY <1>2 DEF Compiling
<1>7. \A d \in Called \cap Declaring \cap Deployable :
             isRequestedContract(d) => d \in work.otherCompilers
  BY <1>1, <1>2 DEF Compiling
<1>8. ASSUME work' \in [next : 1..(Len(m_sourceOrder) + 1), stage : {"code", "ir"},
                        stack : Seq(ContractFrame), otherCompilers : SUBSET DOMAIN m_contracts],
             work'.otherCompilers = work.otherCompilers,
             work'.stage = "ir" => /\ work'.next <= Len(m_sourceOrder)
                                   /\ m_sourceOrder[work'.next] \in Declaring
                                   /\ isRequestedContract(m_sourceOrder[work'.next]),
             \A i \in DOMAIN work'.stack :
                /\ work'.stack[i].kind = "code" <=> work'.stage = "ir"
                /\ contractDependencies(work'.stack[i].contract) \subseteq work'.stack[i].rest,
             \A d \in Called' : d \in Called \/ d = c,
             c \in Declaring \cap Deployable /\ isRequestedContract(c) =>
                \/ c \in work.otherCompilers
                \/ work'.stage = "ir" /\ work'.stack # << >> /\ work'.stack[1].contract = c
      PROVE  IInv'
  <2>1. \A d \in Called' \cap Declaring \cap Deployable :
           isRequestedContract(d) =>
              \/ d \in work.otherCompilers
              \/ work'.stage = "ir" /\ work'.stack # << >> /\ work'.stack[1].contract = d
    BY <1>7, <1>8
  <2>2. Compiling'
    BY <1>1, <1>5, <1>6, <1>8, <2>1 DEF Compiling
  <2> QED
    BY <1>1, <1>2, <1>4, <1>8, <2>2, CompileStepIInv
<1>9. CASE ~(c \in Declaring /\ isRequestedContract(c))
  <2>1. work' = [work EXCEPT !.next = @ + 1]
    BY <1>9 DEF CompileNext, GoTo
  <2>2. work.stage = "code"
    BY <1>2, <1>9 DEF Compiling
  <2>3. /\ work' \in [next : 1..(Len(m_sourceOrder) + 1), stage : {"code", "ir"},
                      stack : Seq(ContractFrame), otherCompilers : SUBSET DOMAIN m_contracts]
        /\ work'.otherCompilers = work.otherCompilers
        /\ work'.stage = "code" /\ work'.stack = << >> /\ work'.next = work.next + 1
    BY <1>1, <1>2, <1>3, <2>1, <2>2
  <2>4. \A d \in Called' : d \in Called \/ d = c
    BY <1>1, <1>2, <1>3, <2>2, <2>3 DEF Called
  <2> QED
    BY <1>8, <1>9, <2>3, <2>4
<1>10. CASE c \in Declaring /\ isRequestedContract(c) /\ work.stage = "code"
  <2> DEFINE stack == Enter("code", c, work.stack, work.otherCompilers)
  <2>1. work' = [work EXCEPT !.stage = "ir", !.stack = stack]
    BY <1>10 DEF CompileNext, GoTo
  <2>2. c \in DOMAIN m_contracts /\ work.stack \in Seq(ContractFrame)
    BY <1>2, <1>3, <1>10
  <2>3. \/ /\ stack = << >>
           /\ c \in Deployable => c \in work.otherCompilers
        \/ /\ stack = Append(<< >>, NewFrame("code", c))
           /\ NewFrame("code", c) \in ContractFrame
    <3>1. \/ /\ stack = work.stack
             /\ "code" = "code" /\ c \in Deployable => c \in work.otherCompilers
          \/ /\ stack = Append(work.stack, NewFrame("code", c))
             /\ NewFrame("code", c) \in ContractFrame
      BY <1>2, <2>2, EnterCases
    <3> QED
      BY <1>1, <3>1
  <2> HIDE DEF stack
  <2>4. /\ stack \in Seq(ContractFrame)
        /\ \A i \in DOMAIN stack : stack[i] = NewFrame("code", c)
        /\ c \in Deployable => c \in work.otherCompilers \/ (stack # << >> /\ stack[1] = NewFrame("code", c))
    <3>1. CASE stack = << >> /\ (c \in Deployable => c \in work.otherCompilers)
      BY <3>1
    <3>2. CASE stack = Append(<< >>, NewFrame("code", c)) /\ NewFrame("code", c) \in ContractFrame
      <4>1. stack \in Seq(ContractFrame) /\ stack # << >> /\ DOMAIN stack = {1}
        BY <3>2, SingleFrame
      <4>2. stack[1] = NewFrame("code", c)
        BY <3>2, SingleFrame
      <4> QED
        BY <4>1, <4>2
    <3> QED
      BY <2>3, <3>1, <3>2
  <2>5. /\ work' \in [next : 1..(Len(m_sourceOrder) + 1), stage : {"code", "ir"},
                      stack : Seq(ContractFrame), otherCompilers : SUBSET DOMAIN m_contracts]
        /\ work'.otherCompilers = work.otherCompilers
        /\ work'.stage = "ir" /\ work'.stack = stack /\ work'.next = work.next
    BY <1>2, <2>1, <2>4
  <2>6. \A d \in Called' : d \in Called \/ d = c
    BY <1>1, <1>2, <1>3, <2>5 DEF Called
  <2>7. \A i \in DOMAIN stack :
           /\ stack[i].kind = "code" /\ stack[i].contract = c
           /\ contractDependencies(stack[i].contract) \subseteq stack[i].rest
    BY <2>4 DEF NewFrame
  <2>8. c \in Deployable => c \in work.otherCompilers \/ (stack # << >> /\ stack[1].contract = c)
    BY <2>4 DEF NewFrame
  <2> QED
    BY <1>3, <1>8, <1>10, <2>5, <2>6, <2>7, <2>8
<1>11. CASE c \in Declaring /\ isRequestedContract(c) /\ work.stage = "ir"
  <2> DEFINE stack == IF m_generateIR THEN Enter("ir", c, work.stack, {}) ELSE work.stack
  <2>1. work' = [work EXCEPT !.next = @ + 1, !.stage = "code", !.stack = stack]
    BY <1>11 DEF CompileNext, GoTo
  <2>2. c \in DOMAIN m_contracts /\ work.stack \in Seq(ContractFrame)
    BY <1>2, <1>3, <1>11
  <2>3. \/ stack = << >>
        \/ stack = Append(<< >>, NewFrame("ir", c)) /\ NewFrame("ir", c) \in ContractFrame
    BY <1>1, <1>2, <2>2, EnterCases
  <2> HIDE DEF stack
  <2>4. stack \in Seq(ContractFrame) /\ \A i \in DOMAIN stack : stack[i] = NewFrame("ir", c)
    <3>1. CASE stack = << >>
      BY <3>1
    <3>2. CASE stack = Append(<< >>, NewFrame("ir", c)) /\ NewFrame("ir", c) \in ContractFrame
      <4>1. stack \in Seq(ContractFrame) /\ DOMAIN stack = {1}
        BY <3>2, SingleFrame
      <4>2. stack[1] = NewFrame("ir", c)
        BY <3>2, SingleFrame
      <4> QED
        BY <4>1, <4>2
    <3> QED
      BY <2>3, <3>1, <3>2
  <2>5. /\ work' \in [next : 1..(Len(m_sourceOrder) + 1), stage : {"code", "ir"},
                      stack : Seq(ContractFrame), otherCompilers : SUBSET DOMAIN m_contracts]
        /\ work'.otherCompilers = work.otherCompilers
        /\ work'.stage = "code" /\ work'.stack = stack /\ work'.next = work.next + 1
    <3>1. work.next + 1 \in 1..(Len(m_sourceOrder) + 1)
      BY <1>3
    <3>2. stack \in Seq(ContractFrame)
      BY <2>4
    <3> QED
      BY <1>2, <2>1, <3>1, <3>2
  <2>6. \A d \in Called' : d \in Called
    BY <1>1, <1>2, <1>3, <1>11, <2>5 DEF Called
  <2>7. \A i \in DOMAIN stack :
           /\ stack[i].kind = "ir"
           /\ contractDependencies(stack[i].contract) \subseteq stack[i].rest
    BY <2>4 DEF NewFrame
  <2>8. c \in Declaring \cap Deployable /\ isRequestedContract(c) => c \in work.otherCompilers
    <3>1. c \in Called
      BY <1>2, <1>3, <1>11 DEF Called
    <3> QED
      BY <1>7, <3>1
  <2> QED
    BY <1>8, <2>5, <2>6, <2>7, <2>8
<1> QED
  BY <1>2, <1>9, <1>10, <1>11

\* A dependency of the contract on top is visited.
LEMMA VisitDependencyIInv ==
    ASSUME IInv, NEW d \in Declaring, VisitDependency(d)
    PROVE  IInv'
<1> DEFINE n == Len(work.stack)
           top == work.stack[n]
           left == [top EXCEPT !.rest = @ \ {d}]
           base == SetTop(work.stack, left)
           stack == Enter(top.kind, d, base, work.otherCompilers)
<1>1. /\ pc = "compile" /\ pc' = "compile" /\ work.stack # << >>
      /\ UNCHANGED <<m_stackState, m_sources, settingVars, m_sourceOrder, m_scopes,
                     m_contracts, reporter, call, outcome>>
      /\ work' = [work EXCEPT !.stack = stack] /\ d \in top.rest
  BY DEF VisitDependency, GoTo, Top
<1>2. /\ work \in [next : 1..(Len(m_sourceOrder) + 1), stage : {"code", "ir"},
                   stack : Seq(ContractFrame), otherCompilers : SUBSET DOMAIN m_contracts]
      /\ m_contracts \in [DOMAIN m_contracts -> Artifacts]
      /\ DOMAIN m_contracts = DOMAIN m_sources \cap Declaring
      /\ Compiling
  BY <1>1, CompileFacts
<1>3. work.stack \in Seq(ContractFrame) /\ n \in Nat /\ n > 0 /\ DOMAIN work.stack = 1..n
  BY <1>1, <1>2
<1>4. top \in ContractFrame
  BY <1>3
<1>5. /\ left \in ContractFrame /\ left.kind = top.kind /\ left.contract = top.contract
      /\ left.rest = top.rest \ {d} /\ d \in DOMAIN m_contracts /\ top.kind \in {"code", "ir"}
  BY <1>1, <1>4 DEF ContractFrame
<1> HIDE DEF left
<1>6. base \in Seq(ContractFrame) /\ Len(base) = n /\ base[n] = left
  <2>1. base \in Seq(ContractFrame)
    BY <1>1, <1>3, <1>5, StackSetTop
  <2>2. Len(base) = Len(work.stack)
    BY <1>1, <1>3, <1>5, StackSetTop
  <2>3. base[Len(work.stack)] = left
    <3>1. work.stack \in Seq(ContractFrame) /\ work.stack # << >> /\ left \in ContractFrame
      BY <1>1, <1>3, <1>5
    <3> QED
      BY <3>1, StackSetTop
  <2> QED
    BY <2>1, <2>2, <2>3
<1>7. \A i \in 1..(n - 1) : base[i] = work.stack[i]
  BY <1>3 DEF SetTop
<1>8. DOMAIN base = 1..n
  BY <1>6
<1> HIDE DEF base
<1>9. \/ /\ stack = base
         /\ top.kind = "code" /\ d \in Deployable => d \in work.otherCompilers
      \/ /\ stack = Append(base, NewFrame(top.kind, d))
         /\ NewFrame(top.kind, d) \in ContractFrame
  BY <1>2, <1>5, <1>6, EnterCases
<1> DEFINE new == NewFrame(top.kind, d)
<1> HIDE DEF stack, n
<1>10. /\ stack \in Seq(ContractFrame)
       /\ \A i \in 1..(n - 1) : stack[i] = work.stack[i]
       /\ stack[n] = left
       /\ \/ /\ DOMAIN stack = 1..n
             /\ top.kind = "code" /\ d \in Deployable => d \in work.otherCompilers
          \/ /\ DOMAIN stack = 1..(n + 1) /\ stack[n + 1] = new
  <2>1. CASE stack = base /\ (top.kind = "code" /\ d \in Deployable => d \in work.otherCompilers)
    BY <1>6, <1>7, <1>8, <2>1
  <2>2. CASE stack = Append(base, new) /\ new \in ContractFrame
    <3> HIDE DEF new
    <3>1. stack \in Seq(ContractFrame) /\ Len(stack) = n + 1 /\ stack[n + 1] = new
      BY <1>6, <2>2
    <3>2. \A i \in 1..n : stack[i] = base[i]
      BY <1>6, <2>2
    <3>3. n \in 1..n /\ \A i \in 1..(n - 1) : i \in 1..n
      BY <1>3
    <3> QED
      BY <1>6, <1>7, <3>1, <3>2, <3>3
  <2> QED
    BY <1>9, <2>1, <2>2
<1>11. /\ new.kind = top.kind /\ new.contract = d /\ new.rest = contractDependencies(d)
  BY DEF NewFrame
<1> HIDE DEF new
<1>12. /\ work'.next = work.next /\ work'.stage = work.stage /\ work'.stack = stack
       /\ work'.otherCompilers = work.otherCompilers
       /\ work' \in [next : 1..(Len(m_sourceOrder) + 1), stage : {"code", "ir"},
                  stack : Seq(ContractFrame), otherCompilers : SUBSET DOMAIN m_contracts]
  BY <1>1, <1>2, <1>10
<1>13. \A e : /\ contractDependencies(e)' = contractDependencies(e)
              /\ compiledContracts(e)' = compiledContracts(e)
              /\ isRequestedContract(e)' = isRequestedContract(e)
  BY <1>1, DependenciesKept
<1>14. /\ \A i \in 1..n : work.stack[i].kind = "code" <=> work.stage = "ir"
       /\ work.stage = "ir" =>
             \A i \in 1..n :
                \A e \in contractDependencies(work.stack[i].contract) \cap Deployable :
                   \/ e \in work.stack[i].rest \cup work.otherCompilers
                   \/ i + 1 \in 1..n /\ e = work.stack[i + 1].contract
  BY <1>2, <1>3 DEF Compiling
<1>15. \A i \in DOMAIN stack : stack[i].kind = "code" <=> work.stage = "ir"
  <2>1. \A i \in DOMAIN stack : i \in 1..(n - 1) \/ i = n \/ (i = n + 1 /\ stack[i] = new)
    BY <1>3, <1>10
  <2>2. n \in 1..n /\ \A i \in 1..(n - 1) : i \in 1..n
    BY <1>3
  <2> QED
    BY <1>5, <1>10, <1>11, <1>14, <2>1, <2>2
<1>16. ASSUME work.stage = "ir", NEW i \in DOMAIN stack,
              NEW e \in contractDependencies(stack[i].contract) \cap Deployable
       PROVE  \/ e \in stack[i].rest \cup work.otherCompilers
              \/ i + 1 \in DOMAIN stack /\ e = stack[i + 1].contract
  <2>1. CASE i \in 1..(n - 1)
    <3>1. stack[i] = work.stack[i] /\ i \in 1..n /\ i + 1 \in 1..n /\ i + 1 \in DOMAIN stack
      BY SMTT(30), <1>3, <1>10, <2>1
    <3>2. stack[i + 1].contract = work.stack[i + 1].contract
      <4>1. i + 1 \in 1..(n - 1) \/ i + 1 = n
        BY <1>3, <2>1
      <4> QED
        BY <1>5, <1>10, <4>1
    <3> QED
      BY <1>14, <1>16, <3>1, <3>2
  <2>2. CASE i = n
    <3>1. n \in 1..n /\ n + 1 \notin 1..n /\ n + 1 \in 1..(n + 1)
      BY <1>3
    <3>2. e \in contractDependencies(top.contract) \cap Deployable
      BY <1>5, <1>10, <1>16, <2>2
    <3>3. e \in top.rest \cup work.otherCompilers
      BY <1>14, <1>16, <3>1, <3>2
    <3>4. top.kind = "code"
      BY <1>14, <1>16, <3>1
    <3>5. CASE e = d
      BY <1>10, <1>11, <1>16, <2>2, <3>1, <3>4, <3>5
    <3>6. CASE e # d
      BY <1>5, <1>10, <2>2, <3>3, <3>6
    <3> QED
      BY <3>5, <3>6
  <2>3. CASE i = n + 1 /\ stack[i] = new
    BY <1>11, <1>16, <2>3
  <2> QED
    BY <1>3, <1>10, <1>16, <2>1, <2>2, <2>3
<1>17. stack # << >> /\ stack[1].contract = work.stack[1].contract
  <2>1. 1 \in 1..n /\ (1 \in 1..(n - 1) \/ n = 1) /\ 1 \in DOMAIN stack
    BY <1>3, <1>10
  <2> QED
    BY <1>5, <1>10, <2>1
<1>18. Called' = Called
  BY <1>1, <1>12 DEF Called
<1>19. Compiling'
  <2>1. /\ work.stage = "ir" =>
             /\ work.next <= Len(m_sourceOrder)
             /\ m_sourceOrder[work.next] \in Declaring
             /\ isRequestedContract(m_sourceOrder[work.next])
        /\ \A c \in work.otherCompilers :
             /\ contractDependencies(c) \cap Deployable \subseteq work.otherCompilers
             /\ compiledContracts(c) \subseteq work.otherCompilers
             /\ m_contracts[c].object # NotMade
        /\ \A c \in Called \cap Declaring \cap Deployable :
             isRequestedContract(c) =>
                \/ c \in work.otherCompilers
                \/ work.stage = "ir" /\ work.stack # << >> /\ work.stack[1].contract = c
    BY <1>2 DEF Compiling
  <2> QED
    BY <1>1, <1>12, <1>13, <1>15, <1>16, <1>17, <1>18, <2>1 DEF Compiling
<1>20. ArtifactsAreCurrent'
  BY <1>1, ArtifactsKept DEF IInv, settingVars
<1> QED
  BY <1>1, <1>2, <1>12, <1>19, <1>20, CompileStepIInv

\* The entries of m_contracts change, but what is in them stays current.
LEMMA ArtifactsChanged ==
    ASSUME ArtifactsAreCurrent, UNCHANGED <<m_sources, m_settings>>,
           DOMAIN m_contracts' = DOMAIN m_contracts, NEW c \in DOMAIN m_contracts,
           \A d \in DOMAIN m_contracts \ {c} : m_contracts'[d] = m_contracts[d],
           \/ m_contracts'[c].compiler = m_contracts[c].compiler
           \/ m_contracts'[c].compiler = Inputs(c),
           \/ m_contracts'[c].object = m_contracts[c].object
           \/ m_contracts'[c].object = Inputs(c),
           \/ m_contracts'[c].metadata = m_contracts[c].metadata
           \/ m_contracts'[c].metadata = Inputs(c),
           \/ m_contracts'[c].yulIR = m_contracts[c].yulIR
           \/ m_contracts'[c].yulIR = Inputs(c)
    PROVE  ArtifactsAreCurrent'
<1>1. \A d : Inputs(d)' = Inputs(d)
  BY DEF Inputs
<1> QED
  BY <1>1 DEF ArtifactsAreCurrent

\* The call on top of the stack returns.
LEMMA PopFacts ==
    ASSUME work \in [next : 1..(Len(m_sourceOrder) + 1), stage : {"code", "ir"},
                     stack : Seq(ContractFrame), otherCompilers : SUBSET DOMAIN m_contracts],
           work.stack # << >>,
           NEW n, n = Len(work.stack), NEW stack, stack = Pop(work.stack)
    PROVE  /\ n \in Nat /\ n > 0 /\ DOMAIN work.stack = 1..n /\ work.stack[n] \in ContractFrame
           /\ stack \in Seq(ContractFrame) /\ DOMAIN stack = 1..(n - 1)
           /\ \A i \in 1..(n - 1) : stack[i] = work.stack[i]
           /\ n # 1 => stack # << >>
<1>1. work.stack \in Seq(ContractFrame) /\ n \in Nat /\ n > 0 /\ DOMAIN work.stack = 1..n
  OBVIOUS
<1>2. work.stack[n] \in ContractFrame
  BY <1>1
<1>3. stack \in Seq(ContractFrame) /\ Len(stack) = n - 1
  BY <1>1, StackTop
<1>4. \A i \in 1..(n - 1) : stack[i] = work.stack[i]
  BY <1>1 DEF Pop
<1>5. DOMAIN stack = 1..(n - 1)
  BY <1>3
<1>6. n # 1 => stack # << >>
  <2>1. Len(<< >>) = 0 /\ (n # 1 => Len(stack) # 0)
    BY <1>1, <1>3
  <2> QED
    BY <2>1, Zenon
<1> QED
  BY <1>1, <1>2, <1>3, <1>4, <1>5, <1>6

\* compileContract returns or throws.
LEMMA CompileContractIInv ==
    ASSUME IInv, CompileContract
    PROVE  IInv'
<1> DEFINE n == Len(work.stack)
           top == work.stack[n]
           c == top.contract
           stack == Pop(work.stack)
<1>1. /\ pc = "compile" /\ work.stack # << >> /\ top.kind = "code" /\ top.rest = {}
      /\ UNCHANGED <<m_stackState, m_sources, settingVars, m_sourceOrder, m_scopes, reporter>>
  BY DEF CompileContract, Top
<1>2. /\ work \in [next : 1..(Len(m_sourceOrder) + 1), stage : {"code", "ir"},
                   stack : Seq(ContractFrame), otherCompilers : SUBSET DOMAIN m_contracts]
      /\ m_contracts \in [DOMAIN m_contracts -> Artifacts]
      /\ m_sources \in [DOMAIN m_sources -> [content : Contents, ast : BOOLEAN]]
      /\ m_settings \in Settings
      /\ DOMAIN m_contracts = DOMAIN m_sources \cap Declaring
      /\ Compiling
      /\ m_stackState >= AnalysisSuccessful
  BY <1>1, CompileFacts
<1>3. /\ n \in Nat /\ n > 0 /\ DOMAIN work.stack = 1..n /\ top \in ContractFrame
      /\ stack \in Seq(ContractFrame) /\ DOMAIN stack = 1..(n - 1)
      /\ \A i \in 1..(n - 1) : stack[i] = work.stack[i]
      /\ n # 1 => stack # << >>
  BY <1>1, <1>2, PopFacts
<1>4. c \in DOMAIN m_contracts /\ c \in Deployable
  BY <1>3 DEF ContractFrame
<1>5. Inputs(c) \in Artifact /\ Inputs(c) # NotMade
  BY <1>2, <1>4 DEF Inputs, Artifact, NotMade
<1> DEFINE metadata == IF m_contracts[c].metadata = NotMade THEN Inputs(c) ELSE m_contracts[c].metadata
<1>6. PICK assembled \in BOOLEAN :
         /\ assembled => compiledContracts(c) \subseteq work.otherCompilers
         /\ m_contracts' = [m_contracts EXCEPT
               ![c].compiler = Inputs(c), ![c].metadata = metadata,
               ![c].object = IF assembled THEN Inputs(c) ELSE @,
               ![c].linked = ~assembled /\ @]
         /\ \/ /\ assembled
               /\ GoTo("compile", [work EXCEPT !.stack = Pop(@), !.otherCompilers = @ \cup {c}])
            \/ EndWith("exception")
            \/ EndWith("InternalCompilerError")
  BY DEF CompileContract, Top
<1> HIDE DEF n, top, c, stack
<1>7. /\ DOMAIN m_contracts' = DOMAIN m_contracts
      /\ \A d \in DOMAIN m_contracts \ {c} : m_contracts'[d] = m_contracts[d]
      /\ m_contracts'[c].compiler = Inputs(c)
      /\ \/ m_contracts'[c].metadata = m_contracts[c].metadata
         \/ m_contracts'[c].metadata = Inputs(c)
      /\ m_contracts'[c].object = m_contracts[c].object \/ m_contracts'[c].object = Inputs(c)
      /\ assembled => m_contracts'[c].object = Inputs(c)
      /\ m_contracts'[c].yulIR = m_contracts[c].yulIR
  BY <1>2, <1>4, <1>6 DEF Artifacts
<1>8. m_contracts' \in [DOMAIN m_contracts -> Artifacts]
  <2>1. m_contracts[c] \in Artifacts
    BY <1>2, <1>4
  <2>2. (~assembled /\ m_contracts[c].linked) \in BOOLEAN
    BY Zenon
  <2>3. [m_contracts[c] EXCEPT !.compiler = Inputs(c), !.metadata = metadata,
               !.object = IF assembled THEN Inputs(c) ELSE @,
               !.linked = ~assembled /\ @] \in Artifacts
    BY <1>5, <2>1, <2>2 DEF Artifacts
  <2>4. m_contracts' = [m_contracts EXCEPT ![c] = [m_contracts[c] EXCEPT
               !.compiler = Inputs(c), !.metadata = metadata,
               !.object = IF assembled THEN Inputs(c) ELSE @,
               !.linked = ~assembled /\ @]]
    BY <1>2, <1>4, <1>6, <2>1 DEF Artifacts
  <2> QED
    BY <1>2, <1>4, <2>3, <2>4
<1>9. ArtifactsAreCurrent'
  BY <1>1, <1>4, <1>7, ArtifactsChanged DEF IInv, settingVars
<1>10. CASE EndWith("exception") \/ EndWith("InternalCompilerError")
  <2>1. TypeOK'
    BY <1>1, <1>7, <1>10 DEF IInv, Typed, TypeOK, EndWith, settingVars
  <2>2. m_contracts' \in [DOMAIN m_contracts' -> Artifacts]
    BY <1>7, <1>8
  <2>3. /\ ~(m_stackState < ParsingSuccessful)
        /\ m_stackState >= ParsingSuccessful /\ DOMAIN m_sources = {} => Clean'
    BY <1>1, <1>2 DEF IInv, Analysed, Clean, Typed, TypeOK, Empty, ParsingSuccessful,
                      AnalysisSuccessful, CompilationSuccessful
  <2> QED
    BY <1>1, <1>7, <1>9, <1>10, <2>1, <2>2, <2>3, EndIInv
<1>11. CASE /\ assembled
            /\ GoTo("compile", [work EXCEPT !.stack = Pop(@), !.otherCompilers = @ \cup {c}])
  <2>1. /\ pc' = "compile" /\ call' = call /\ outcome' = outcome
        /\ work' = [work EXCEPT !.stack = stack, !.otherCompilers = @ \cup {c}]
    BY <1>1, <1>11 DEF GoTo, stack
  <2>2. /\ work'.next = work.next /\ work'.stage = work.stage /\ work'.stack = stack
        /\ work'.otherCompilers = work.otherCompilers \cup {c}
        /\ work' \in [next : 1..(Len(m_sourceOrder) + 1), stage : {"code", "ir"},
                      stack : Seq(ContractFrame), otherCompilers : SUBSET DOMAIN m_contracts]
    BY <1>2, <1>3, <1>4, <2>1
  <2>3. \A e : /\ contractDependencies(e)' = contractDependencies(e)
               /\ compiledContracts(e)' = compiledContracts(e)
               /\ isRequestedContract(e)' = isRequestedContract(e)
    BY <1>1, DependenciesKept
  <2>4. /\ \A i \in 1..n : work.stack[i].kind = "code" <=> work.stage = "ir"
        /\ work.stage = "ir" =>
             \A i \in 1..n :
                \A e \in contractDependencies(work.stack[i].contract) \cap Deployable :
                   \/ e \in work.stack[i].rest \cup work.otherCompilers
                   \/ i + 1 \in 1..n /\ e = work.stack[i + 1].contract
    BY <1>2, <1>3 DEF Compiling
  <2>5. n \in 1..n /\ n + 1 \notin 1..n /\ work.stack[n] = top /\ top.contract = c
    BY <1>3 DEF top, c
  <2>6. work.stage = "ir"
    BY <1>1, <2>4, <2>5
  <2>7. \A i \in DOMAIN stack : stack[i].kind = "code" <=> work.stage = "ir"
    BY <1>3, <2>4
  <2>8. ASSUME NEW i \in DOMAIN stack,
               NEW e \in contractDependencies(stack[i].contract) \cap Deployable
        PROVE  \/ e \in stack[i].rest \cup work'.otherCompilers
               \/ i + 1 \in DOMAIN stack /\ e = stack[i + 1].contract
    <3>1. /\ i \in 1..(n - 1) /\ i \in 1..n /\ stack[i] = work.stack[i]
          /\ i + 1 = n \/ (i + 1 \in 1..(n - 1) /\ stack[i + 1] = work.stack[i + 1])
      BY <1>3, <2>8
    <3> QED
      BY SMTT(30), <1>3, <2>2, <2>4, <2>5, <2>6, <2>8, <3>1
  <2>9. ASSUME NEW e \in work'.otherCompilers
        PROVE  /\ contractDependencies(e) \cap Deployable \subseteq work'.otherCompilers
               /\ compiledContracts(e) \subseteq work'.otherCompilers
               /\ m_contracts'[e].object # NotMade
    <3>1. CASE e = c
      <4>1. contractDependencies(c) \cap Deployable \subseteq work.otherCompilers
        BY <1>1, <2>4, <2>5, <2>6
      <4> QED
        BY <1>5, <1>6, <1>7, <1>11, <2>2, <3>1, <4>1
    <3>2. CASE e # c
      <4>1. e \in work.otherCompilers /\ e \in DOMAIN m_contracts
        BY <1>2, <2>2, <2>9, <3>2
      <4>2. /\ contractDependencies(e) \cap Deployable \subseteq work.otherCompilers
            /\ compiledContracts(e) \subseteq work.otherCompilers
            /\ m_contracts[e].object # NotMade
        BY <1>2, <4>1 DEF Compiling
      <4> QED
        BY <1>7, <2>2, <3>2, <4>1, <4>2
    <3> QED
      BY <3>1, <3>2
  <2>10. Called' = Called
    BY <1>1, <2>2 DEF Called
  <2>11. ASSUME NEW e \in Called \cap Declaring \cap Deployable, isRequestedContract(e)
         PROVE  \/ e \in work'.otherCompilers
                \/ work.stage = "ir" /\ stack # << >> /\ stack[1].contract = e
    <3>1. \/ e \in work.otherCompilers
          \/ work.stage = "ir" /\ work.stack # << >> /\ work.stack[1].contract = e
      BY <1>2, <2>11 DEF Compiling
    <3>2. n = 1 \/ (1 \in 1..(n - 1) /\ stack # << >>)
      BY <1>3
    <3> QED
      BY <1>3, <2>2, <2>5, <3>1, <3>2
  <2>12. Compiling'
    <3>1. work.stage = "ir" =>
             /\ work.next <= Len(m_sourceOrder)
             /\ m_sourceOrder[work.next] \in Declaring
             /\ isRequestedContract(m_sourceOrder[work.next])
      BY <1>2 DEF Compiling
    <3> QED
      BY <1>1, <2>2, <2>3, <2>7, <2>8, <2>9, <2>10, <2>11, <3>1 DEF Compiling
  <2> QED
    BY <1>1, <1>8, <1>9, <2>1, <2>2, <2>12, CompileStepIInv
<1> QED
  BY <1>6, <1>10, <1>11

\* generateIR returns or throws.
LEMMA GenerateIRIInv ==
    ASSUME IInv, GenerateIR
    PROVE  IInv'
<1> DEFINE n == Len(work.stack)
           top == work.stack[n]
           c == top.contract
           stack == Pop(work.stack)
<1>1. /\ pc = "compile" /\ work.stack # << >> /\ top.kind = "ir"
      /\ UNCHANGED <<m_stackState, m_sources, settingVars, m_sourceOrder, m_scopes, reporter>>
  BY DEF GenerateIR, Top
<1>2. /\ work \in [next : 1..(Len(m_sourceOrder) + 1), stage : {"code", "ir"},
                   stack : Seq(ContractFrame), otherCompilers : SUBSET DOMAIN m_contracts]
      /\ m_contracts \in [DOMAIN m_contracts -> Artifacts]
      /\ m_sources \in [DOMAIN m_sources -> [content : Contents, ast : BOOLEAN]]
      /\ m_settings \in Settings
      /\ DOMAIN m_contracts = DOMAIN m_sources \cap Declaring
      /\ Compiling
      /\ m_stackState >= AnalysisSuccessful
  BY <1>1, CompileFacts
<1>3. /\ n \in Nat /\ n > 0 /\ DOMAIN work.stack = 1..n /\ top \in ContractFrame
      /\ stack \in Seq(ContractFrame) /\ DOMAIN stack = 1..(n - 1)
      /\ \A i \in 1..(n - 1) : stack[i] = work.stack[i]
  BY <1>1, <1>2, PopFacts
<1>4. c \in DOMAIN m_contracts
  BY <1>3 DEF ContractFrame
<1>5. Inputs(c) \in Artifact
  BY <1>2, <1>4 DEF Inputs, Artifact
<1>6. \/ /\ m_contracts' = [m_contracts EXCEPT ![c].yulIR = Inputs(c)]
         /\ GoTo("compile", [work EXCEPT !.stack = stack])
      \/ EndWith("exception") /\ UNCHANGED m_contracts
  BY DEF GenerateIR, Top
<1> HIDE DEF n, top, c, stack
<1>7. CASE EndWith("exception") /\ UNCHANGED m_contracts
  <2>1. TypeOK'
    BY <1>1, <1>7 DEF IInv, Typed, TypeOK, EndWith, settingVars
  <2>2. ArtifactsAreCurrent'
    BY <1>1, <1>7, ArtifactsKept DEF IInv, settingVars
  <2>3. /\ ~(m_stackState < ParsingSuccessful)
        /\ m_stackState >= ParsingSuccessful /\ DOMAIN m_sources = {} => Clean'
    BY <1>1, <1>2 DEF IInv, Analysed, Clean, Typed, TypeOK, Empty, ParsingSuccessful,
                      AnalysisSuccessful, CompilationSuccessful
  <2> QED
    BY <1>1, <1>2, <1>7, <2>1, <2>2, <2>3, EndIInv
<1>8. CASE /\ m_contracts' = [m_contracts EXCEPT ![c].yulIR = Inputs(c)]
           /\ GoTo("compile", [work EXCEPT !.stack = stack])
  <2>1. /\ DOMAIN m_contracts' = DOMAIN m_contracts
        /\ \A d \in DOMAIN m_contracts \ {c} : m_contracts'[d] = m_contracts[d]
        /\ m_contracts'[c].compiler = m_contracts[c].compiler
        /\ m_contracts'[c].object = m_contracts[c].object
        /\ m_contracts'[c].metadata = m_contracts[c].metadata
        /\ m_contracts'[c].yulIR = Inputs(c)
    BY <1>2, <1>4, <1>8 DEF Artifacts
  <2>2. m_contracts' \in [DOMAIN m_contracts -> Artifacts]
    BY SMTT(30), <1>2, <1>4, <1>5, <1>8 DEF Artifacts
  <2>3. ArtifactsAreCurrent'
    BY <1>1, <1>4, <2>1, ArtifactsChanged DEF IInv, settingVars
  <2>4. /\ pc' = "compile" /\ call' = call /\ outcome' = outcome
        /\ work' = [work EXCEPT !.stack = stack]
    BY <1>1, <1>8 DEF GoTo
  <2>5. /\ work'.next = work.next /\ work'.stage = work.stage /\ work'.stack = stack
        /\ work'.otherCompilers = work.otherCompilers
        /\ work' \in [next : 1..(Len(m_sourceOrder) + 1), stage : {"code", "ir"},
                      stack : Seq(ContractFrame), otherCompilers : SUBSET DOMAIN m_contracts]
    BY <1>2, <1>3, <2>4
  <2>6. \A e : /\ contractDependencies(e)' = contractDependencies(e)
               /\ compiledContracts(e)' = compiledContracts(e)
               /\ isRequestedContract(e)' = isRequestedContract(e)
    BY <1>1, DependenciesKept
  <2>7. \A i \in 1..n : work.stack[i].kind = "code" <=> work.stage = "ir"
    BY <1>2, <1>3 DEF Compiling
  <2>8. work.stage = "code"
    <3>1. n \in 1..n /\ work.stack[n] = top
      BY <1>3 DEF top
    <3> QED
      BY <1>1, <1>2, <2>7, <3>1
  <2>9. \A i \in DOMAIN stack : stack[i].kind = "code" <=> work.stage = "ir"
    BY <1>3, <2>7
  <2>10. ASSUME NEW e \in work.otherCompilers
         PROVE  /\ contractDependencies(e) \cap Deployable \subseteq work.otherCompilers
                /\ compiledContracts(e) \subseteq work.otherCompilers
                /\ m_contracts'[e].object # NotMade
    <3>1. /\ contractDependencies(e) \cap Deployable \subseteq work.otherCompilers
          /\ compiledContracts(e) \subseteq work.otherCompilers
          /\ m_contracts[e].object # NotMade
      BY <1>2, <2>10 DEF Compiling
    <3>2. m_contracts'[e].object = m_contracts[e].object
      BY <1>2, <2>1, <2>10
    <3> QED
      BY <3>1, <3>2
  <2>11. Called' = Called
    BY <1>1, <2>5 DEF Called
  <2>12. \A e \in Called \cap Declaring \cap Deployable :
            isRequestedContract(e) => e \in work.otherCompilers
    BY <1>2, <2>8 DEF Compiling
  <2>13. Compiling'
    BY <1>1, <2>5, <2>6, <2>8, <2>9, <2>10, <2>11, <2>12 DEF Compiling
  <2> QED
    BY <1>1, <2>2, <2>3, <2>4, <2>5, <2>13, CompileStepIInv
<1> QED
  BY <1>6, <1>7, <1>8

\* compile() succeeds.
LEMMA EndCompileIInv ==
    ASSUME IInv, EndCompile
    PROVE  IInv'
<1> USE DEF Empty, SourcesSet, ParsingSuccessful, AnalysisSuccessful,
            CompilationSuccessful, settingVars, EndWith
<1>1. /\ pc = "compile" /\ pc' = "client" /\ call' = "none" /\ m_stackState' = CompilationSuccessful
      /\ UNCHANGED <<m_sources, settingVars, m_sourceOrder, m_scopes, reporter>>
      /\ m_contracts' = [c \in DOMAIN m_contracts |-> [m_contracts[c] EXCEPT !.linked = TRUE]]
  BY DEF EndCompile
<1>2. /\ m_contracts \in [DOMAIN m_contracts -> Artifacts]
      /\ m_stackState >= AnalysisSuccessful
  BY <1>1, CompileFacts
<1>3. /\ DOMAIN m_contracts' = DOMAIN m_contracts
      /\ \A c \in DOMAIN m_contracts :
            /\ m_contracts'[c].compiler = m_contracts[c].compiler
            /\ m_contracts'[c].object = m_contracts[c].object
            /\ m_contracts'[c].metadata = m_contracts[c].metadata
            /\ m_contracts'[c].yulIR = m_contracts[c].yulIR
  BY <1>1, <1>2 DEF Artifacts
<1>4. \A c \in DOMAIN m_contracts : [m_contracts[c] EXCEPT !.linked = TRUE] \in Artifacts
  <2>1. \A r \in Artifacts : [r EXCEPT !.linked = TRUE] \in Artifacts
    BY DEF Artifacts
  <2> QED
    BY <1>2, <2>1
<1>5. m_contracts' \in [DOMAIN m_contracts' -> Artifacts]
  BY <1>1, <1>4
<1>6. TypeOK'
  BY <1>1, <1>3 DEF IInv, Typed, TypeOK
<1>7. Typed'
  BY <1>1, <1>5, <1>6 DEF IInv, Typed
<1>8. ArtifactsAreCurrent'
  <2>1. \A d : Inputs(d)' = Inputs(d)
    BY <1>1 DEF Inputs
  <2> QED
    BY <1>3, <2>1 DEF IInv, ArtifactsAreCurrent
<1>9. Control'
  BY <1>1 DEF Control
<1>10. m_stackState >= ParsingSuccessful
  BY <1>2 DEF IInv, Typed, TypeOK
<1>11. Parsed'
  BY <1>1, <1>10 DEF IInv, Parsed, imports
<1>12. Sorted'
  BY <1>1, <1>2, OrderKept DEF IInv, Sorted
<1>13. Analysed'
  BY <1>1, <1>2, <1>3 DEF IInv, Analysed, Clean
<1> QED
  BY <1>1, <1>7, <1>8, <1>9, <1>11, <1>12, <1>13 DEF IInv, Compiled

-----------------------------------------------------------------------------
(* The theorems.                                                            *)

\* Every step keeps the invariant.
LEMMA NextIInv == IInv /\ [Next]_vars => IInv'
<1> SUFFICES ASSUME IInv, [Next]_vars PROVE IInv'
  OBVIOUS
<1>1. CASE ClientCall
  BY <1>1, SettersIInv, CallsIInv DEF ClientCall
<1>2. ASSUME NEW p \in Paths, ParseSource(p) \/ LoadImport(p) \/ SortRoot(p) \/ SortImport(p)
      PROVE  IInv'
  BY <1>2, ParseSourceIInv, LoadImportIInv, SortRootIInv, SortImportIInv
<1>3. CASE AddNewSources \/ EndParse
  BY <1>3, AddNewSourcesIInv, EndParseIInv
<1>4. CASE SortReturn \/ EndSort
  BY <1>4, SortReturnIInv, EndSortIInv
<1>5. CASE RunPass \/ RegisterDeclarationsAgain \/ EndAnalyze
  BY <1>5, RunPassIInv, RegisterDeclarationsAgainIInv, EndAnalyzeIInv
<1>6. CASE CompileNext \/ \E d \in Declaring : VisitDependency(d)
  BY <1>6, CompileNextIInv, VisitDependencyIInv
<1>7. CASE CompileContract \/ GenerateIR \/ EndCompile
  BY <1>7, CompileContractIInv, GenerateIRIInv, EndCompileIInv
<1>8. CASE UNCHANGED vars
  <2> USE <1>8 DEF vars, settingVars
  <2>1. Typed'
    BY DEF IInv, Typed, TypeOK, Frame, ContractFrame
  <2>2. Control' /\ Parsed' /\ Analysed'
    BY DEF IInv, Control, Parsed, Expected, Analysed, Clean, imports
  <2>3. Sorted'
    BY OrderKept, ImportsKept DEF IInv, Sorted, Sorting
  <2>4. ArtifactsAreCurrent'
    BY ArtifactsKept DEF IInv
  <2>5. Compiled'
    BY DependenciesKept DEF IInv, Compiled, Compiling, Called
  <2> QED
    BY <2>1, <2>2, <2>3, <2>4, <2>5 DEF IInv
<1> QED
  BY <1>1, <1>2, <1>3, <1>4, <1>5, <1>6, <1>7, <1>8 DEF Next, CompilerStep

\* The invariant holds in every reachable state.
LEMMA StackIInv == Spec => []IInv
BY InitIInv, NextIInv, PTL DEF Spec

\* After any calls, in any order, the state is of the type the code relies on;
\* a call is in progress exactly while it has a step left.
THEOREM StackTypeCorrect == Spec => []TypeOK
<1>1. IInv => TypeOK
  BY DEF IInv, Typed
<1> QED
  BY <1>1, StackIInv, PTL

\* Whatever the passes report and return, and however many errors an earlier
\* call has counted, a stack whose analysis succeeded has no error in its list.
THEOREM AnalysisIsClean == Spec => []AnalysedWithoutErrors
<1>1. IInv => AnalysedWithoutErrors
  BY DEF IInv, Analysed, Clean, AnalysedWithoutErrors
<1> QED
  BY <1>1, StackIInv, PTL

\* Whatever the read callback answers, after a successful parse() every source
\* has its AST and its imports, and after analyze() every contract its entry.
THEOREM ParsingIsComplete == Spec => []ParsedIsComplete
<1>1. IInv => ParsedIsComplete
  BY DEF IInv, Parsed, Analysed, ParsedIsComplete, imports
<1> QED
  BY <1>1, StackIInv, PTL

\* No sequence of resets, reconfigurations, failures and compilations leaves an
\* artifact made from a text or from settings that are no longer set.
THEOREM NoStaleArtifacts == Spec => []ArtifactsAreCurrent
<1>1. IInv => ArtifactsAreCurrent
  BY DEF IInv
<1> QED
  BY <1>1, StackIInv, PTL

\* resolveImports lists every source once, after all that it imports except for
\* what imports it in turn, whatever the import graph and the order of visits.
THEOREM SourcesAreSorted == Spec => []OrderRespectsImports
<1>1. ASSUME IInv
      PROVE  OrderRespectsImports
  <2> SUFFICES ASSUME m_stackState >= AnalysisSuccessful
               PROVE  /\ {m_sourceOrder[k] : k \in DOMAIN m_sourceOrder} = DOMAIN m_sources
                      /\ Len(m_sourceOrder) = Cardinality(DOMAIN m_sources)
                      /\ \A p \in DOMAIN m_sources : \A q \in m_sources[p].content.imports :
                            p \notin ImportedBy(q) => Position(q) < Position(p)
    BY DEF OrderRespectsImports
  <2> DEFINE n == Len(m_sourceOrder)
  <2>1. /\ m_sourceOrder \in Seq(DOMAIN m_sources)
        /\ {m_sourceOrder[k] : k \in DOMAIN m_sourceOrder} = DOMAIN m_sources
        /\ InOrder(m_sourceOrder)
    BY <1>1 DEF IInv, Sorted
  <2>2. n \in Nat /\ DOMAIN m_sourceOrder = 1..n /\ m_sourceOrder \in [1..n -> DOMAIN m_sources]
    BY <2>1
  <2>3. \A j, k \in 1..n : m_sourceOrder[j] = m_sourceOrder[k] => j = k
    BY <2>1, <2>2 DEF InOrder
  <2> HIDE DEF n
  <2>4. n = Cardinality(DOMAIN m_sources)
    <3>1. \A p \in DOMAIN m_sources : \E k \in 1..n : m_sourceOrder[k] = p
      BY <2>1, <2>2
    <3>2. m_sourceOrder \in Bijection(1..n, DOMAIN m_sources)
      BY <2>2, <2>3, <3>1, Fun_IsBij
    <3>3. ExistsBijection(1..n, DOMAIN m_sources)
      BY <3>2 DEF ExistsBijection
    <3> QED
      BY <2>2, <3>3, FS_CountingElements
  <2>5. ASSUME NEW k \in 1..n
        PROVE  Position(m_sourceOrder[k]) = k
    BY <2>3, <2>5 DEF Position, n
  <2>6. ASSUME NEW p \in DOMAIN m_sources, NEW q \in m_sources[p].content.imports,
               p \notin ImportedBy(q)
        PROVE  Position(q) < Position(p)
    <3>1. PICK k \in 1..n : m_sourceOrder[k] = p
      BY <2>1, <2>2
    <3>2. PICK j \in 1..(k - 1) : m_sourceOrder[j] = q
      BY <2>1, <2>2, <2>6, <3>1 DEF InOrder, imports
    <3>3. j \in 1..n /\ j < k
      BY <2>2, <3>1, <3>2
    <3>4. Position(p) = k /\ Position(q) = j
      BY <2>5, <3>1, <3>2, <3>3
    <3> QED
      BY <3>3, <3>4
  <2> QED
    BY <2>1, <2>4, <2>6 DEF n
<1> QED
  BY <1>1, StackIInv, PTL

\* The steps that other calls of the client, or other stages, take.
LEMMA CompileSteps ==
    ASSUME IInv, pc = "compile", [Next]_vars
    PROVE  \/ CompileNext \/ (\E d \in Declaring : VisitDependency(d)) \/ CompileContract
           \/ GenerateIR \/ EndCompile \/ UNCHANGED vars
<1>1. call # "none"
  BY DEF IInv, Typed, TypeOK
<1>2. ~ClientCall
  BY <1>1 DEF ClientCall, SetSources, Configure, SetRequestedContractNames, EnableIRGeneration,
              Reset, Parse, ParseAndAnalyze, Analyze, Compile
<1>3. ~\E p \in Paths : ParseSource(p) \/ LoadImport(p) \/ SortRoot(p) \/ SortImport(p)
  BY DEF ParseSource, LoadImport, SortRoot, SortImport
<1>4. ~(AddNewSources \/ EndParse \/ SortReturn \/ EndSort \/ RunPass
          \/ RegisterDeclarationsAgain \/ EndAnalyze)
  BY DEF AddNewSources, EndParse, SortReturn, EndSort, RunPass, RegisterDeclarationsAgain,
         EndAnalyze
<1> QED
  BY <1>2, <1>3, <1>4 DEF Next, CompilerStep

-----------------------------------------------------------------------------
(* A contract is compiled once.                                             *)

\* The pending calls: each is for a dependency of the one below it, and none of
\* compileContract is for a contract that has been compiled since it began.
PendingCalls(stack, otherCompilers) ==
    /\ \A i \in DOMAIN stack : stack[i].rest \subseteq contractDependencies(stack[i].contract)
    /\ \A i \in DOMAIN stack : i + 1 \in DOMAIN stack =>
          stack[i + 1].contract \in contractDependencies(stack[i].contract)
    /\ \A i \in DOMAIN stack : stack[i].kind = "code" => stack[i].contract \notin otherCompilers

Pending == pc = "compile" => PendingCalls(work.stack, work.otherCompilers)

\* No contract depends on itself: none has two pending calls.
LEMMA PendingCallsDiffer ==
    ASSUME NEW stack \in Seq(ContractFrame),
           \A i \in DOMAIN stack : i + 1 \in DOMAIN stack =>
              stack[i + 1].contract \in contractDependencies(stack[i].contract),
           NEW i \in DOMAIN stack, NEW j \in DOMAIN stack, i < j
    PROVE  stack[i].contract # stack[j].contract
<1> SUFFICES ASSUME stack[i].contract = stack[j].contract  PROVE FALSE
  OBVIOUS
<1> DEFINE n == Len(stack)
           S == {stack[k].contract : k \in i..j}
<1>1. n \in Nat /\ DOMAIN stack = 1..n /\ i \in 1..n /\ j \in 1..n
  OBVIOUS
<1>2. \A k \in i..j : k \in DOMAIN stack /\ stack[k].contract \in Declaring
  <2>1. \A k \in 1..n : stack[k] \in ContractFrame
    BY <1>1
  <2>2. \A k \in 1..n : stack[k].contract \in Deployable
    BY <2>1 DEF ContractFrame
  <2>3. i..j \subseteq 1..n
    BY <1>1
  <2> QED
    BY <1>1, <2>2, <2>3, StackAssumption
<1>3. S \in SUBSET Declaring /\ stack[i].contract \in S
  BY <1>1, <1>2
<1>4. PICK c \in S : (Bases[c] \cup Creates[c]) \cap S = {}
  <2> HIDE DEF S
  <2> QED  BY <1>3, StackAssumption
<1>5. PICK k \in i..j : c = stack[k].contract
  BY <1>4
<1>6. \A m \in i..(j - 1) : stack[m + 1].contract \in contractDependencies(stack[m].contract)
                            /\ stack[m + 1].contract \in S
  <2>1. \A m \in i..(j - 1) : m + 1 \in i..j /\ m \in i..j
    BY <1>1
  <2> QED
    BY <1>2, <2>1
<1>7. \E m \in i..(j - 1) : stack[m].contract = c
  <2>1. CASE k = j
    BY <1>1, <1>5, <2>1
  <2>2. CASE k # j
    BY <1>1, <1>5, <2>2
  <2> QED
    BY <2>1, <2>2
<1> QED
  BY <1>4, <1>6, <1>7 DEF contractDependencies

\* compile() begins its work in one way.
LEMMA CompileBegins ==
    ASSUME IInv, [Next]_vars, pc # "compile", pc' = "compile"
    PROVE  work' = NewCompilation
<1>1. CASE ClientCall
  BY <1>1 DEF ClientCall, SetSources, Configure, SetRequestedContractNames, EnableIRGeneration,
              Reset, Parse, ParseAndAnalyze, Analyze, Compile, BeginParse, Refuse, EndWith
<1>2. ASSUME NEW p \in Paths, ParseSource(p) \/ LoadImport(p) \/ SortRoot(p) \/ SortImport(p)
      PROVE  FALSE
  <2>1. CASE ParseSource(p)
    BY <2>1 DEF ParseSource, GoTo, EndWith
  <2>2. CASE LoadImport(p)
    BY <2>2 DEF LoadImport, GoTo, EndWith
  <2>3. CASE SortRoot(p) \/ SortImport(p)
    BY <2>3 DEF SortRoot, SortImport, GoTo
  <2> QED
    BY <1>2, <2>1, <2>2, <2>3
<1>3. ~(AddNewSources \/ EndParse \/ SortReturn \/ EndSort)
  BY DEF AddNewSources, EndParse, SortReturn, EndSort, GoTo, EndWith
<1>4. ~(RunPass \/ RegisterDeclarationsAgain)
  BY DEF RunPass, RegisterDeclarationsAgain, GoTo, EndWith
<1>5. CASE EndAnalyze
  BY <1>5 DEF EndAnalyze, GoTo, EndWith
<1>6. ~(CompileNext \/ (\E d \in Declaring : VisitDependency(d)) \/ CompileContract
          \/ GenerateIR \/ EndCompile)
  BY DEF CompileNext, VisitDependency, CompileContract, GenerateIR, EndCompile
<1>7. ~UNCHANGED vars
  BY DEF vars
<1> QED
  BY <1>1, <1>2, <1>3, <1>4, <1>5, <1>6, <1>7 DEF Next, CompilerStep

LEMMA CompileNextPending ==
    ASSUME IInv, Pending, CompileNext
    PROVE  Pending'
<1> DEFINE c == m_sourceOrder[work.next]
<1>1. /\ pc = "compile" /\ work.stack = << >>
      /\ UNCHANGED <<m_sources, settingVars>>
  BY DEF CompileNext
<1>2. /\ work \in [next : 1..(Len(m_sourceOrder) + 1), stage : {"code", "ir"},
                   stack : Seq(ContractFrame), otherCompilers : SUBSET DOMAIN m_contracts]
      /\ DOMAIN m_contracts = DOMAIN m_sources \cap Declaring
      /\ m_sourceOrder \in Seq(DOMAIN m_sources)
  BY <1>1, CompileFacts
<1>3. \A d : contractDependencies(d)' = contractDependencies(d)
  BY <1>1, DependenciesKept
<1>4. c \in DOMAIN m_sources
  BY <1>2 DEF CompileNext
<1>5. /\ work'.otherCompilers = work.otherCompilers
      /\ \/ work'.stack = << >>
         \/ c \in Declaring /\ work'.stack = Enter("code", c, << >>, work.otherCompilers)
         \/ c \in Declaring /\ work'.stack = Enter("ir", c, << >>, {})
  BY <1>1, <1>2 DEF CompileNext, GoTo
<1>6. CASE work'.stack = << >>
  BY <1>6 DEF Pending, PendingCalls
<1>7. ASSUME NEW kind \in {"code", "ir"},
             work'.stack = Append(<< >>, NewFrame(kind, c)),
             NewFrame(kind, c) \in ContractFrame,
             kind = "code" => c \notin work.otherCompilers
      PROVE  Pending'
  <2>1. DOMAIN work'.stack = {1} /\ work'.stack[1] = NewFrame(kind, c)
    BY <1>7, SingleFrame
  <2>2. 1 + 1 \notin DOMAIN work'.stack
    BY <2>1
  <2> QED
    BY <1>3, <1>5, <1>7, <2>1, <2>2 DEF Pending, PendingCalls, NewFrame
<1>8. << >> \in Seq(ContractFrame)
  OBVIOUS
<1>9. CASE c \in Declaring /\ work'.stack = Enter("code", c, << >>, work.otherCompilers)
  <2>1. \/ Enter("code", c, << >>, work.otherCompilers) = << >>
        \/ /\ Enter("code", c, << >>, work.otherCompilers) = Append(<< >>, NewFrame("code", c))
           /\ NewFrame("code", c) \in ContractFrame
           /\ c \notin work.otherCompilers
    <3>1. "code" \in {"code", "ir"} /\ c \in DOMAIN m_contracts
      BY <1>2, <1>4, <1>9
    <3> HIDE DEF c
    <3> QED  BY <1>2, <1>8, <3>1, EnterCases, Zenon
  <2> HIDE DEF c
  <2> QED
    BY <1>6, <1>7, <1>9, <2>1
<1>10. CASE c \in Declaring /\ work'.stack = Enter("ir", c, << >>, {})
  <2>1. \/ Enter("ir", c, << >>, {}) = << >>
        \/ /\ Enter("ir", c, << >>, {}) = Append(<< >>, NewFrame("ir", c))
           /\ NewFrame("ir", c) \in ContractFrame
    <3>1. "ir" \in {"code", "ir"} /\ c \in DOMAIN m_contracts
      BY <1>2, <1>4, <1>10
    <3> HIDE DEF c
    <3> QED  BY <1>2, <1>8, <3>1, EnterCases, Zenon
  <2> HIDE DEF c
  <2> QED
    BY <1>6, <1>7, <1>10, <2>1
<1> QED
  BY <1>5, <1>6, <1>9, <1>10

LEMMA VisitDependencyPending ==
    ASSUME IInv, Pending, NEW d, VisitDependency(d)
    PROVE  Pending'
<1> DEFINE n == Len(work.stack)
           top == work.stack[n]
           left == [top EXCEPT !.rest = @ \ {d}]
           base == SetTop(work.stack, left)
           stack == Enter(top.kind, d, base, work.otherCompilers)
           new == NewFrame(top.kind, d)
<1>1. /\ pc = "compile" /\ work.stack # << >> /\ UNCHANGED <<m_sources, settingVars>>
      /\ work' = [work EXCEPT !.stack = stack] /\ d \in top.rest
  BY DEF VisitDependency, GoTo, Top
<1>2. /\ work \in [next : 1..(Len(m_sourceOrder) + 1), stage : {"code", "ir"},
                   stack : Seq(ContractFrame), otherCompilers : SUBSET DOMAIN m_contracts]
      /\ DOMAIN m_contracts = DOMAIN m_sources \cap Declaring
  BY <1>1, CompileFacts
<1>3. work.stack \in Seq(ContractFrame) /\ n \in Nat /\ n > 0 /\ DOMAIN work.stack = 1..n
  BY <1>1, <1>2
<1>4. top \in ContractFrame
  BY <1>3
<1>5. /\ left \in ContractFrame /\ left.kind = top.kind /\ left.contract = top.contract
      /\ left.rest \subseteq top.rest /\ d \in DOMAIN m_contracts /\ top.kind \in {"code", "ir"}
  BY <1>1, <1>4 DEF ContractFrame
<1> HIDE DEF left
<1>6. /\ base \in Seq(ContractFrame) /\ DOMAIN base = 1..n /\ Len(base) = n /\ base[n] = left
      /\ \A i \in 1..(n - 1) : base[i] = work.stack[i]
  <2>1. work.stack \in Seq(ContractFrame) /\ work.stack # << >> /\ left \in ContractFrame
    BY <1>1, <1>3, <1>5
  <2>2. base \in Seq(ContractFrame)
    BY <2>1, StackSetTop
  <2>3. Len(base) = Len(work.stack)
    BY <2>1, StackSetTop
  <2>4. base[Len(work.stack)] = left
    BY <2>1, StackSetTop
  <2>5. \A i \in 1..(n - 1) : base[i] = work.stack[i]
    BY <1>3 DEF SetTop
  <2> HIDE DEF base
  <2>6. DOMAIN base = 1..Len(base)
    BY <2>2
  <2> QED
    BY <1>3, <2>2, <2>3, <2>4, <2>5, <2>6
<1>7. PendingCalls(work.stack, work.otherCompilers)
  BY <1>1 DEF Pending
<1>8. /\ \A i \in 1..n : base[i].rest \subseteq contractDependencies(base[i].contract)
      /\ \A i \in 1..n : i + 1 \in 1..n => base[i + 1].contract \in contractDependencies(base[i].contract)
      /\ \A i \in 1..n : base[i].kind = "code" => base[i].contract \notin work.otherCompilers
      /\ d \in contractDependencies(base[n].contract)
  <2>1. \A i \in 1..n : /\ base[i].kind = work.stack[i].kind
                        /\ base[i].contract = work.stack[i].contract
                        /\ base[i].rest \subseteq work.stack[i].rest
    <3>1. \A i \in 1..n : i \in 1..(n - 1) \/ i = n
      BY <1>3
    <3> HIDE DEF base, n
    <3> QED
      BY <1>5, <1>6, <3>1
  <2>2. n \in 1..n
    BY <1>3
  <2> HIDE DEF base, n
  <2> QED
    BY <1>1, <1>3, <1>7, <2>1, <2>2 DEF PendingCalls
<1>9. \A e : contractDependencies(e)' = contractDependencies(e)
  BY <1>1, DependenciesKept
<1>10. work'.stack = stack /\ work'.otherCompilers = work.otherCompilers
  BY <1>1, <1>2
<1> HIDE DEF base
<1>11. \/ stack = base
       \/ /\ stack = Append(base, new) /\ new \in ContractFrame
          /\ top.kind = "code" => d \notin work.otherCompilers
  BY <1>2, <1>5, <1>6, EnterCases
<1> HIDE DEF stack, n
<1>12. CASE stack = base
  BY <1>6, <1>8, <1>9, <1>10, <1>12 DEF Pending, PendingCalls
<1>13. CASE /\ stack = Append(base, new) /\ new \in ContractFrame
            /\ top.kind = "code" => d \notin work.otherCompilers
  <2>1. new.kind = top.kind /\ new.contract = d /\ new.rest = contractDependencies(d)
    BY DEF NewFrame
  <2> HIDE DEF new
  <2>2. /\ DOMAIN stack = 1..(n + 1) /\ stack[n + 1] = new
        /\ \A i \in 1..n : stack[i] = base[i]
    BY <1>3, <1>6, <1>13
  <2>3. \A i \in 1..(n + 1) : i \in 1..n \/ i = n + 1
    BY <1>3
  <2>4. \A i \in 1..(n + 1) : i + 1 \in 1..(n + 1) => i \in 1..n /\ (i + 1 \in 1..n \/ i = n)
    BY <1>3
  <2>5. \A i \in 1..(n + 1) : stack[i].rest \subseteq contractDependencies(stack[i].contract)
    BY <1>8, <2>1, <2>2, <2>3
  <2>6. \A i \in 1..(n + 1) : i + 1 \in 1..(n + 1) =>
           stack[i + 1].contract \in contractDependencies(stack[i].contract)
    <3> SUFFICES ASSUME NEW i \in 1..(n + 1), i + 1 \in 1..(n + 1)
                 PROVE  stack[i + 1].contract \in contractDependencies(stack[i].contract)
      OBVIOUS
    <3>1. CASE i + 1 \in 1..n
      BY <1>8, <2>2, <2>4, <3>1
    <3>2. CASE i = n
      BY <1>8, <2>1, <2>2, <2>4, <3>2
    <3> QED
      BY <2>4, <3>1, <3>2
  <2>7. \A i \in 1..(n + 1) : stack[i].kind = "code" => stack[i].contract \notin work.otherCompilers
    BY <1>8, <1>13, <2>1, <2>2, <2>3
  <2> QED
    BY <1>9, <1>10, <2>2, <2>5, <2>6, <2>7 DEF Pending, PendingCalls
<1> QED
  BY <1>11, <1>12, <1>13

\* A call that returns leaves those below it, and what it has compiled is none of theirs.
LEMMA PopPending ==
    ASSUME IInv, Pending, pc = "compile", work.stack # << >>, UNCHANGED <<m_sources, settingVars>>,
           work'.stack = Pop(work.stack),
           work'.otherCompilers \subseteq
               work.otherCompilers \cup {work.stack[Len(work.stack)].contract}
    PROVE  Pending'
<1> DEFINE n == Len(work.stack)
           stack == Pop(work.stack)
<1>1. work \in [next : 1..(Len(m_sourceOrder) + 1), stage : {"code", "ir"},
                stack : Seq(ContractFrame), otherCompilers : SUBSET DOMAIN m_contracts]
  BY CompileFacts
<1>2. /\ n \in Nat /\ n > 0 /\ DOMAIN work.stack = 1..n
      /\ DOMAIN stack = 1..(n - 1)
      /\ \A i \in 1..(n - 1) : stack[i] = work.stack[i]
  BY <1>1, PopFacts
<1>3. PendingCalls(work.stack, work.otherCompilers)
  BY DEF Pending
<1>4. \A e : contractDependencies(e)' = contractDependencies(e)
  BY DependenciesKept
<1>5. \A i \in 1..(n - 1) : /\ i \in 1..n /\ i < n /\ n \in 1..n
                            /\ i + 1 \in 1..(n - 1) => i + 1 \in 1..n
  BY <1>2
<1>6. \A i \in 1..(n - 1) : work.stack[i].contract # work.stack[n].contract
  <2>1. /\ work.stack \in Seq(ContractFrame)
        /\ \A i \in DOMAIN work.stack : i + 1 \in DOMAIN work.stack =>
              work.stack[i + 1].contract \in contractDependencies(work.stack[i].contract)
    BY <1>1, <1>3 DEF PendingCalls
  <2> HIDE DEF n
  <2> QED
    BY <1>2, <1>5, <2>1, PendingCallsDiffer
<1> HIDE DEF n, stack
<1>7. \A i \in 1..(n - 1) : stack[i].kind = "code" => stack[i].contract \notin work'.otherCompilers
  <2> SUFFICES ASSUME NEW i \in 1..(n - 1), stack[i].kind = "code"
               PROVE  stack[i].contract \notin work'.otherCompilers
    OBVIOUS
  <2>1. stack[i] = work.stack[i] /\ i \in DOMAIN work.stack
    BY <1>2, <1>5
  <2>2. work.stack[i].contract \notin work.otherCompilers
    BY <1>3, <2>1 DEF PendingCalls
  <2>3. work.stack[i].contract # work.stack[Len(work.stack)].contract
    BY <1>6 DEF n
  <2> QED
    BY <2>1, <2>2, <2>3
<1>8. \A i \in 1..(n - 1) : stack[i].rest \subseteq contractDependencies(stack[i].contract)
  BY <1>2, <1>3, <1>5 DEF PendingCalls
<1>9. \A i \in 1..(n - 1) : i + 1 \in 1..(n - 1) =>
         stack[i + 1].contract \in contractDependencies(stack[i].contract)
  BY <1>2, <1>3, <1>5 DEF PendingCalls
<1> QED
  BY <1>2, <1>4, <1>7, <1>8, <1>9 DEF Pending, PendingCalls, stack

LEMMA PendingStep ==
    ASSUME IInv, Pending, [Next]_vars
    PROVE  Pending'
<1>1. CASE pc # "compile"
  <2>1. pc' = "compile" => work'.stack = << >>
    BY <1>1, CompileBegins DEF NewCompilation
  <2> QED
    BY <2>1 DEF Pending, PendingCalls
<1>2. CASE pc = "compile"
  <2>1. CASE CompileNext
    BY <2>1, CompileNextPending
  <2>2. CASE \E d \in Declaring : VisitDependency(d)
    BY <2>2, VisitDependencyPending
  <2>3. work \in [next : 1..(Len(m_sourceOrder) + 1), stage : {"code", "ir"},
                  stack : Seq(ContractFrame), otherCompilers : SUBSET DOMAIN m_contracts]
    BY <1>2, CompileFacts
  <2>4. CASE CompileContract
    <3>1. work.stack # << >> /\ UNCHANGED <<m_sources, settingVars>>
      BY <2>4 DEF CompileContract
    <3>2. CASE pc' = "compile"
      <4>1. work' = [work EXCEPT !.stack = Pop(@),
                       !.otherCompilers = @ \cup {work.stack[Len(work.stack)].contract}]
        BY <2>4, <3>2 DEF CompileContract, Top, GoTo, EndWith
      <4> QED
        BY <1>2, <2>3, <3>1, <4>1, PopPending
    <3> QED
      BY <3>2 DEF Pending
  <2>5. CASE GenerateIR
    <3>1. work.stack # << >> /\ UNCHANGED <<m_sources, settingVars>>
      BY <2>5 DEF GenerateIR
    <3>2. CASE pc' = "compile"
      <4>1. work' = [work EXCEPT !.stack = Pop(@)]
        BY <2>5, <3>2 DEF GenerateIR, GoTo, EndWith
      <4> QED
        BY <1>2, <2>3, <3>1, <4>1, PopPending
    <3> QED
      BY <3>2 DEF Pending
  <2>6. CASE EndCompile
    BY <2>6 DEF EndCompile, EndWith, Pending
  <2>7. CASE UNCHANGED vars
    <3>1. \A e : contractDependencies(e)' = contractDependencies(e)
      BY <2>7, DependenciesKept DEF vars, settingVars
    <3> QED
      BY <1>2, <2>7, <3>1 DEF Pending, PendingCalls, vars
  <2> QED
    BY <1>2, <2>1, <2>2, <2>4, <2>5, <2>6, <2>7, CompileSteps
<1> QED
  BY <1>1, <1>2

LEMMA StackPending == Spec => []Pending
<1>1. Init => Pending
  BY DEF Init, Pending
<1> QED
  BY <1>1, StackIInv, PendingStep, PTL DEF Spec

\* A contract is compiled at most once per compile(), and after all that it depends
\* on and that can be deployed, however the contracts derive from, create and import
\* each other.
THEOREM CompiledInOrder == Spec => DependenciesFirst
<1> DEFINE Step ==
      CompileContract =>
          LET c == Top(work.stack).contract
          IN /\ c \notin work.otherCompilers
             /\ contractDependencies(c) \cap Deployable \subseteq work.otherCompilers
<1>1. ASSUME IInv, Pending
      PROVE  Step
  <2> SUFFICES ASSUME CompileContract
               PROVE  LET c == Top(work.stack).contract
                      IN /\ c \notin work.otherCompilers
                         /\ contractDependencies(c) \cap Deployable \subseteq work.otherCompilers
    OBVIOUS
  <2> DEFINE n == Len(work.stack)
             top == work.stack[n]
  <2>1. /\ pc = "compile" /\ work.stack # << >> /\ Top(work.stack) = top
        /\ top.kind = "code" /\ top.rest = {}
    BY DEF CompileContract, Top
  <2>2. /\ work \in [next : 1..(Len(m_sourceOrder) + 1), stage : {"code", "ir"},
                     stack : Seq(ContractFrame), otherCompilers : SUBSET DOMAIN m_contracts]
        /\ Compiling
    BY <1>1, <2>1, CompileFacts
  <2>3. n \in 1..n /\ n + 1 \notin 1..n /\ DOMAIN work.stack = 1..n
    BY <2>1, <2>2
  <2> HIDE DEF n
  <2>4. work.stage = "ir"
    BY <2>1, <2>2, <2>3 DEF Compiling
  <2>5. \A e \in contractDependencies(top.contract) \cap Deployable :
           \/ e \in top.rest \cup work.otherCompilers
           \/ n + 1 \in DOMAIN work.stack /\ e = work.stack[n + 1].contract
    BY <2>2, <2>3, <2>4 DEF Compiling
  <2>6. top.contract \notin work.otherCompilers
    BY <1>1, <2>1, <2>3 DEF Pending, PendingCalls
  <2> QED
    BY <2>1, <2>3, <2>5, <2>6
<1>2. [][Step]_vars => DependenciesFirst
  BY PTL DEF DependenciesFirst
<1> QED
  BY <1>1, <1>2, StackIInv, StackPending, PTL DEF Spec

\* Only the last step of compile() makes it return true.
LEMMA TrueFromEndCompile ==
    ASSUME IInv, [Next]_vars, call = "compile", outcome' = "true"
    PROVE  EndCompile
<1>1. outcome = "none" /\ pc # "client"
  BY DEF IInv, Control, Typed, TypeOK
<1>2. ~ClientCall
  BY DEF ClientCall, SetSources, Configure, SetRequestedContractNames, EnableIRGeneration,
         Reset, Parse, ParseAndAnalyze, Analyze, Compile
<1>3. ASSUME NEW p \in Paths, ParseSource(p) \/ LoadImport(p) \/ SortRoot(p) \/ SortImport(p)
      PROVE  FALSE
  <2>1. CASE ParseSource(p)
    BY <1>1, <2>1 DEF ParseSource, GoTo, EndWith
  <2>2. CASE LoadImport(p)
    BY <1>1, <2>2 DEF LoadImport, GoTo, EndWith
  <2>3. CASE SortRoot(p) \/ SortImport(p)
    BY <1>1, <2>3 DEF SortRoot, SortImport, GoTo
  <2> QED
    BY <1>3, <2>1, <2>2, <2>3
<1>4. ~(AddNewSources \/ EndParse \/ SortReturn \/ EndSort)
  BY <1>1 DEF AddNewSources, EndParse, SortReturn, EndSort, GoTo, EndWith
<1>5. ~(RunPass \/ RegisterDeclarationsAgain \/ EndAnalyze)
  BY <1>1 DEF RunPass, RegisterDeclarationsAgain, EndAnalyze, GoTo, EndWith
<1>6. ~(CompileNext \/ \E d \in Declaring : VisitDependency(d))
  BY <1>1 DEF CompileNext, VisitDependency, GoTo
<1>7. ~(CompileContract \/ GenerateIR)
  BY <1>1 DEF CompileContract, GenerateIR, GoTo, EndWith
<1>8. ~UNCHANGED vars
  BY <1>1 DEF vars
<1> QED
  BY <1>2, <1>3, <1>4, <1>5, <1>6, <1>7, <1>8 DEF Next, CompilerStep

\* The compiled contracts and their bases are closed under dependencies: what
\* the code of a base needs is compiled with the contracts that derive from it.
LEMMA NeededIsCompiled ==
    ASSUME IInv, pc = "compile", NEW c \in work.otherCompilers
    PROVE  Needed(c) \cap Deployable \subseteq work.otherCompilers
<1> DEFINE others == work.otherCompilers
           S == others \cup UNION {Bases[e] \cap ImportedBy(e) : e \in others}
<1>1. /\ DOMAIN m_contracts = DOMAIN m_sources \cap Declaring /\ others \subseteq DOMAIN m_contracts
      /\ \A p \in DOMAIN m_sources : imports(p) \subseteq DOMAIN m_sources
      /\ Compiling
  BY CompileFacts
<1>2. \A e \in others :
         /\ contractDependencies(e) \cap Deployable \subseteq others
         /\ compiledContracts(e) \subseteq others
  BY <1>1 DEF Compiling
<1> HIDE DEF others
<1>3. S \subseteq Declaring
  BY <1>1, StackAssumption
<1>4. ASSUME NEW e \in others
      PROVE  contractDependencies(e) \subseteq S
  <2>1. Creates[e] \cap ImportedBy(e) \subseteq others
    BY <1>1, <1>2, <1>4, StackAssumption DEF contractDependencies
  <2> QED
    BY <1>4, <2>1 DEF contractDependencies
<1>5. ASSUME NEW e \in others, NEW b \in Bases[e] \cap ImportedBy(e), b \in DOMAIN m_sources
      PROVE  contractDependencies(b) \subseteq S
  <2>1. Bases[b] \subseteq Bases[e]
    BY <1>1, <1>5, StackAssumption
  <2>2. ImportedBy(b) \subseteq ImportedBy(e)
    BY <1>1, <1>5, ImportedByClosed
  <2>3. Creates[b] \cap ImportedBy(b) \subseteq others
    BY <1>2, <1>5 DEF compiledContracts, linearizedBaseContracts
  <2> QED
    BY <1>5, <2>1, <2>2, <2>3 DEF contractDependencies
<1>6. c \in S /\ \A e \in S \cap DOMAIN m_sources : contractDependencies(e) \subseteq S
  BY <1>4, <1>5 DEF others
<1>7. Needed(c) \subseteq S
  BY <1>3, <1>6 DEF Needed
<1>8. S \cap Deployable \subseteq others
  BY <1>2 DEF contractDependencies
<1> QED
  BY <1>7, <1>8 DEF others

\* When compile() returns true, everything the client asked for is there and
\* linked, in whatever order the contracts were met and whatever was left from
\* an earlier compile().
THEOREM CompileIsComplete == Spec => CompileDelivers
<1> DEFINE Delivers ==
      call = "compile" /\ outcome' = "true" =>
          \A c \in DOMAIN m_contracts : isRequestedContract(c) /\ c \in Deployable =>
              \A d \in Needed(c) \cap Deployable :
                  m_contracts'[d].object # NotMade /\ m_contracts'[d].linked
<1>1. ASSUME IInv, [Next]_vars
      PROVE  [Delivers]_vars
  <2> SUFFICES ASSUME call = "compile", outcome' = "true",
                      NEW c \in DOMAIN m_contracts, isRequestedContract(c), c \in Deployable,
                      NEW d \in Needed(c) \cap Deployable
               PROVE  m_contracts'[d].object # NotMade /\ m_contracts'[d].linked
    OBVIOUS
  <2>1. EndCompile
    BY <1>1, TrueFromEndCompile
  <2>2. pc = "compile" /\ work.stack = << >> /\ work.next = Len(m_sourceOrder) + 1
    BY <2>1 DEF EndCompile
  <2>3. /\ m_contracts \in [DOMAIN m_contracts -> Artifacts]
        /\ work \in [next : 1..(Len(m_sourceOrder) + 1), stage : {"code", "ir"},
                     stack : Seq(ContractFrame), otherCompilers : SUBSET DOMAIN m_contracts]
        /\ DOMAIN m_contracts = DOMAIN m_sources \cap Declaring
        /\ m_sourceOrder \in Seq(DOMAIN m_sources)
        /\ {m_sourceOrder[k] : k \in DOMAIN m_sourceOrder} = DOMAIN m_sources
        /\ Compiling
    BY <1>1, <2>2, CompileFacts
  <2>4. c \in Called
    <3>1. PICK k \in DOMAIN m_sourceOrder : m_sourceOrder[k] = c
      BY <2>3
    <3>2. k < work.next
      BY <2>2, <2>3
    <3> QED
      BY <3>1, <3>2 DEF Called
  <2>5. c \in work.otherCompilers
    BY <2>2, <2>3, <2>4 DEF Compiling
  <2>6. d \in work.otherCompilers
    BY <1>1, <2>2, <2>5, NeededIsCompiled
  <2>7. m_contracts[d].object # NotMade /\ d \in DOMAIN m_contracts
    BY <2>3, <2>6 DEF Compiling
  <2>8. m_contracts'[d] = [m_contracts[d] EXCEPT !.linked = TRUE] /\ m_contracts[d] \in Artifacts
    BY <2>1, <2>3, <2>7 DEF EndCompile
  <2> QED
    BY <2>7, <2>8 DEF Artifacts
<1>2. [][Delivers]_vars => CompileDelivers
  BY PTL DEF CompileDelivers
<1> QED
  BY <1>1, <1>2, StackIInv, PTL DEF Spec

\* "Compiled contract not found." cannot happen as long as every base can be
\* deployed: then the bases, and what they create, are compiled before.
THEOREM FoundWithoutAbstractBases ==
    ASSUME \A c \in Declaring : Bases[c] \subseteq Deployable
    PROVE  Spec => []CompiledContractIsFound
<1>1. ASSUME IInv
      PROVE  CompiledContractIsFound
  <2> DEFINE n == Len(work.stack)
             top == work.stack[n]
             c == top.contract
  <2> SUFFICES ASSUME pc = "compile", work.stack # << >>, top.kind = "code", top.rest = {}
               PROVE  compiledContracts(c) \subseteq work.otherCompilers
    BY DEF CompiledContractIsFound, Top
  <2>1. /\ work \in [next : 1..(Len(m_sourceOrder) + 1), stage : {"code", "ir"},
                     stack : Seq(ContractFrame), otherCompilers : SUBSET DOMAIN m_contracts]
        /\ DOMAIN m_contracts = DOMAIN m_sources \cap Declaring
        /\ Compiling
    BY <1>1, CompileFacts
  <2>2. n \in 1..n /\ n + 1 \notin 1..n /\ DOMAIN work.stack = 1..n /\ top \in ContractFrame
    BY <2>1
  <2> HIDE DEF n
  <2>3. work.stage = "ir"
    BY <2>1, <2>2 DEF Compiling
  <2>4. \A e \in contractDependencies(c) \cap Deployable :
           \/ e \in top.rest \cup work.otherCompilers
           \/ n + 1 \in DOMAIN work.stack /\ e = work.stack[n + 1].contract
    BY <2>1, <2>2, <2>3 DEF Compiling
  <2>5. contractDependencies(c) \cap Deployable \subseteq work.otherCompilers
    BY <2>2, <2>4
  <2>6. c \in Declaring
    BY <2>1, <2>2 DEF ContractFrame
  <2>7. ASSUME NEW b \in linearizedBaseContracts(c)
        PROVE  Creates[b] \cap ImportedBy(b) \subseteq work.otherCompilers
    <3>1. CASE b = c
      BY <2>5, <2>6, <3>1, StackAssumption DEF contractDependencies
    <3>2. CASE b \in Bases[c] \cap ImportedBy(c)
      <4>1. b \in work.otherCompilers /\ b \in Declaring
        BY <2>5, <2>6, <3>2, StackAssumption DEF contractDependencies
      <4>2. contractDependencies(b) \cap Deployable \subseteq work.otherCompilers
        BY <2>1, <4>1 DEF Compiling
      <4> QED
        BY <4>1, <4>2, StackAssumption DEF contractDependencies
    <3> QED
      BY <2>7, <3>1, <3>2 DEF linearizedBaseContracts
  <2> QED
    BY <2>7 DEF compiledContracts
<1> QED
  BY <1>1, StackIInv, PTL

=============================================================================
