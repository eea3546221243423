--------------------------- MODULE MCCompilerStack ---------------------------
(***************************************************************************)
(* Instances of CompilerStack: two sources with any client, and three with  *)
(* a client that only compiles.                                             *)
(***************************************************************************)
EXTENDS CompilerStack, TLC

CONSTANTS s1, s2, s3

Text(parses, imports) == [parses |-> parses, imports |-> imports]

Requests == {{}, {s1}}

\* s1 derives from s2 if its text imports it.  Texts with and without errors,
\* without imports and with cyclic ones.
TwoPaths == {s1, s2}
TwoBases == (s1 :> {s2}) @@ (s2 :> {})
TwoCreates == (s1 :> {}) @@ (s2 :> {})
TwoContents == {Text("ok", {}), Text("ok", {s1, s2}), Text("recovers", {s1}), Text("fails", {})}

\* s1 derives from s2, which creates s3 and cannot be deployed itself.
ThreePaths == {s1, s2, s3}
ThreeBases == (s1 :> {s2}) @@ (s2 :> {}) @@ (s3 :> {})
ThreeCreates == (s1 :> {}) @@ (s2 :> {s3}) @@ (s3 :> {})
GoodContents == {Text("ok", {}), Text("ok", {s2}), Text("ok", {s3})}
NotAbstract == {s1, s3}

\* A client that sets its sources once and compiles.
CompilingClient ==
    \/ \E S \in SUBSET Paths : \E sources \in [S -> Contents] :
          m_stackState = Empty /\ SetSources(sources)
    \/ \E names \in RequestSets : SetRequestedContractNames(names)
    \/ Compile

CompilingSpec == Init /\ [][CompilingClient \/ CompilerStep]_vars

=============================================================================
