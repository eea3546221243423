-------------------------- MODULE ControlFlowGraph --------------------------
(***************************************************************************)
(* The control flow graph of one function as the analyses read it:         *)
(* CFGNode, VariableOccurrence and FunctionFlow of                         *)
(* libpolynomial/analysis/ControlFlowGraph.h.                              *)
(*                                                                         *)
(* A graph g is a record                                                   *)
(*   g.exits[n]                the nodes control may continue to after n   *)
(*   g.variableOccurrences[n]  what n does to variables, in order          *)
(* CFGNode::entries is the converse of CFGNode::exits, because             *)
(* ControlFlowBuilder::connect adds every arc to both.                     *)
(***************************************************************************)
EXTENDS Naturals, Sequences

CONSTANTS
    Nodes,         \* the CFGNodes of the function
    Entry,         \* FunctionFlow::entry
    Exit,          \* FunctionFlow::exit
    Revert,        \* FunctionFlow::revert
    Vars,          \* the VariableDeclarations that occur in the function
    StorageVars    \* those whose type is dataStoredIn(DataLocation::Storage)

ASSUME FlowAssumption ==
    /\ {Entry, Exit, Revert} \subseteq Nodes
    /\ Entry \notin {Exit, Revert}
    /\ Exit # Revert
    /\ StorageVars \subseteq Vars

Kind == {"Declaration", "Access", "Return", "Assignment", "InlineAssembly"}

VariableOccurrence == [kind : Kind, declaration : Vars]

CFG == [exits : [Nodes -> SUBSET Nodes],
        variableOccurrences : [Nodes -> Seq(VariableOccurrence)]]

entries(g, n) == {m \in Nodes : n \in g.exits[m]}

-----------------------------------------------------------------------------
(* What a block does to one variable.  In all of these b is the sequence of *)
(* occurrences of a block and v a variable.                                 *)

Assigns(o, v)  == o.kind = "Assignment" /\ o.declaration = v

Declares(o, v) == o.kind = "Declaration" /\ o.declaration = v

Uses(o, v)     == o.kind \in {"Access", "Return", "InlineAssembly"}
                  /\ o.declaration = v

\* No occurrence of b from position i on and before position j assigns v.
NotAssignedIn(b, v, i, j) == \A k \in i..(j - 1) : ~Assigns(b[k], v)

\* v has no value just before position i of b: it had none when b was entered
\* (atEntry), or b declared it, and nothing has assigned it since.
UnassignedBefore(b, v, i, atEntry) ==
    \/ atEntry /\ NotAssignedIn(b, v, 1, i)
    \/ \E j \in 1..(i - 1) : Declares(b[j], v) /\ NotAssignedIn(b, v, j + 1, i)

-----------------------------------------------------------------------------
(* Reachability, as the least set of nodes closed under the arcs.           *)

ClosedUnderExits(g, S) == \A n \in S : g.exits[n] \subseteq S

Reachable(g, n) ==
    {m \in Nodes : \A S \in SUBSET Nodes :
                        n \in S /\ ClosedUnderExits(g, S) => m \in S}

(***************************************************************************)
(* What the rest of the compiler guarantees of a graph handed to the        *)
(* analyses.  exit and revert have no exits and nothing leads back to       *)
(* entry.  A storage pointer that is declared anywhere but in the entry     *)
(* node gets its value from the initialiser of its declaration statement:   *)
(* TypeChecker::visit(VariableDeclarationStatement) rejects the others      *)
(* ("Uninitialized storage pointer."), and name resolution keeps the        *)
(* initialiser from mentioning the variable.  The initialiser may branch,   *)
(* so the assignment can be in a later node than the declaration: pending   *)
(* is the set of nodes at whose start the initialiser is still being        *)
(* evaluated.                                                               *)
(***************************************************************************)
InitialisedByItsDeclaration(g, v) ==
    \E pending \in SUBSET Nodes :
        /\ \A n \in Nodes \ {Entry} :
              LET b == g.variableOccurrences[n]
              IN \A j \in 1..Len(b) : Declares(b[j], v) =>
                    /\ \A i \in (j + 1)..Len(b) :
                          Uses(b[i], v) => ~NotAssignedIn(b, v, j + 1, i)
                    /\ NotAssignedIn(b, v, j + 1, Len(b) + 1)
                          => g.exits[n] \subseteq pending
        /\ \A n \in pending :
              LET b == g.variableOccurrences[n]
              IN /\ \A i \in 1..Len(b) :
                       Uses(b[i], v) => ~NotAssignedIn(b, v, 1, i)
                 /\ NotAssignedIn(b, v, 1, Len(b) + 1)
                       => g.exits[n] \subseteq pending

WellFormed(g) ==
    /\ g \in CFG
    /\ g.exits[Exit] = {}
    /\ g.exits[Revert] = {}
    /\ \A n \in Nodes : Entry \notin g.exits[n]
    /\ \A v \in StorageVars : InitialisedByItsDeclaration(g, v)

=============================================================================
