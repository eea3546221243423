------------------------- MODULE ControlFlowAnalyzer -------------------------
(***************************************************************************)
(* ControlFlowAnalyzer::checkUninitializedAccess of                        *)
(* libpolynomial/analysis/ControlFlowAnalyzer.cpp: a worklist algorithm     *)
(* that finds the storage pointers a function may use before it has         *)
(* assigned them, on a path that ends in the function's exit node.          *)
(*                                                                         *)
(* One action per step of the loop: take a node of nodesToTraverse, process *)
(* one of its occurrences, propagate to its exits, leave the loop and       *)
(* report.  nodesToTraverse is a std::set of pointers, so the order in      *)
(* which nodes are taken is not determined by the program's input: Traverse *)
(* takes any of them.                                                       *)
(***************************************************************************)
EXTENDS ControlFlowGraph

CONSTANT CFGs      \* the control flow graphs the analysis may be given

ASSUME CFGsAssumption == \A g \in CFGs : WellFormed(g)

VARIABLES
    cfg,                    \* the graph being analysed
    pc,                     \* "loop", "scan" or "done"
    nodesToTraverse,        \* the worklist
    currentNode,            \* the node taken from it
    next,                   \* its next occurrence to process
    unassignedVariables,    \* the local copy that processing changes
    unassignedAtEntry,      \* NodeInfo::unassignedVariablesAtEntry
    uninitializedAccesses,  \* NodeInfo::uninitializedVariableAccesses
    reported                \* the occurrences reported as type errors

vars == <<cfg, pc, nodesToTraverse, currentNode, next, unassignedVariables,
          unassignedAtEntry, uninitializedAccesses, reported>>

\* A VariableOccurrence const* : the occurrence at a position of a node.
OccurrencePointer == Nodes \X (Nat \ {0})

occurrences(n) == cfg.variableOccurrences[n]

TypeOK ==
    /\ cfg \in CFG
    /\ pc \in {"loop", "scan", "done"}
    /\ nodesToTraverse \in SUBSET Nodes
    /\ currentNode \in Nodes
    /\ next \in 1..(Len(occurrences(currentNode)) + 1)
    /\ unassignedVariables \in SUBSET Vars
    /\ unassignedAtEntry \in [Nodes -> SUBSET Vars]
    /\ uninitializedAccesses \in [Nodes -> SUBSET OccurrencePointer]
    /\ reported \in SUBSET OccurrencePointer

Init ==
    /\ cfg \in CFGs
    /\ pc = "loop"
    /\ nodesToTraverse = {Entry}
    /\ currentNode = Entry
    /\ next = 1
    /\ unassignedVariables = {}
    /\ unassignedAtEntry = [n \in Nodes |-> {}]
    /\ uninitializedAccesses = [n \in Nodes |-> {}]
    /\ reported = {}

Traverse(n) ==
    /\ pc = "loop"
    /\ n \in nodesToTraverse
    /\ nodesToTraverse' = nodesToTraverse \ {n}
    /\ currentNode' = n
    /\ next' = 1
    /\ unassignedVariables' = unassignedAtEntry[n]
    /\ pc' = "scan"
    /\ UNCHANGED <<cfg, unassignedAtEntry, uninitializedAccesses, reported>>

\* What an occurrence o does to the set of variables without a value.
Transfer(o, unassigned) ==
    CASE o.kind = "Assignment"  -> unassigned \ {o.declaration}
      [] o.kind = "Declaration" -> unassigned \cup {o.declaration}
      [] OTHER                  -> unassigned

\* Occurrence o uses a storage pointer that is in the set unassigned.
IsUninitialized(o, unassigned) ==
    /\ o.kind \in {"InlineAssembly", "Access", "Return"}
    /\ o.declaration \in unassigned
    /\ o.declaration \in StorageVars

ProcessOccurrence ==
    /\ pc = "scan"
    /\ next <= Len(occurrences(currentNode))
    /\ LET o == occurrences(currentNode)[next]
       IN /\ unassignedVariables' = Transfer(o, unassignedVariables)
          /\ uninitializedAccesses' =
                [uninitializedAccesses EXCEPT ![currentNode] = @ \cup
                    IF IsUninitialized(o, unassignedVariables)
                    THEN {<<currentNode, next>>} ELSE {}]
    /\ next' = next + 1
    /\ UNCHANGED <<cfg, pc, nodesToTraverse, currentNode, unassignedAtEntry,
                   reported>>

\* Mutant of LearnsFromCurrent: new accesses alone do not queue the node.
LearnsVariablesFromCurrent(n) == ~(unassignedVariables \subseteq unassignedAtEntry[n])

\* Mutant of LearnsFromCurrent: propagateFrom always returns true.
LearnsAlways(n) == TRUE

\* NodeInfo::propagateFrom returns true: node n learns something new from the
\* current node.
LearnsFromCurrent(n) ==
    \/ ~(unassignedVariables \subseteq unassignedAtEntry[n])
    \/ ~(uninitializedAccesses[currentNode] \subseteq uninitializedAccesses[n])

Propagate ==
    /\ pc = "scan"
    /\ next = Len(occurrences(currentNode)) + 1
    /\ LET successors == cfg.exits[currentNode]
       IN /\ unassignedAtEntry' =
                [n \in Nodes |-> unassignedAtEntry[n] \cup
                    IF n \in successors THEN unassignedVariables ELSE {}]
          /\ uninitializedAccesses' =
                [n \in Nodes |-> uninitializedAccesses[n] \cup
                    IF n \in successors
                    THEN uninitializedAccesses[currentNode] ELSE {}]
          /\ nodesToTraverse' = nodesToTraverse \cup
                {n \in successors : LearnsFromCurrent(n)}
    /\ pc' = "loop"
    /\ UNCHANGED <<cfg, currentNode, next, unassignedVariables, reported>>

Report ==
    /\ pc = "loop"
    /\ nodesToTraverse = {}
    /\ reported' = uninitializedAccesses[Exit]
    /\ pc' = "done"
    /\ UNCHANGED <<cfg, nodesToTraverse, currentNode, next,
                   unassignedVariables, unassignedAtEntry,
                   uninitializedAccesses>>

Next ==
    \/ \E n \in Nodes : Traverse(n)
    \/ ProcessOccurrence
    \/ Propagate
    \/ Report

Spec == Init /\ [][Next]_vars

\* The program is sequential and does not stop before it is done.
FairSpec == Spec /\ WF_vars(Next)

-----------------------------------------------------------------------------
(* What the analysis is to find, said of paths and not of the algorithm.    *)

\* A set S of nodes has, with every node of R that v leaves without a value,
\* also the nodes after it.
ClosedForUnassigned(g, v, R, S) ==
    \A n \in R :
        LET b == g.variableOccurrences[n]
        IN UnassignedBefore(b, v, Len(b) + 1, n \in S) => g.exits[n] \subseteq S

\* The nodes that some path from the entry node reaches with v unassigned.
EnteredUnassigned(g, v) ==
    LET R == Reachable(g, Entry)
    IN {n \in Nodes : \A S \in SUBSET Nodes :
                        ClosedForUnassigned(g, v, R, S) => n \in S}

\* Position i of node n uses storage pointer v on a path from the entry node
\* that has not assigned it.
UsedUnassigned(g, v, n, i) ==
    LET b == g.variableOccurrences[n]
    IN /\ i \in 1..Len(b)
       /\ Uses(b[i], v)
       /\ n \in Reachable(g, Entry)
       /\ UnassignedBefore(b, v, i, n \in EnteredUnassigned(g, v))

\* The uses from which the exit node can still be reached.
UninitializedAccesses(g) ==
    {p \in OccurrencePointer :
        /\ \E v \in StorageVars : UsedUnassigned(g, v, p[1], p[2])
        /\ Exit \in Reachable(g, p[1])}

(***************************************************************************)
(* checkUninitializedAccess reports exactly the occurrences that use a      *)
(* storage pointer without a value on some path that runs from the entry    *)
(* node through the occurrence to the exit node ("It is only an error if    *)
(* this is propagated to the exit node"): whatever the order in which the   *)
(* set of pointers yields the nodes, and although a node is queued only     *)
(* when propagateFrom tells it something new.                               *)
(***************************************************************************)
ReportsExactlyUninitializedAccesses ==
    pc = "done" =>
        \A n \in Nodes : \A i \in 1..Len(occurrences(n)) :
            <<n, i>> \in reported <=> <<n, i>> \in UninitializedAccesses(cfg)

(***************************************************************************)
(* The loop over nodesToTraverse ends, cycles in the graph or not: every    *)
(* round that queues a node has made one of its two sets larger.            *)
(***************************************************************************)
Terminates == <>(pc = "done")

=============================================================================
