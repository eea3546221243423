---------------------- MODULE ControlFlowAnalyzerProofs ----------------------
(***************************************************************************)
(* For every set of nodes, of variables and of well-formed graphs:          *)
(* checkUninitializedAccess reports exactly the uses of unassigned storage  *)
(* pointers on paths to the exit node.                                      *)
(*                                                                         *)
(* The argument.  Nothing is recorded that a path does not justify          *)
(* (Justified).  A visited node that is neither queued nor being processed  *)
(* has told its successors all it knows (Settled).  So when the worklist    *)
(* is empty the recorded sets are closed under the arcs, and the sets of    *)
(* the reference definition, being the least closed ones, are included in   *)
(* them.  A node the algorithm never visits is one no information reached;  *)
(* that it loses nothing there rests on InitialisedByItsDeclaration.        *)
(***************************************************************************)
EXTENDS ControlFlowAnalyzer, TLAPS

\* A node the analysis has been told about.
Visited(n) ==
    \/ n = Entry
    \/ unassignedAtEntry[n] # {}
    \/ uninitializedAccesses[n] # {}

Processing(n) == pc = "scan" /\ n = currentNode

\* The variables without a value just before position i of n, according to
\* what is recorded for n.
KnownUnassigned(n, i) ==
    {v \in Vars : UnassignedBefore(occurrences(n), v, i, v \in unassignedAtEntry[n])}

\* The uses of unassigned storage pointers before position i are recorded.
RecordedBefore(n, i) ==
    \A k \in 1..(i - 1) : \A v \in StorageVars :
        Uses(occurrences(n)[k], v) /\ v \in KnownUnassigned(n, k)
            => <<n, k>> \in uninitializedAccesses[n]

\* Every successor of n knows what leaves n.
PassedOn(n) ==
    \A e \in cfg.exits[n] :
        /\ KnownUnassigned(n, Len(occurrences(n)) + 1) \subseteq unassignedAtEntry[e]
        /\ uninitializedAccesses[n] \subseteq uninitializedAccesses[e]

Scanning ==
    pc = "scan" =>
        /\ unassignedVariables = KnownUnassigned(currentNode, next)
        /\ RecordedBefore(currentNode, next)
        /\ Visited(currentNode)
        /\ currentNode \notin nodesToTraverse

Settled ==
    \A n \in Nodes :
        Visited(n) /\ n \notin nodesToTraverse /\ ~Processing(n) =>
            /\ RecordedBefore(n, Len(occurrences(n)) + 1)
            /\ PassedOn(n)

Justified ==
    /\ \A n \in Nodes : Visited(n) => n \in Reachable(cfg, Entry)
    /\ \A n \in Nodes : \A v \in unassignedAtEntry[n] :
          n \in EnteredUnassigned(cfg, v)
    /\ \A n \in Nodes : \A p \in uninitializedAccesses[n] :
          /\ \E v \in StorageVars : UsedUnassigned(cfg, v, p[1], p[2])
          /\ n \in Reachable(cfg, p[1])

Finished ==
    pc = "done" => nodesToTraverse = {} /\ reported = uninitializedAccesses[Exit]

IInv ==
    /\ TypeOK
    /\ WellFormed(cfg)
    /\ \A n \in nodesToTraverse : Visited(n)
    /\ Scanning
    /\ Settled
    /\ Justified
    /\ Finished

-----------------------------------------------------------------------------
(* Facts about the operators of the model.                                  *)

\* NotAssignedIn grows by one occurrence at a time.
LEMMA NotAssignedStep ==
    ASSUME NEW b, NEW v, NEW i \in Nat \ {0}, NEW j \in 1..i
    PROVE  NotAssignedIn(b, v, j, i + 1)
             <=> NotAssignedIn(b, v, j, i) /\ ~Assigns(b[i], v)
<1>1. j..((i + 1) - 1) = (j..(i - 1)) \cup {i}
  OBVIOUS
<1> QED
  BY <1>1 DEF NotAssignedIn

\* The switch over the kinds of an occurrence computes, from the variables
\* without a value before it, those without a value after it.
LEMMA TransferStep ==
    ASSUME NEW b \in Seq(VariableOccurrence), NEW i \in 1..Len(b), NEW A \in SUBSET Vars
    PROVE  Transfer(b[i], {v \in Vars : UnassignedBefore(b, v, i, v \in A)})
             = {v \in Vars : UnassignedBefore(b, v, i + 1, v \in A)}
<1> DEFINE o == b[i]
           U == {v \in Vars : UnassignedBefore(b, v, i, v \in A)}
           V == {v \in Vars : UnassignedBefore(b, v, i + 1, v \in A)}
<1>1. o \in VariableOccurrence
  OBVIOUS
<1>2. ASSUME NEW v \in Vars
      PROVE  UnassignedBefore(b, v, i + 1, v \in A)
               <=> \/ UnassignedBefore(b, v, i, v \in A) /\ ~Assigns(o, v)
                   \/ Declares(o, v)
  <2>1. NotAssignedIn(b, v, 1, i + 1) <=> NotAssignedIn(b, v, 1, i) /\ ~Assigns(o, v)
    BY NotAssignedStep
  <2>2. \A j \in 1..(i - 1) :
          NotAssignedIn(b, v, j + 1, i + 1)
            <=> NotAssignedIn(b, v, j + 1, i) /\ ~Assigns(o, v)
    BY NotAssignedStep
  <2>3. NotAssignedIn(b, v, i + 1, i + 1)
    BY DEF NotAssignedIn
  <2>4. 1..((i + 1) - 1) = (1..(i - 1)) \cup {i}
    OBVIOUS
  <2> QED
    BY <2>1, <2>2, <2>3, <2>4 DEF UnassignedBefore
<1>3. CASE o.kind = "Assignment"
  BY <1>1, <1>2, <1>3 DEF Transfer, Assigns, Declares
<1>4. CASE o.kind = "Declaration"
  BY <1>1, <1>2, <1>4 DEF Transfer, Assigns, Declares, VariableOccurrence
<1>5. CASE o.kind \notin {"Assignment", "Declaration"}
  BY <1>1, <1>2, <1>5 DEF Transfer, Assigns, Declares
<1> QED
  BY <1>3, <1>4, <1>5

\* A node is reachable from itself, and what follows a reachable node is.
LEMMA ReachableClosed ==
    ASSUME NEW g \in CFG, NEW n \in Nodes
    PROVE  /\ n \in Reachable(g, n)
           /\ \A m \in Reachable(g, n) : g.exits[m] \subseteq Reachable(g, n)
BY DEF Reachable, ClosedUnderExits, CFG

\* Every closed set that contains a node contains what it reaches.
LEMMA ReachableLeast ==
    ASSUME NEW g \in CFG, NEW n \in Nodes, NEW S \in SUBSET Nodes,
           n \in S, ClosedUnderExits(g, S)
    PROVE  Reachable(g, n) \subseteq S
BY DEF Reachable

\* If v leaves a node unassigned then it enters the next ones unassigned.
LEMMA EnteredClosed ==
    ASSUME NEW g \in CFG, NEW v \in Vars, NEW n \in Reachable(g, Entry),
           LET b == g.variableOccurrences[n]
           IN UnassignedBefore(b, v, Len(b) + 1, n \in EnteredUnassigned(g, v))
    PROVE  g.exits[n] \subseteq EnteredUnassigned(g, v)
<1> DEFINE R == Reachable(g, Entry)
           b == g.variableOccurrences[n]
<1>1. n \in Nodes /\ g.exits[n] \subseteq Nodes
  BY DEF Reachable, CFG
<1>2. ASSUME NEW S \in SUBSET Nodes, ClosedForUnassigned(g, v, R, S)
      PROVE  g.exits[n] \subseteq S
  <2>1. n \in EnteredUnassigned(g, v) => n \in S
    BY <1>2 DEF EnteredUnassigned
  <2>2. UnassignedBefore(b, v, Len(b) + 1, n \in S)
    BY <2>1 DEF UnassignedBefore
  <2> QED
    BY <1>2, <2>2 DEF ClosedForUnassigned
<1> QED
  BY <1>1, <1>2 DEF EnteredUnassigned

-----------------------------------------------------------------------------
(* The invariant.                                                           *)

\* The worklist starts with the entry node and nothing recorded.
LEMMA InitIInv == Init => IInv
<1> SUFFICES ASSUME Init PROVE IInv
  OBVIOUS
<1>1. cfg \in CFG /\ WellFormed(cfg)
  BY CFGsAssumption DEF Init, WellFormed
<1>2. TypeOK
  BY <1>1, FlowAssumption DEF Init, TypeOK, CFG, occurrences
<1>3. \A n \in Nodes : Visited(n) => n = Entry
  BY DEF Init, Visited
<1>4. Justified
  BY <1>1, <1>3, ReachableClosed, FlowAssumption DEF Justified, Init
<1> QED
  BY <1>1, <1>2, <1>3, <1>4
     DEF IInv, Init, Scanning, Settled, Finished, Visited

\* Taking a node of the worklist.
LEMMA TraverseIInv ==
    ASSUME IInv, NEW n \in Nodes, Traverse(n)
    PROVE  IInv'
<1> USE DEF Traverse
<1>1. TypeOK /\ WellFormed(cfg)
  BY DEF IInv
<1>2. TypeOK'
  BY <1>1 DEF TypeOK, CFG, occurrences
<1>3. \A m \in Nodes : Visited(m)' <=> Visited(m)
  BY DEF Visited
<1>4. Visited(n)
  BY DEF IInv
<1>5. \A m \in Nodes, i \in Nat : RecordedBefore(m, i)' <=> RecordedBefore(m, i)
  BY DEF RecordedBefore, KnownUnassigned, occurrences
<1>6. \A m \in Nodes : PassedOn(m)' <=> PassedOn(m)
  BY DEF PassedOn, KnownUnassigned, occurrences
<1>7. Scanning'
  <2>1. KnownUnassigned(n, 1)' = unassignedAtEntry[n]
    BY <1>1 DEF KnownUnassigned, UnassignedBefore, NotAssignedIn, TypeOK
  <2>2. RecordedBefore(n, 1)'
    BY DEF RecordedBefore
  <2> QED
    BY <1>3, <1>4, <2>1, <2>2 DEF Scanning
<1>8. Settled'
  <2> SUFFICES ASSUME NEW m \in Nodes, Visited(m)', m \notin nodesToTraverse',
                      ~Processing(m)'
               PROVE  /\ RecordedBefore(m, Len(occurrences(m)) + 1)'
                      /\ PassedOn(m)'
    BY DEF Settled
  <2>1. m # n
    BY DEF Processing
  <2>2. RecordedBefore(m, Len(occurrences(m)) + 1) /\ PassedOn(m)
    BY <1>3, <2>1 DEF IInv, Settled, Processing
  <2>3. occurrences(m) \in Seq(VariableOccurrence)
    BY <1>1 DEF TypeOK, CFG, occurrences
  <2>4. Len(occurrences(m))' = Len(occurrences(m))
    BY DEF occurrences
  <2> QED
    BY <1>5, <1>6, <2>2, <2>3, <2>4
<1>9. Justified'
  BY <1>3 DEF IInv, Justified
<1>10. \A m \in nodesToTraverse' : Visited(m)'
  BY <1>1, <1>3 DEF IInv, TypeOK
<1>11. WellFormed(cfg)' /\ Finished'
  BY <1>1 DEF Finished
<1> QED
  BY <1>2, <1>7, <1>8, <1>9, <1>10, <1>11 DEF IInv

\* Processing an occurrence: the local set stays what a path would carry, and
\* an uninitialised use is recorded for the current node only.
LEMMA ProcessOccurrenceIInv ==
    ASSUME IInv, ProcessOccurrence
    PROVE  IInv'
<1> DEFINE c == currentNode
           b == occurrences(c)
           o == b[next]
           bad == IsUninitialized(o, unassignedVariables)
<1> USE DEF ProcessOccurrence
<1>1. TypeOK /\ WellFormed(cfg) /\ Scanning /\ Justified /\ Settled
  BY DEF IInv
<1>2. /\ b \in Seq(VariableOccurrence)
      /\ next \in 1..Len(b)
      /\ o \in VariableOccurrence
  BY <1>1 DEF TypeOK, CFG, occurrences
<1>3. /\ \A m \in Nodes \ {c} : uninitializedAccesses'[m] = uninitializedAccesses[m]
      /\ uninitializedAccesses'[c] = uninitializedAccesses[c] \cup
            IF bad THEN {<<c, next>>} ELSE {}
  BY <1>1 DEF TypeOK
<1>4. TypeOK'
  <2>1. Transfer(o, unassignedVariables) \in SUBSET Vars
    BY <1>1, <1>2 DEF Transfer, TypeOK, VariableOccurrence
  <2>2. <<c, next>> \in OccurrencePointer
    BY <1>1, <1>2 DEF OccurrencePointer, TypeOK
  <2>3. uninitializedAccesses' \in [Nodes -> SUBSET OccurrencePointer]
    BY <1>1, <2>2 DEF TypeOK
  <2>4. next' \in 1..(Len(occurrences(currentNode)) + 1)'
    BY <1>2 DEF occurrences
  <2> QED
    BY <1>1, <2>1, <2>3, <2>4 DEF TypeOK
<1>5. \A m \in Nodes : Visited(m) => Visited(m)'
  BY <1>3 DEF Visited
<1>6. \A m \in Nodes \ {c} : Visited(m)' => Visited(m)
  BY <1>3 DEF Visited
<1>7. \A m \in Nodes, i \in Nat : KnownUnassigned(m, i)' = KnownUnassigned(m, i)
  BY DEF KnownUnassigned, occurrences
<1>8. unassignedVariables = KnownUnassigned(c, next)
  BY <1>1 DEF Scanning
<1>9. Scanning'
  <2>1. unassignedVariables' = KnownUnassigned(currentNode, next)'
    <3>1. unassignedAtEntry[c] \in SUBSET Vars
      BY <1>1 DEF TypeOK
    <3>2. Transfer(o, unassignedVariables) = KnownUnassigned(c, next + 1)
      BY <1>2, <1>8, <3>1, TransferStep DEF KnownUnassigned
    <3>3. KnownUnassigned(currentNode, next)' = KnownUnassigned(c, next + 1)
      BY DEF KnownUnassigned, occurrences
    <3> QED
      BY <3>2, <3>3
  <2>2. RecordedBefore(currentNode, next)'
    <3> SUFFICES ASSUME NEW k \in 1..next, NEW v \in StorageVars,
                        Uses(b[k], v), v \in KnownUnassigned(c, k)
                 PROVE  <<c, k>> \in uninitializedAccesses'[c]
      BY <1>1, <1>2 DEF RecordedBefore, KnownUnassigned, occurrences, TypeOK
    <3>1. CASE k < next
      BY <1>1, <1>2, <1>3, <3>1 DEF Scanning, RecordedBefore
    <3>2. CASE k = next
      BY <1>2, <1>3, <1>8, <3>2 DEF Uses, IsUninitialized
    <3> QED
      BY <1>2, <3>1, <3>2
  <2>3. Visited(currentNode)' /\ currentNode' \notin nodesToTraverse'
    BY <1>1, <1>3 DEF Scanning, Visited, TypeOK
  <2> QED
    BY <2>1, <2>2, <2>3 DEF Scanning
<1>10. Settled'
  <2> SUFFICES ASSUME NEW m \in Nodes, Visited(m)', m \notin nodesToTraverse', m # c
               PROVE  /\ RecordedBefore(m, Len(occurrences(m)) + 1)'
                      /\ PassedOn(m)'
    BY DEF Settled, Processing
  <2>1. RecordedBefore(m, Len(occurrences(m)) + 1) /\ PassedOn(m)
    BY <1>1, <1>6 DEF Settled, Processing
  <2>2. occurrences(m) \in Seq(VariableOccurrence) /\ cfg.exits[m] \subseteq Nodes
    BY <1>1 DEF TypeOK, CFG, occurrences
  <2>3. \A e \in Nodes : uninitializedAccesses[e] \subseteq uninitializedAccesses'[e]
    BY <1>3
  <2>4. RecordedBefore(m, Len(occurrences(m)) + 1)'
    BY <1>3, <1>7, <2>1, <2>2 DEF RecordedBefore, occurrences
  <2>5. PassedOn(m)'
    BY <1>3, <1>7, <2>1, <2>2, <2>3 DEF PassedOn, occurrences
  <2> QED
    BY <2>4, <2>5
<1>11. Justified'
  <2>1. c \in Nodes /\ Visited(c) /\ c \in Reachable(cfg, Entry)
    BY <1>1 DEF Scanning, Justified, TypeOK
  <2>2. ASSUME bad
        PROVE  \E v \in StorageVars : UsedUnassigned(cfg, v, c, next)
    <3> DEFINE v == o.declaration
    <3>1. v \in StorageVars /\ Uses(o, v) /\ v \in KnownUnassigned(c, next)
      BY <1>8, <2>2 DEF IsUninitialized, Uses
    <3>2. v \in unassignedAtEntry[c] => c \in EnteredUnassigned(cfg, v)
      BY <1>1, <2>1 DEF Justified
    <3>3. UnassignedBefore(b, v, next, c \in EnteredUnassigned(cfg, v))
      BY <3>1, <3>2 DEF KnownUnassigned, UnassignedBefore
    <3>4. UsedUnassigned(cfg, v, c, next)
      BY <1>2, <2>1, <3>1, <3>3 DEF UsedUnassigned, occurrences
    <3> QED
      BY <3>1, <3>4
  <2>3. c \in Reachable(cfg, c)
    BY <1>1, <2>1, ReachableClosed DEF TypeOK
  <2>4. ASSUME NEW n \in Nodes, NEW p \in uninitializedAccesses'[n]
        PROVE  /\ \E v \in StorageVars : UsedUnassigned(cfg, v, p[1], p[2])
               /\ n \in Reachable(cfg, p[1])
    <3>1. CASE p \in uninitializedAccesses[n]
      BY <1>1, <3>1 DEF Justified
    <3>2. CASE p \notin uninitializedAccesses[n]
      <4>1. n = c /\ bad /\ p = <<c, next>>
        BY <1>3, <3>2
      <4>2. p[1] = c /\ p[2] = next
        BY <4>1
      <4> QED
        BY <2>2, <2>3, <4>1, <4>2
    <3> QED
      BY <3>1, <3>2
  <2>5. \A n \in Nodes : Visited(n)' => n \in Reachable(cfg, Entry)
    BY <1>1, <1>6, <2>1 DEF Justified
  <2>6. \A n \in Nodes : \A v \in unassignedAtEntry'[n] : n \in EnteredUnassigned(cfg, v)
    BY <1>1 DEF Justified
  <2> QED
    BY <2>4, <2>5, <2>6 DEF Justified
<1>12. \A m \in nodesToTraverse' : Visited(m)'
  BY <1>1, <1>5 DEF IInv, TypeOK
<1>13. WellFormed(cfg)' /\ Finished'
  BY <1>1 DEF Finished
<1> QED
  BY <1>4, <1>9, <1>10, <1>11, <1>12, <1>13 DEF IInv

\* Propagating to the successors: a successor that learns something is queued
\* again, the others knew everything already, so the current node is settled.
LEMMA PropagateIInv ==
    ASSUME IInv, Propagate
    PROVE  IInv'
<1> DEFINE c == currentNode
           b == occurrences(c)
           E == cfg.exits[c]
<1> USE DEF Propagate
<1>1. TypeOK /\ WellFormed(cfg) /\ Scanning /\ Justified /\ Settled
  BY DEF IInv
<1>2. c \in Nodes /\ b \in Seq(VariableOccurrence) /\ E \subseteq Nodes
  BY <1>1 DEF TypeOK, CFG, occurrences
<1>3. \A n \in Nodes :
        /\ unassignedAtEntry'[n] = unassignedAtEntry[n] \cup
              IF n \in E THEN unassignedVariables ELSE {}
        /\ uninitializedAccesses'[n] = uninitializedAccesses[n] \cup
              IF n \in E THEN uninitializedAccesses[c] ELSE {}
  OBVIOUS
<1>4. TypeOK'
  <2>1. nodesToTraverse' \in SUBSET Nodes
    BY <1>1, <1>2 DEF TypeOK
  <2>2. unassignedAtEntry' \in [Nodes -> SUBSET Vars]
    BY <1>1 DEF TypeOK
  <2>3. uninitializedAccesses' \in [Nodes -> SUBSET OccurrencePointer]
    BY <1>1, <1>2 DEF TypeOK
  <2> QED
    BY <1>1, <2>1, <2>2, <2>3 DEF TypeOK, occurrences
<1>5. /\ unassignedVariables = KnownUnassigned(c, Len(b) + 1)
      /\ RecordedBefore(c, Len(b) + 1)
      /\ Visited(c)
  BY <1>1 DEF Scanning
<1>6. \A n \in Nodes : Visited(n) => Visited(n)'
  BY <1>3 DEF Visited
<1>7. ASSUME NEW n \in Nodes, n \notin nodesToTraverse'
      PROVE  /\ unassignedAtEntry'[n] = unassignedAtEntry[n]
             /\ uninitializedAccesses'[n] = uninitializedAccesses[n]
             /\ n \notin nodesToTraverse
  BY <1>3, <1>7 DEF LearnsFromCurrent
<1>8. ASSUME NEW n \in nodesToTraverse'
      PROVE  Visited(n)'
  <2>1. CASE n \in nodesToTraverse
    BY <1>1, <1>6, <2>1 DEF IInv, TypeOK
  <2>2. CASE n \in E /\ LearnsFromCurrent(n)
    BY <1>2, <1>3, <2>2 DEF LearnsFromCurrent, Visited
  <2> QED
    BY <1>8, <2>1, <2>2
<1>9. Settled'
  <2> SUFFICES ASSUME NEW m \in Nodes, Visited(m)', m \notin nodesToTraverse'
               PROVE  /\ RecordedBefore(m, Len(occurrences(m)) + 1)'
                      /\ PassedOn(m)'
    BY DEF Settled
  <2>1. /\ unassignedAtEntry'[m] = unassignedAtEntry[m]
        /\ uninitializedAccesses'[m] = uninitializedAccesses[m]
        /\ m \notin nodesToTraverse
        /\ Visited(m)
    BY <1>7 DEF Visited
  <2>2. occurrences(m) \in Seq(VariableOccurrence) /\ cfg.exits[m] \subseteq Nodes
    BY <1>1 DEF TypeOK, CFG, occurrences
  <2>3. /\ occurrences(m)' = occurrences(m)
        /\ \A i \in Nat : KnownUnassigned(m, i)' = KnownUnassigned(m, i)
    BY <2>1 DEF KnownUnassigned, occurrences
  <2>4. RecordedBefore(m, Len(occurrences(m)) + 1)
    BY <1>1, <1>5, <2>1 DEF Settled, Processing
  <2>5. RecordedBefore(m, Len(occurrences(m)) + 1)'
    BY <2>1, <2>2, <2>3, <2>4 DEF RecordedBefore
  <2>6. ASSUME NEW e \in cfg.exits[m]
        PROVE  /\ KnownUnassigned(m, Len(occurrences(m)) + 1) \subseteq unassignedAtEntry'[e]
               /\ uninitializedAccesses[m] \subseteq uninitializedAccesses'[e]
    <3>1. CASE m = c
      BY <1>2, <1>3, <1>5, <2>2, <3>1
    <3>2. CASE m # c
      BY <1>1, <1>3, <2>1, <2>2, <3>2 DEF Settled, Processing, PassedOn
    <3> QED
      BY <3>1, <3>2
  <2>7. KnownUnassigned(m, Len(occurrences(m)) + 1)'
          = KnownUnassigned(m, Len(occurrences(m)) + 1)
    BY <2>1 DEF KnownUnassigned, occurrences
  <2>8. PassedOn(m)'
    BY <2>1, <2>6, <2>7 DEF PassedOn
  <2> QED
    BY <2>5, <2>8
<1>10. Justified'
  <2>1. c \in Reachable(cfg, Entry) /\ E \subseteq Reachable(cfg, Entry)
    BY <1>1, <1>2, <1>5, ReachableClosed, FlowAssumption DEF Justified, TypeOK
  <2>2. ASSUME NEW n \in Nodes, NEW v \in unassignedAtEntry'[n]
        PROVE  n \in EnteredUnassigned(cfg, v)
    <3>1. CASE v \in unassignedAtEntry[n]
      BY <1>1, <3>1 DEF Justified
    <3>2. CASE v \notin unassignedAtEntry[n]
      <4>1. n \in E /\ v \in KnownUnassigned(c, Len(b) + 1) /\ v \in Vars
        BY <1>3, <1>5, <3>2 DEF KnownUnassigned
      <4>2. v \in unassignedAtEntry[c] => c \in EnteredUnassigned(cfg, v)
        BY <1>1, <1>2 DEF Justified
      <4>3. UnassignedBefore(b, v, Len(b) + 1, c \in EnteredUnassigned(cfg, v))
        BY <4>1, <4>2 DEF KnownUnassigned, UnassignedBefore
      <4> QED
        BY <1>1, <2>1, <4>1, <4>3, EnteredClosed DEF occurrences, TypeOK
    <3> QED
      BY <3>1, <3>2
  <2>3. ASSUME NEW n \in Nodes, NEW p \in uninitializedAccesses'[n]
        PROVE  /\ \E v \in StorageVars : UsedUnassigned(cfg, v, p[1], p[2])
               /\ n \in Reachable(cfg, p[1])
    <3>1. CASE p \in uninitializedAccesses[n]
      BY <1>1, <3>1 DEF Justified
    <3>2. CASE p \notin uninitializedAccesses[n]
      <4>1. n \in E /\ p \in uninitializedAccesses[c]
        BY <1>3, <3>2
      <4>2. p[1] \in Nodes
        BY <1>1, <1>2, <4>1 DEF TypeOK, OccurrencePointer
      <4>3. /\ \E v \in StorageVars : UsedUnassigned(cfg, v, p[1], p[2])
            /\ c \in Reachable(cfg, p[1])
        BY <1>1, <1>2, <4>1 DEF Justified
      <4>4. n \in Reachable(cfg, p[1])
        BY <1>1, <4>1, <4>2, <4>3, ReachableClosed DEF TypeOK
      <4> QED
        BY <4>3, <4>4
    <3> QED
      BY <3>1, <3>2
  <2>4. ASSUME NEW n \in Nodes, Visited(n)'
        PROVE  n \in Reachable(cfg, Entry)
    <3>1. Visited(n) \/ n \in E
      BY <1>3, <2>4 DEF Visited
    <3> QED
      BY <1>1, <2>1, <3>1 DEF Justified
  <2> QED
    BY <2>2, <2>3, <2>4 DEF Justified
<1>11. WellFormed(cfg)' /\ Finished' /\ Scanning'
  BY <1>1 DEF Finished, Scanning
<1> QED
  BY <1>4, <1>8, <1>9, <1>10, <1>11 DEF IInv

\* Reporting changes nothing that the analysis has recorded.
LEMMA ReportIInv ==
    ASSUME IInv, Report
    PROVE  IInv'
<1> USE DEF Report
<1>1. TypeOK /\ Settled /\ Justified
  BY DEF IInv
<1>2. TypeOK'
  BY <1>1, FlowAssumption DEF TypeOK, occurrences
<1>3. \A n \in Nodes : Visited(n)' <=> Visited(n)
  BY DEF Visited
<1>4. Settled'
  BY <1>1, <1>3
     DEF Settled, Processing, RecordedBefore, PassedOn, KnownUnassigned, occurrences
<1>5. Justified'
  BY <1>1, <1>3 DEF Justified
<1> QED
  BY <1>2, <1>4, <1>5 DEF IInv, Finished, Scanning

\* IInv holds in every state of every run of the analysis.
LEMMA Invariance == Spec => []IInv
<1>1. IInv /\ [Next]_vars => IInv'
  <2> SUFFICES ASSUME IInv, [Next]_vars PROVE IInv'
    OBVIOUS
  <2>1. ASSUME NEW n \in Nodes, Traverse(n) PROVE IInv'
    BY <2>1, TraverseIInv
  <2>2. CASE ProcessOccurrence
    BY <2>2, ProcessOccurrenceIInv
  <2>3. CASE Propagate
    BY <2>3, PropagateIInv
  <2>4. CASE Report
    BY <2>4, ReportIInv
  <2>5. CASE UNCHANGED vars
    BY <2>5 DEF vars, IInv, TypeOK, Scanning, Settled, Justified, Finished, Visited,
                Processing, RecordedBefore, PassedOn, KnownUnassigned, occurrences
  <2> QED
    BY <2>1, <2>2, <2>3, <2>4, <2>5 DEF Next
<1> QED
  BY InitIInv, <1>1, PTL DEF Spec

\* The analysis keeps its data in its types.
THEOREM TypeCorrect == Spec => []TypeOK
<1>1. IInv => TypeOK
  BY DEF IInv
<1> QED
  BY Invariance, <1>1, PTL

-----------------------------------------------------------------------------
(* At the end.                                                              *)

\* When the worklist is empty, what is recorded includes, for every storage
\* pointer, every use that a path reaches with the pointer unassigned.
LEMMA AllUsesRecorded ==
    ASSUME IInv, pc = "done", NEW v \in StorageVars, NEW n \in Nodes, NEW i \in Nat,
           UsedUnassigned(cfg, v, n, i)
    PROVE  <<n, i>> \in uninitializedAccesses[n]
<1> DEFINE U == {m \in Nodes : v \in unassignedAtEntry[m]}
           R == Reachable(cfg, Entry)
           occs(m) == cfg.variableOccurrences[m]
<1>1. /\ TypeOK /\ WellFormed(cfg) /\ nodesToTraverse = {} /\ v \in Vars
      /\ \A m \in Nodes : occs(m) \in Seq(VariableOccurrence) /\ cfg.exits[m] \subseteq Nodes
  BY FlowAssumption DEF IInv, Finished, TypeOK, CFG
<1>2. PICK P \in SUBSET Nodes :
        /\ \A m \in Nodes \ {Entry} : \A j \in 1..Len(occs(m)) :
              Declares(occs(m)[j], v) =>
                 /\ \A k \in (j + 1)..Len(occs(m)) :
                       Uses(occs(m)[k], v) => ~NotAssignedIn(occs(m), v, j + 1, k)
                 /\ NotAssignedIn(occs(m), v, j + 1, Len(occs(m)) + 1)
                       => cfg.exits[m] \subseteq P
        /\ \A m \in P :
              /\ \A k \in 1..Len(occs(m)) :
                    Uses(occs(m)[k], v) => ~NotAssignedIn(occs(m), v, 1, k)
              /\ NotAssignedIn(occs(m), v, 1, Len(occs(m)) + 1)
                    => cfg.exits[m] \subseteq P
  BY <1>1 DEF WellFormed, InitialisedByItsDeclaration
<1>3. \A m \in Nodes : m = Entry \/ m \in U =>
        /\ RecordedBefore(m, Len(occs(m)) + 1)
        /\ PassedOn(m)
  BY <1>1 DEF IInv, Settled, Processing, Visited, occurrences
<1>4. ClosedForUnassigned(cfg, v, R, U \cup P)
  <2> SUFFICES ASSUME NEW m \in Nodes,
                      UnassignedBefore(occs(m), v, Len(occs(m)) + 1, m \in U \cup P)
               PROVE  cfg.exits[m] \subseteq U \cup P
    BY DEF ClosedForUnassigned, Reachable
  <2>1. CASE UnassignedBefore(occs(m), v, Len(occs(m)) + 1, m \in U) /\ (m = Entry \/ m \in U)
    BY <1>1, <1>3, <2>1 DEF PassedOn, KnownUnassigned, occurrences
  <2>2. CASE m \in P /\ NotAssignedIn(occs(m), v, 1, Len(occs(m)) + 1)
    BY <1>2, <2>2
  <2>3. CASE /\ m # Entry
             /\ \E j \in 1..Len(occs(m)) :
                    Declares(occs(m)[j], v)
                    /\ NotAssignedIn(occs(m), v, j + 1, Len(occs(m)) + 1)
    BY <1>2, <2>3
  <2>4. (Len(occs(m)) + 1) - 1 = Len(occs(m))
    BY <1>1
  <2> QED
    BY <2>1, <2>2, <2>3, <2>4 DEF UnassignedBefore
<1>5. EnteredUnassigned(cfg, v) \subseteq U \cup P
  BY <1>4 DEF EnteredUnassigned
<1>6. /\ i \in 1..Len(occs(n))
      /\ Uses(occs(n)[i], v)
      /\ UnassignedBefore(occs(n), v, i, n \in EnteredUnassigned(cfg, v))
  BY DEF UsedUnassigned
<1>7. UnassignedBefore(occs(n), v, i, n \in U \cup P)
  BY <1>5, <1>6 DEF UnassignedBefore
<1>8. UnassignedBefore(occs(n), v, i, n \in U) /\ (n = Entry \/ n \in U)
  <2>1. ~(n \in P /\ NotAssignedIn(occs(n), v, 1, i))
    BY <1>2, <1>6
  <2>2. ASSUME n # Entry
        PROVE  ~ \E j \in 1..(i - 1) :
                   Declares(occs(n)[j], v) /\ NotAssignedIn(occs(n), v, j + 1, i)
    <3> SUFFICES ASSUME NEW j \in 1..(i - 1), Declares(occs(n)[j], v),
                        NotAssignedIn(occs(n), v, j + 1, i)
                 PROVE  FALSE
      OBVIOUS
    <3>1. j \in 1..Len(occs(n)) /\ i \in (j + 1)..Len(occs(n))
      BY <1>1, <1>6
    <3> QED
      BY <1>2, <1>6, <2>2, <3>1
  <2> QED
    BY <1>7, <2>1, <2>2 DEF UnassignedBefore
<1>9. v \in KnownUnassigned(n, i)
  BY <1>1, <1>8 DEF KnownUnassigned, occurrences
<1>10. RecordedBefore(n, Len(occs(n)) + 1)
  BY <1>3, <1>8
<1>11. i \in 1..((Len(occs(n)) + 1) - 1)
  BY <1>1, <1>6
<1> QED
  BY <1>6, <1>9, <1>10, <1>11 DEF RecordedBefore, occurrences

\* checkUninitializedAccess reports a use of a storage pointer if, and only if,
\* some path from the entry node to the exit node makes that use before it has
\* assigned the pointer, for every graph and in whatever order the worklist
\* yields its nodes.
THEOREM ReportIsExact == Spec => []ReportsExactlyUninitializedAccesses
<1>1. IInv => ReportsExactlyUninitializedAccesses
  <2> SUFFICES ASSUME IInv, pc = "done", NEW n \in Nodes,
                      NEW i \in 1..Len(occurrences(n))
               PROVE  <<n, i>> \in reported <=> <<n, i>> \in UninitializedAccesses(cfg)
    BY DEF ReportsExactlyUninitializedAccesses
  <2> DEFINE p == <<n, i>>
  <2>1. /\ TypeOK /\ nodesToTraverse = {} /\ reported = uninitializedAccesses[Exit]
        /\ Justified /\ Exit \in Nodes
    BY FlowAssumption DEF IInv, Finished
  <2>2. p \in OccurrencePointer /\ p[1] = n /\ p[2] = i
    BY <2>1 DEF OccurrencePointer, TypeOK, CFG, occurrences
  <2>3. p \in reported => p \in UninitializedAccesses(cfg)
    BY <2>1, <2>2 DEF Justified, UninitializedAccesses
  <2>4. ASSUME p \in UninitializedAccesses(cfg)
        PROVE  p \in reported
    <3> DEFINE S == {m \in Nodes : p \in uninitializedAccesses[m]}
    <3>1. PICK v \in StorageVars : UsedUnassigned(cfg, v, n, i)
      BY <2>2, <2>4 DEF UninitializedAccesses
    <3>2. n \in S
      BY <3>1, AllUsesRecorded
    <3>3. ClosedUnderExits(cfg, S)
      <4> SUFFICES ASSUME NEW m \in S, NEW e \in cfg.exits[m]
                   PROVE  e \in S
        BY DEF ClosedUnderExits
      <4>1. e \in Nodes
        BY <2>1 DEF TypeOK, CFG
      <4>2. Visited(m) /\ PassedOn(m)
        BY <2>1 DEF IInv, Settled, Visited, Processing
      <4> QED
        BY <4>1, <4>2 DEF PassedOn
    <3>4. Exit \in Reachable(cfg, n)
      BY <2>2, <2>4 DEF UninitializedAccesses
    <3>5. Exit \in S
      BY <2>1, <3>2, <3>3, <3>4, ReachableLeast DEF TypeOK
    <3> QED
      BY <2>1, <3>5
  <2> QED
    BY <2>3, <2>4
<1> QED
  BY Invariance, <1>1, PTL

=============================================================================
