------------------------ MODULE UnreachableCodeProofs ------------------------
(***************************************************************************)
(* For every graph: the two breadth first searches collect the locations    *)
(* of exactly the unreachable nodes that lead out of the function, and for  *)
(* code of one source unit the merging loop neither loses nor invents any.  *)
(*                                                                         *)
(* The argument.  During a search, the visited and the queued vertices are  *)
(* reachable, and the children of the visited ones are among them; when     *)
(* the queue is empty the visited set is closed, hence all that can be      *)
(* reached.  During the merging, what is behind the iterator is covered by  *)
(* a warning or by the location being extended, and all warnings end        *)
(* before what is ahead of it starts.                                       *)
(***************************************************************************)
EXTENDS UnreachableCode, TLAPS

Seen == visited \cup verticesToTraverse

Forward ==
    phase = "forward" =>
        /\ Entry \in Seen
        /\ Seen \subseteq Reachable(cfg, Entry)
        /\ \A n \in visited : cfg.exits[n] \subseteq Seen
        /\ unreachable = {}

\* The locations that the second search collects at the nodes of a set.
LocationsOf(S) ==
    {cfg.location[n] : n \in {m \in S \ reachable : ~isEmpty(cfg.location[m])}}

Backward ==
    /\ phase # "forward" => reachable = Reachable(cfg, Entry)
    /\ phase = "backward" =>
          /\ {Exit, Revert} \subseteq Seen
          /\ Seen \subseteq LeadsOut(cfg)
          /\ \A n \in visited : entries(cfg, n) \subseteq Seen
          /\ unreachable = LocationsOf(visited)
    /\ phase \in {"report", "extend", "done"} => unreachable = LocationsOf(LeadsOut(cfg))

Unreported == phase \in {"forward", "backward"} => warnings = {} /\ rest = {}

InUnreachable(w) ==
    \A p \in w.start..(w.end - 1) : \E l \in unreachable : l.start <= p /\ p < l.end

\* The location being extended.
Current ==
    phase = "extend" =>
        /\ \E l \in unreachable : l.source = location.source
        /\ InUnreachable(location)
        /\ \A l \in rest : location.start <= l.start
        /\ \A w \in warnings : w.end < location.start

Merged ==
    /\ phase \in {"report", "extend", "done"} =>
          \A l \in unreachable \ rest :
              \/ \E w \in warnings : Covers(w, l)
              \/ phase = "extend" /\ Covers(location, l)
    /\ \A w \in warnings : InUnreachable(w)
    /\ \A w \in warnings : \A l \in rest : w.end < l.start
    /\ \A v, w \in warnings : v # w => v.end < w.start \/ w.end < v.start
    /\ phase = "done" => rest = {}

IInv ==
    /\ TypeOK
    /\ Forward
    /\ Backward
    /\ Unreported
    /\ unreachable \subseteq {cfg.location[n] : n \in Nodes}
    /\ OneSource => Current /\ Merged

-----------------------------------------------------------------------------

\* What follows a reachable node is reachable.
LEMMA ReachableClosed ==
    ASSUME NEW g, g.exits \in [Nodes -> SUBSET Nodes]
    PROVE  /\ Entry \in Reachable(g, Entry)
           /\ \A m \in Reachable(g, Entry) : g.exits[m] \subseteq Reachable(g, Entry)
           /\ Reachable(g, Entry) \subseteq Nodes
BY FlowAssumption DEF Reachable, ClosedUnderExits

\* What precedes a node that leads out leads out.
LEMMA LeadsOutClosed ==
    ASSUME NEW g
    PROVE  /\ {Exit, Revert} \subseteq LeadsOut(g)
           /\ \A m \in LeadsOut(g) : entries(g, m) \subseteq LeadsOut(g)
           /\ LeadsOut(g) \subseteq Nodes
BY FlowAssumption DEF LeadsOut, ClosedUnderEntries, entries

\* The searches have not begun.
LEMMA InitIInv == Init => IInv
<1> SUFFICES ASSUME Init PROVE IInv
  OBVIOUS
<1>1. TypeOK
  BY GraphsAssumption, FlowAssumption DEF Init, TypeOK
<1>2. Forward
  BY <1>1, ReachableClosed DEF Init, Forward, Seen, TypeOK
<1> QED
  BY <1>1, <1>2 DEF Init, IInv, Backward, Unreported, Current, Merged

\* The steps of the two searches.
LEMMA SearchIInv ==
    ASSUME IInv,
           \/ \E v \in Nodes : VisitForward(v) \/ VisitBackward(v)
           \/ StartBackward
           \/ StartReport
    PROVE  IInv'
<1>1. TypeOK /\ Forward /\ Backward /\ Unreported
  BY DEF IInv
<1>2. ASSUME NEW v \in Nodes, VisitForward(v)
      PROVE  IInv'
  <2> USE <1>2 DEF VisitForward, Visit
  <2>1. cfg.exits[v] \subseteq Nodes
    BY <1>1 DEF TypeOK
  <2>2. TypeOK'
    BY <1>1, <2>1 DEF TypeOK
  <2>3. v \in Reachable(cfg, Entry) /\ cfg.exits[v] \subseteq Reachable(cfg, Entry)
    BY <1>1, ReachableClosed DEF Forward, Seen, TypeOK
  <2>4. Seen' = Seen \cup cfg.exits[v]
    BY DEF Seen
  <2>5. Forward'
    BY <1>1, <2>3, <2>4 DEF Forward, Seen
  <2> QED
    BY <1>1, <2>2, <2>5 DEF IInv, Backward, Unreported, Current, Merged, OneSource
<1>3. ASSUME NEW v \in Nodes, VisitBackward(v)
      PROVE  IInv'
  <2> USE <1>3 DEF VisitBackward, Visit
  <2>1. entries(cfg, v) \subseteq Nodes
    BY DEF entries
  <2>2. TypeOK'
    BY <1>1, <2>1 DEF TypeOK, Unreported
  <2>3. v \in LeadsOut(cfg) /\ entries(cfg, v) \subseteq LeadsOut(cfg)
    BY <1>1, LeadsOutClosed DEF Backward, Seen
  <2>4. Seen' = Seen \cup entries(cfg, v)
    BY DEF Seen
  <2>5. LocationsOf(visited)' = LocationsOf(visited) \cup
          IF v \notin reachable /\ ~isEmpty(cfg.location[v])
          THEN {cfg.location[v]} ELSE {}
    BY DEF LocationsOf
  <2>6. Backward'
    BY <1>1, <2>3, <2>4, <2>5 DEF Backward, Seen
  <2> QED
    BY <1>1, <2>2, <2>6 DEF IInv, Forward, Unreported, Current, Merged, OneSource
<1>4. CASE StartBackward
  <2> USE <1>4 DEF StartBackward
  <2>1. TypeOK'
    BY <1>1, FlowAssumption DEF TypeOK
  <2>2. visited \subseteq Reachable(cfg, Entry) /\ Entry \in visited
    BY <1>1 DEF Forward, Seen
  <2>3. ClosedUnderExits(cfg, visited)
    BY <1>1 DEF Forward, Seen, ClosedUnderExits
  <2>4. visited = Reachable(cfg, Entry)
    BY <1>1, <2>2, <2>3 DEF Reachable, TypeOK
  <2>5. Backward'
    BY <1>1, <2>4, LeadsOutClosed DEF Backward, Forward, Seen, LocationsOf
  <2> QED
    BY <1>1, <2>1, <2>5 DEF IInv, Forward, Unreported, Current, Merged, OneSource
<1>5. CASE StartReport
  <2> USE <1>5 DEF StartReport
  <2>1. TypeOK'
    BY <1>1 DEF TypeOK
  <2>2. visited \subseteq LeadsOut(cfg) /\ {Exit, Revert} \subseteq visited
    BY <1>1 DEF Backward, Seen
  <2>3. ClosedUnderEntries(cfg, visited)
    BY <1>1 DEF Backward, Seen, ClosedUnderEntries
  <2>4. visited = LeadsOut(cfg)
    BY <1>1, <2>2, <2>3 DEF LeadsOut, TypeOK
  <2>5. Backward'
    BY <1>1, <2>4 DEF Backward, LocationsOf
  <2> QED
    BY <1>1, <2>1, <2>5 DEF IInv, Forward, Unreported, Current, Merged, OneSource
<1> QED
  BY <1>2, <1>3, <1>4, <1>5

\* The steps of the merging loop leave what the searches found alone.
LEMMA MergeKeepsSearch ==
    ASSUME IInv,
           \/ \E l \in rest : NextLocation(l) \/ ExtendLocation(l)
           \/ Warn
           \/ Finish
    PROVE  /\ TypeOK' /\ Forward' /\ Backward' /\ Unreported'
           /\ unreachable' \subseteq {cfg'.location[n] : n \in Nodes}
           /\ unreachable' = unreachable
           /\ OneSource' <=> OneSource
           /\ phase \in {"report", "extend"}
<1>1. TypeOK /\ Backward
  BY DEF IInv
<1>2. ASSUME NEW l \in rest, ExtendLocation(l)
      PROVE  location' \in SourceLocation
  BY <1>1, <1>2 DEF ExtendLocation, TypeOK, SourceLocation
<1>3. TypeOK'
  BY <1>1, <1>2 DEF TypeOK, NextLocation, ExtendLocation, Warn, Finish
<1> QED
  BY <1>1, <1>3 DEF IInv, NextLocation, ExtendLocation, Warn, Finish,
        Forward, Backward, Unreported, LocationsOf, OneSource

\* With one source, the sorted set is ordered by the start of its elements.
LEMMA FirstStartsFirst ==
    ASSUME IInv, OneSource, NEW l \in rest, IsFirst(l, rest), NEW m \in rest
    PROVE  /\ l.start \in Int /\ m.start \in Int
           /\ l.start <= m.start
           /\ l.source = m.source
<1>1. TypeOK /\ unreachable \subseteq {cfg.location[n] : n \in Nodes}
  BY DEF IInv
<1>2. l \in SourceLocation /\ m \in SourceLocation
  BY <1>1 DEF TypeOK
<1>3. l.source = m.source
  BY <1>1 DEF OneSource, TypeOK
<1>4. l.source \in Nat
  BY <1>2, GraphsAssumption DEF SourceLocation
<1> QED
  BY <1>2, <1>3, <1>4 DEF IsFirst, Before, SourceLocation

\* The steps of the merging loop.
LEMMA MergeIInv ==
    ASSUME IInv,
           \/ \E l \in rest : NextLocation(l) \/ ExtendLocation(l)
           \/ Warn
           \/ Finish
    PROVE  IInv'
<1> SUFFICES ASSUME OneSource PROVE Current' /\ Merged'
  BY MergeKeepsSearch DEF IInv
<1>1. TypeOK /\ Current /\ Merged /\ unreachable' = unreachable /\ rest \subseteq unreachable
  BY MergeKeepsSearch DEF IInv, TypeOK
<1>2. /\ \A l \in unreachable : l \in SourceLocation /\ l.start \in Int /\ l.end \in Int
      /\ \A w \in warnings : w.start \in Int /\ w.end \in Int
      /\ location.start \in Int /\ location.end \in Int
  BY <1>1 DEF TypeOK, SourceLocation
<1>3. \A l, m \in unreachable : l.source = m.source
  BY ZenonT(30) DEF IInv, OneSource
<1>4. ASSUME NEW l \in rest, NextLocation(l)
      PROVE  Current' /\ Merged'
  <2> USE <1>4 DEF NextLocation
  <2>1. InUnreachable(l)'
    BY <1>1, <1>2 DEF InUnreachable
  <2>2. Current'
    <3>1. \A m \in rest : l.start <= m.start
      BY FirstStartsFirst
    <3>2. \A w \in warnings : w.end < l.start
      BY <1>1 DEF Merged
    <3> QED
      BY <1>1, <2>1, <3>1, <3>2 DEF Current, InUnreachable
  <2>3. Covers(l, l)
    BY <1>1, <1>2 DEF Covers
  <2>4. \A w \in warnings : InUnreachable(w)'
    BY <1>1 DEF Merged, InUnreachable
  <2>5. Merged'
    BY <1>1, <2>3, <2>4 DEF Merged
  <2> QED
    BY <2>2, <2>5
<1>5. ASSUME NEW l \in rest, ExtendLocation(l)
      PROVE  Current' /\ Merged'
  <2> USE <1>5 DEF ExtendLocation
  <2>1. /\ location'.source = location.source
        /\ location'.start = location.start
        /\ location'.end = IF l.end > location.end THEN l.end ELSE location.end
    BY <1>1 DEF TypeOK, SourceLocation
  <2>2. l.start <= location.end /\ location.start <= l.start
    BY <1>1 DEF Overlaps, Current
  <2>3. InUnreachable(location)'
    <3> SUFFICES ASSUME NEW p \in location.start..(location'.end - 1)
                 PROVE  \E m \in unreachable : m.start <= p /\ p < m.end
      BY <1>1, <2>1 DEF InUnreachable
    <3>1. CASE p < location.end
      BY <1>1, <1>2, <2>1, <3>1 DEF Current, InUnreachable
    <3>2. CASE location.end <= p
      BY <1>1, <1>2, <2>1, <2>2, <3>2
    <3> QED
      BY <1>2, <2>1, <3>1, <3>2
  <2>4. Current'
    BY <1>1, <2>1, <2>3 DEF Current
  <2>5. Covers(location, l)'
    BY <1>1, <1>2, <1>3, <2>1, <2>2 DEF Covers, Current
  <2>6. \A m \in unreachable : Covers(location, m) => Covers(location', m)
    BY <1>1, <1>2, <2>1 DEF Covers
  <2>7. \A w \in warnings : InUnreachable(w)'
    BY <1>1 DEF Merged, InUnreachable
  <2>8. Merged'
    BY <1>1, <2>5, <2>6, <2>7 DEF Merged
  <2> QED
    BY <2>4, <2>8
<1>6. CASE Warn
  <2> USE <1>6 DEF Warn
  <2>1. \A m \in rest : location.end < m.start
    <3> SUFFICES ASSUME NEW m \in rest PROVE location.end < m.start
      OBVIOUS
    <3>1. PICK l \in rest : IsFirst(l, rest) /\ ~Overlaps(l)
      OBVIOUS
    <3> QED
      BY <1>2, <3>1, FirstStartsFirst DEF Overlaps
  <2>2. \A w \in warnings' : InUnreachable(w)'
    BY <1>1 DEF Merged, Current, InUnreachable
  <2>3. Merged'
    BY <1>1, <2>1, <2>2 DEF Merged, Current
  <2> QED
    BY <2>3 DEF Current
<1>7. CASE Finish
  BY <1>1, <1>7 DEF Finish, Current, Merged, InUnreachable
<1> QED
  BY <1>4, <1>5, <1>6, <1>7

\* IInv holds in every state of every run of checkUnreachable.
LEMMA Invariance == Spec => []IInv
<1>1. IInv /\ [Next]_vars => IInv'
  <2> SUFFICES ASSUME IInv, [Next]_vars PROVE IInv'
    OBVIOUS
  <2>1. CASE UNCHANGED vars
    BY <2>1 DEF vars, IInv, TypeOK, Forward, Backward, Seen, LocationsOf, Unreported,
                InUnreachable, Current, Merged, OneSource
  <2> QED
    BY <2>1, SearchIInv, MergeIInv DEF Next
<1> QED
  BY InitIInv, <1>1, PTL DEF Spec

\* The two breadth first searches of checkUnreachable collect the locations of
\* exactly the nodes that are unreachable from the entry node and lead to the
\* exit or the revert node, in whatever order they take the vertices.
THEOREM SearchIsExact == Spec => []CollectsExactlyUnreachable
<1>1. IInv => CollectsExactlyUnreachable
  BY DEF IInv, Backward, CollectsExactlyUnreachable, LocationsOf
<1> QED
  BY Invariance, <1>1, PTL

\* If the code is of one source unit, the merging loop of checkUnreachable puts
\* every location of unreachable code inside a warning.
THEOREM MergeLosesNothing == Spec => []EveryLocationIsWarned
<1>1. IInv => EveryLocationIsWarned
  BY DEF IInv, Merged, EveryLocationIsWarned
<1> QED
  BY Invariance, <1>1, PTL

\* If the code is of one source unit, the merging loop of checkUnreachable warns
\* about no position that is not in unreachable code, and about none twice.
THEOREM MergeInventsNothing == Spec => []WarningsAreUnreachable
<1>1. IInv => WarningsAreUnreachable
  BY DEF IInv, Merged, InUnreachable, WarningsAreUnreachable
<1> QED
  BY Invariance, <1>1, PTL

=============================================================================
