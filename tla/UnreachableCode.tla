--------------------------- MODULE UnreachableCode ---------------------------
(***************************************************************************)
(* ControlFlowAnalyzer::checkUnreachable of                                *)
(* libpolynomial/analysis/ControlFlowAnalyzer.cpp, with the                *)
(* BreadthFirstSearch of libdevcore/Algorithms.h that it runs twice:       *)
(* forwards from the entry node to collect the reachable nodes, backwards  *)
(* from the exit and the revert node to collect the locations of the nodes *)
(* that are not.  The locations are then merged into warnings.             *)
(*                                                                         *)
(* verticesToTraverse is a std::set of pointers: the search takes any of   *)
(* its elements.  The set of locations is sorted by SourceLocation's       *)
(* operator<, that is by source name, start and end; a source name is      *)
(* modelled by its rank among the names.                                   *)
(***************************************************************************)
EXTENDS ControlFlowGraph, Integers

CONSTANTS
    Sources,     \* the source units the code of one function may come from
    Graphs       \* the graphs (exits and a location per node) to analyse

SourceLocation == [source : Sources, start : Int, end : Int]

isEmpty(l) == l.start = -1 /\ l.end = -1

ASSUME GraphsAssumption ==
    /\ Sources \subseteq Nat
    /\ \A g \in Graphs :
          /\ g.exits \in [Nodes -> SUBSET Nodes]
          /\ g.location \in [Nodes -> SourceLocation]

VARIABLES
    cfg,                 \* the graph being analysed
    phase,               \* "forward", "backward", "report", "extend" or "done"
    verticesToTraverse,  \* BreadthFirstSearch::verticesToTraverse
    visited,             \* BreadthFirstSearch::visited
    reachable,           \* the result of the first search
    unreachable,         \* the locations the second search collects
    rest,                \* those the loop over them has still to come to
    location,            \* the location being extended
    warnings             \* the locations reported as "Unreachable code."

vars == <<cfg, phase, verticesToTraverse, visited, reachable, unreachable,
          rest, location, warnings>>

\* The types of the variables: part of the invariant that the proofs use.
TypeOK ==
    /\ cfg.exits \in [Nodes -> SUBSET Nodes]
    /\ cfg.location \in [Nodes -> SourceLocation]
    /\ phase \in {"forward", "backward", "report", "extend", "done"}
    /\ verticesToTraverse \in SUBSET Nodes
    /\ visited \in SUBSET Nodes
    /\ reachable \in SUBSET Nodes
    /\ unreachable \in SUBSET SourceLocation
    /\ rest \in SUBSET unreachable
    /\ location \in SourceLocation
    /\ warnings \in SUBSET SourceLocation

\* SourceLocation::operator<
Before(l, m) ==
    \/ l.source < m.source
    \/ l.source = m.source /\ l.start < m.start
    \/ l.source = m.source /\ l.start = m.start /\ l.end < m.end

\* l is the first element of the sorted set S.
IsFirst(l, S) == l \in S /\ \A m \in S \ {l} : Before(l, m)

Init ==
    /\ cfg \in Graphs
    /\ phase = "forward"
    /\ verticesToTraverse = {Entry}
    /\ visited = {}
    /\ reachable = {}
    /\ unreachable = {}
    /\ rest = {}
    /\ location = cfg.location[Entry]
    /\ warnings = {}

-----------------------------------------------------------------------------

\* Mutant of Visit: children are queued again when they were visited before.
VisitAgain(v, children) ==
    /\ v \in verticesToTraverse
    /\ visited' = visited \cup {v}
    /\ verticesToTraverse' = (verticesToTraverse \ {v}) \cup children

\* One round of BreadthFirstSearch::run at vertex v with the given children.
Visit(v, children) ==
    /\ v \in verticesToTraverse
    /\ visited' = visited \cup {v}
    /\ verticesToTraverse' =
          (verticesToTraverse \ {v}) \cup (children \ (visited \cup {v}))

VisitForward(v) ==
    /\ phase = "forward"
    /\ Visit(v, cfg.exits[v])
    /\ UNCHANGED <<cfg, phase, reachable, unreachable, rest, location, warnings>>

StartBackward ==
    /\ phase = "forward"
    /\ verticesToTraverse = {}
    /\ reachable' = visited
    /\ visited' = {}
    /\ verticesToTraverse' = {Exit, Revert}
    /\ phase' = "backward"
    /\ UNCHANGED <<cfg, unreachable, rest, location, warnings>>

\* Mutant of VisitBackward: the result of the forward search is not consulted.
VisitBackwardUnfiltered(v) ==
    /\ phase = "backward"
    /\ Visit(v, entries(cfg, v))
    /\ unreachable' = unreachable \cup
          IF ~isEmpty(cfg.location[v]) THEN {cfg.location[v]} ELSE {}
    /\ UNCHANGED <<cfg, phase, reachable, rest, location, warnings>>

VisitBackward(v) ==
    /\ phase = "backward"
    /\ Visit(v, entries(cfg, v))
    /\ unreachable' = unreachable \cup
          IF v \notin reachable /\ ~isEmpty(cfg.location[v])
          THEN {cfg.location[v]} ELSE {}
    /\ UNCHANGED <<cfg, phase, reachable, rest, location, warnings>>

StartReport ==
    /\ phase = "backward"
    /\ verticesToTraverse = {}
    /\ rest' = unreachable
    /\ phase' = "report"
    /\ UNCHANGED <<cfg, verticesToTraverse, visited, reachable, unreachable,
                   location, warnings>>

-----------------------------------------------------------------------------

\* SourceLocation location = *it++
NextLocation(l) ==
    /\ phase = "report"
    /\ IsFirst(l, rest)
    /\ location' = l
    /\ rest' = rest \ {l}
    /\ phase' = "extend"
    /\ UNCHANGED <<cfg, verticesToTraverse, visited, reachable, unreachable,
                   warnings>>

\* Mutant of Overlaps: locations that touch do not overlap.
OverlapsStrictly(l) == l.start < location.end

\* The condition of the inner loop, besides it != unreachable.end().
Overlaps(l) == l.start <= location.end

\* Mutant of ExtendLocation: the end is overwritten, not maximised.
ReplaceEnd(l) ==
    /\ phase = "extend"
    /\ IsFirst(l, rest)
    /\ Overlaps(l)
    /\ location' = [location EXCEPT !.end = l.end]
    /\ rest' = rest \ {l}
    /\ UNCHANGED <<cfg, phase, verticesToTraverse, visited, reachable,
                   unreachable, warnings>>

ExtendLocation(l) ==
    /\ phase = "extend"
    /\ IsFirst(l, rest)
    /\ Overlaps(l)
    /\ location' = [location EXCEPT !.end = IF l.end > @ THEN l.end ELSE @]
    /\ rest' = rest \ {l}
    /\ UNCHANGED <<cfg, phase, verticesToTraverse, visited, reachable,
                   unreachable, warnings>>

Warn ==
    /\ phase = "extend"
    /\ rest = {} \/ \E l \in rest : IsFirst(l, rest) /\ ~Overlaps(l)
    /\ warnings' = warnings \cup {location}
    /\ phase' = "report"
    /\ UNCHANGED <<cfg, verticesToTraverse, visited, reachable, unreachable,
                   rest, location>>

Finish ==
    /\ phase = "report"
    /\ rest = {}
    /\ phase' = "done"
    /\ UNCHANGED <<cfg, verticesToTraverse, visited, reachable, unreachable,
                   rest, location, warnings>>

Next ==
    \/ \E v \in Nodes : VisitForward(v) \/ VisitBackward(v)
    \/ StartBackward
    \/ StartReport
    \/ \E l \in rest : NextLocation(l) \/ ExtendLocation(l)
    \/ Warn
    \/ Finish

Spec == Init /\ [][Next]_vars

FairSpec == Spec /\ WF_vars(Next)

-----------------------------------------------------------------------------

ClosedUnderEntries(g, S) == \A n \in S : entries(g, n) \subseteq S

\* The nodes from which the exit or the revert node can be reached.
LeadsOut(g) ==
    {m \in Nodes : \A S \in SUBSET Nodes :
        {Exit, Revert} \subseteq S /\ ClosedUnderEntries(g, S) => m \in S}

(***************************************************************************)
(* After the two searches the collected locations are those of exactly the *)
(* nodes that no path from the entry node reaches and that lead to the     *)
(* exit or the revert node.                                                *)
(***************************************************************************)
CollectsExactlyUnreachable ==
    phase \in {"report", "extend", "done"} =>
        LET Dead == LeadsOut(cfg) \ Reachable(cfg, Entry)
        IN unreachable =
              {cfg.location[n] : n \in {m \in Dead : ~isEmpty(cfg.location[m])}}

Covers(w, l) == w.source = l.source /\ w.start <= l.start /\ l.end <= w.end

\* All the code of the function is in one source unit.
OneSource == \A m, n \in Nodes : cfg.location[m].source = cfg.location[n].source

(***************************************************************************)
(* The merging loop loses nothing: every location of unreachable code lies *)
(* inside a warning about its own source, if the function and its          *)
(* modifiers come from one source unit.                                    *)
(***************************************************************************)
EveryLocationIsWarned ==
    phase = "done" /\ OneSource =>
        \A l \in unreachable : \E w \in warnings : Covers(w, l)

(***************************************************************************)
(* And it invents nothing: a position inside a warning lies inside one of  *)
(* the locations of unreachable code, and two warnings do not touch.       *)
(***************************************************************************)
WarningsAreUnreachable ==
    OneSource =>
        /\ \A w \in warnings : \A p \in w.start..(w.end - 1) :
              \E l \in unreachable : l.start <= p /\ p < l.end
        /\ \A v, w \in warnings : v # w => v.end < w.start \/ w.end < v.start

(***************************************************************************)
(* "Extend the location, as long as the next location overlaps (unreachable *)
(* is sorted)", ControlFlowAnalyzer.cpp: the loop only extends a location  *)
(* by locations that overlap it, so every location of unreachable code is  *)
(* inside a warning about its source.  A modifier may be inherited from    *)
(* another source unit, and the loop compares positions without comparing  *)
(* sources.                                                                *)
(***************************************************************************)
EveryLocationIsWarnedInItsSource ==
    phase = "done" =>
        \A l \in unreachable : \E w \in warnings : Covers(w, l)

\* Both searches and the merging loop come to an end.
Terminates == <>(phase = "done")

=============================================================================
