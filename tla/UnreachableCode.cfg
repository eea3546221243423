SPECIFICATION FairSpec
CONSTANTS
    entry = entry
    exit = exit
    revert = revert
    n1 = n1
    n2 = n2
    n3 = n3
    Nodes <- MCNodes
    Entry = entry
    Exit = exit
    Revert = revert
    Vars = {}
    StorageVars = {}
    Sources = {1, 2}
    Graphs <- MCGraphs
CHECK_DEADLOCK FALSE
INVARIANTS
    CollectsExactlyUnreachable
    EveryLocationIsWarned
    WarningsAreUnreachable
PROPERTIES
    Terminates
