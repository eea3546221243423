SPECIFICATION FairSpec
CONSTANTS
    entry = entry
    exit = exit
    revert = revert
    n1 = n1
    n2 = n2
    ret = ret
    loc = loc
    mem = mem
    Nodes <- MCNodes
    Entry = entry
    Exit = exit
    Revert = revert
    Vars <- MCVars
    StorageVars <- MCStorageVars
    CFGs <- MCCFGs
CHECK_DEADLOCK FALSE
INVARIANTS
    ReportsExactlyUninitializedAccesses
PROPERTIES
    Terminates
