SPECIFICATION Spec
CONSTANTS
    NestingLimit = 3
    Programs <- WithJumps
INVARIANT ReadAssignmentsStay
