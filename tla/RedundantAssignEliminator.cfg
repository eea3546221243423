SPECIFICATION Spec
CONSTANTS
    NestingLimit = 3
    Programs <- MCPrograms
INVARIANT ReadAssignmentsStay
INVARIANT UnreadAssignmentsGo
