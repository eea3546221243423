SPECIFICATION Spec
CONSTANTS
    WordBits = 28
    ByteBits = 2
    AddressBits = 10
    SwapReach = 16
    TagLimit = 64
    AddressSize = 5
    Cases <- MCCases
    Addresses <- MCAddresses
    Inputs <- MCInputs
    MaxSteps = 200
INVARIANTS
    AssertionsHold
    ReferencesResolve
    LinkedWhereKnown
    GasIsBounded
    OptimisedBytecodeDoesTheSame
PROPERTY LinkerSpec
CHECK_DEADLOCK FALSE
