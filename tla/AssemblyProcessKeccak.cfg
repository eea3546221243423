SPECIFICATION Spec
CONSTANTS
    WordBits = 28
    ByteBits = 2
    AddressBits = 10
    SwapReach = 16
    TagLimit = 64
    AddressSize = 5
    Cases <- KeccakCases
    Addresses <- MCAddresses
    Inputs <- MCInputs
    MaxSteps = 200
INVARIANT OptimisedBytecodeDoesTheSame
CHECK_DEADLOCK FALSE
