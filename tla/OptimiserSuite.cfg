SPECIFICATION Spec
INVARIANTS NoAssertionFails NamesStayUnique StepsKeepTheBehaviour GeneratedCodeDoesTheSame
CONSTANTS
    WordBits = 3
    ByteBits = 1
    AddressBits = 2
    StackReach = 5
    Runs = 1
    IsCreation = FALSE
    hasBitwiseShifting = TRUE
    Sources <- MCSources
    Inputs = {0, 1, 2, 5}
    Fuel = 60
    RoundLimit = 12
    CompressorLimit = 16
    Revisits = {TRUE, FALSE}
