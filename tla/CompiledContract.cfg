SPECIFICATION Spec
CHECK_DEADLOCK FALSE
CONSTANTS
    MaxLiteral = 20
    WordBits = 16
    ByteBits = 2
    AddressBits = 10
    SelectorBytes = 2
    PrecisionBits = 20
    StepItems = 200
    SignatureHash <- SelectorOf
    Hash <- SmallHash
    Programs <- SmallPrograms
INVARIANTS
    OperatorsBindAsDocumented
    NamesMeanTheInnermostDeclaration
    LinearisationKeepsEveryOrder
    GraphsAreWellFormed
    CodeIsComplete
PROPERTIES
    MutabilityIsKept
    PointersAreAssigned
    DoesWhatTheSourceSays
