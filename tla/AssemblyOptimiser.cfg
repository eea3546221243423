SPECIFICATION FairSpec
CONSTANTS
    WordBits = 4
    AddressBits = 2
    Cases <- MCCases
    Stacks <- MCStacks
    Fuel = 24
INVARIANT OptimisedCodeDoesTheSame
INVARIANT OwnReferencesHavePositions
INVARIANT OutsideTagsAreKept
INVARIANT ForeignTagsKeepTheirMeaning
INVARIANT ReplacementsGoBackwards
PROPERTY Terminates
PROPERTY FailsOnlyByChains
