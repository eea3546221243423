SPECIFICATION FairSpec
CONSTANTS
    s1 = s1
    s2 = s2
    s3 = s3
    MaxErrors = 2
    MaxWarnings = 1
    Paths <- TwoPaths
    Contents <- TwoContents
    Declaring <- TwoPaths
    Deployable <- TwoPaths
    Bases <- TwoBases
    Creates <- TwoCreates
    Settings = {"default", "other"}
    DefaultSettings = "default"
    RequestSets <- Requests
INVARIANTS
    AnalysedWithoutErrors
    ParsedIsComplete
    ArtifactsAreCurrent
    OrderRespectsImports
PROPERTIES
    CompileDelivers
    DependenciesFirst
    CallsReturn
