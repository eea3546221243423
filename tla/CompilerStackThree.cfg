SPECIFICATION CompilingSpec
CONSTANTS
    s1 = s1
    s2 = s2
    s3 = s3
    MaxErrors = 1
    MaxWarnings = 1
    Paths <- ThreePaths
    Contents <- GoodContents
    Declaring <- ThreePaths
    Deployable <- NotAbstract
    Bases <- ThreeBases
    Creates <- ThreeCreates
    Settings = {"default"}
    DefaultSettings = "default"
    RequestSets <- Requests
INVARIANTS
    CompiledContractIsFound
