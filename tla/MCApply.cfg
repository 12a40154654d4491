SPECIFICATION ApplySpec
CONSTANTS
    NoRow = NoRow
    NoSpec = NoSpec
    NoStatus = NoStatus
    NoRead = NoRead
    NoCall = NoCall
    Sessions <- MCSessions
    Commands <- MCSessions
    Manifest <- MCManifest
    Projects = {"p"}
    Names = {"w"}
    ProjectSpecs <- MCProjectSpecs
    WorkflowSpecs <- MCWorkflowSpecs
    ReuseNames = TRUE
    MaxUid = 3
    MaxVersion = 2
    MaxProjectVersion = 2
    MaxFaults = 1
INVARIANTS WritesAreAPrefix RefusalsAreRaces
