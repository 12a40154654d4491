SPECIFICATION Spec
CONSTANTS
    NoRow = NoRow
    NoSpec = NoSpec
    NoStatus = NoStatus
    NoRead = NoRead
    NoCall = NoCall
    Sessions = {s1, s2}
    Projects = {"p"}
    Names = {"w"}
    ProjectSpecs <- MCProjectSpecs
    WorkflowSpecs <- MCWorkflowSpecs
    ReuseNames = TRUE
    MaxUid = 3
    MaxVersion = 3
    MaxProjectVersion = 1
    MaxFaults = 0
SYMMETRY ClientSymmetry
INVARIANTS TypeOK VersionDeterminesContent WorkflowHadProject
PROPERTIES NoLostUpdate GenerationCountsEdits ReconcilerKeepsListedLife
