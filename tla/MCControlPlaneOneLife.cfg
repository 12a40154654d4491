SPECIFICATION Spec
CONSTANTS
    NoRow = NoRow
    NoSpec = NoSpec
    NoStatus = NoStatus
    NoRead = NoRead
    NoCall = NoCall
    Sessions = {s1, s2}
    Projects = {"p"}
    Names = {"w"}
    ProjectSpecs <- MCProjectSpecs
    WorkflowSpecs <- MCWorkflowSpecs
    ReuseNames = FALSE
    MaxUid = 2
    MaxVersion = 3
    MaxProjectVersion = 2
    MaxFaults = 1
SYMMETRY ClientSymmetry
 
PROPERTIES GenerationTracksSpec NoChurn  
