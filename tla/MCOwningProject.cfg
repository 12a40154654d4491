SPECIFICATION Spec
CONSTANTS
    NoRow = NoRow
    NoSpec = NoSpec
    NoStatus = NoStatus
    NoRead = NoRead
    NoCall = NoCall
    Sessions = {s1}
    Projects = {"p"}
    Names = {"w"}
    ProjectSpecs <- MCProjectSpecs
    WorkflowSpecs <- MCWorkflowSpecs
    ReuseNames = FALSE
    MaxUid = 2
    MaxVersion = 2
    MaxProjectVersion = 2
    MaxFaults = 0
PROPERTIES OwningProjectExists
