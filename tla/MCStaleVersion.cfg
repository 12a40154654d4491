SPECIFICATION Spec
CONSTANTS
    NoRow = NoRow
    NoSpec = NoSpec
    NoStatus = NoStatus
    NoRead = NoRead
    NoCall = NoCall
    Sessions = {s1}
    Projects = {"p"}
    Names = {"w"}
    ProjectSpecs <- MCProjectSpecs
    WorkflowSpecs <- MCWorkflowSpecs
    ReuseNames = TRUE
    MaxUid = 3
    MaxVersion = 2
    MaxProjectVersion = 2
    MaxFaults = 0
PROPERTIES StaleVersionRejected
