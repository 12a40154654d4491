SPECIFICATION FairUpSpec
CONSTANTS
    NoRow = NoRow
    NoSpec = NoSpec
    NoStatus = NoStatus
    NoRead = NoRead
    NoCall = NoCall
    Sessions = {s1}
    Projects = {"p"}
    Names = {"w"}
    ProjectSpecs <- MCProjectSpecs
    WorkflowSpecs <- MCWorkflowSpecs
    ReuseNames = TRUE
    MaxUid = 3
    MaxVersion = 3
    MaxProjectVersion = 1
    MaxFaults = 2
 
PROPERTIES SignalCutsNobodyOff ShutdownEnds ConvergesWhileUp 
