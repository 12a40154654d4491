SPECIFICATION Spec
CONSTANTS
    NoSpec = NoSpec
    NoStatus = NoStatus
    Specs <- MCSpecs
    MaxGeneration = 4
    MaxClock = 4
INVARIANTS ReasonIsFirstDefect VerdictIsTruthful  SteadyStateIsFixpoint
