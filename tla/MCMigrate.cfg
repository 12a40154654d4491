SPECIFICATION Spec
CONSTANTS
    Processes <- MCProcesses
    Embedded <- MCEmbedded
    NoProcess = NoProcess
    MaxCrashes = 2
INVARIANTS AppliedOnce NoGaps ReadyIsMigrated
PROPERTIES EventuallyReady
