SPECIFICATION FairSpec
CONSTANTS
    once = once
    often = often
    Jobs = {once, often}
    Kind <- MCKind
    Delay <- MCDelay
    NoJob = NoJob
    Never = Never
    MaxOps = 1
    MaxCommands = 1
    MaxCrashes = 1
INVARIANTS
    NoJobStuck
    OffStaysOff
    AtMostOnce
PROPERTIES
    DueJobsRun
CHECK_DEADLOCK FALSE
