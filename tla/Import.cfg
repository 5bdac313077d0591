\* Two imports of up to two rows among edits by other handlers, with failures.
SPECIFICATION Spec
CONSTANTS
    Names <- SomeNames
    Cfgs <- SomeCfgs
    NoCfg = nocfg
    BadHosts <- SomeBadHosts
    BadNames <- SomeBadNames
    Requests <- SomeRequests
    Files <- SomeFiles
    MaxTargets = 2
    MaxEdits = 3
    MaxImports = 2
    DBFaults = TRUE
INVARIANTS TypeOK PlanRight AllOrNothing AnswerTrue RoundTrip
PROPERTY AddOnly
\* The bounds on edits and imports are reached.
CHECK_DEADLOCK FALSE
