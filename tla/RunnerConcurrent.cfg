\* Two handlers, two requests, a crash, faults in every database statement.
SPECIFICATION FairSpec
CONSTANTS
    a = a
    b = b
    c = c
    h1 = h1
    h2 = h2
    Names <- TwoNames
    Cfgs = {cfg1}
    NoCfg = nocfg
    Handlers <- TwoHandlers
    Main = main
    Demo = a
    Slots <- SlotSet3
    MaxReqs = 2
    MaxBatch = 1
    MaxCrashes = 1
    DBFaults = TRUE
INVARIANTS TypeOK OneRunningLoop RegisteredAreLive RecorderBacked
PROPERTIES RegistrySpec Answered
\* The bound on requests is reached with every target deleted.
CHECK_DEADLOCK FALSE
