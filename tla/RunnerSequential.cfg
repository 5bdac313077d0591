\* One handler: an operator who waits for each answer before the next edit; a crash.
SPECIFICATION FairSpec
CONSTANTS
    a = a
    b = b
    c = c
    h1 = h1
    h2 = h2
    Names <- TwoNames
    Cfgs = {cfg1, cfg2}
    NoCfg = nocfg
    Handlers <- OneHandler
    Main = main
    Demo = a
    Slots <- SlotSet3
    MaxReqs = 3
    MaxBatch = 2
    MaxCrashes = 1
    DBFaults = FALSE
INVARIANT Applied
PROPERTIES OnlyStoppedLoopsMisfile EventuallyApplied
\* The bound on requests is reached with every target deleted.
CHECK_DEADLOCK FALSE
