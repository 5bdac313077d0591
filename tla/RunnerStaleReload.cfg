\* Two requests at a time: the older read of the rows is applied last.
SPECIFICATION Spec
CONSTANTS
    a = a
    b = b
    c = c
    h1 = h1
    h2 = h2
    Names <- TwoNames
    Cfgs = {cfg1}
    NoCfg = nocfg
    Handlers <- TwoHandlers
    Main = main
    Demo = a
    Slots <- SlotSet3
    MaxReqs = 2
    MaxBatch = 2
    MaxCrashes = 0
    DBFaults = FALSE
INVARIANT Applied
\* The bounds let a behaviour end: requests used up, or the process stopped.
CHECK_DEADLOCK FALSE
