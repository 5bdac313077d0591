\* Two requests at a time: renames applied together, in the wrong order, register two names for one row.
SPECIFICATION Spec
CONSTANTS
    a = a
    b = b
    c = c
    h1 = h1
    h2 = h2
    Names <- ThreeNames
    Cfgs = {cfg1}
    NoCfg = nocfg
    Handlers <- TwoHandlers
    Main = main
    Demo = a
    Slots <- SlotSet4
    MaxReqs = 3
    MaxBatch = 2
    MaxCrashes = 0
    DBFaults = FALSE
INVARIANT OneNamePerRow
\* The bounds let a behaviour end: requests used up, or the process stopped.
CHECK_DEADLOCK FALSE
