\* Orderly shutdown without faults: the batch of another goroutine's Flush is still in flight.
SPECIFICATION Spec
CONSTANTS
    r1 = r1
    r2 = r2
    r3 = r3
    p1 = p1
    p2 = p2
    Rounds <- ThreeRounds
    Keys <- TwoKeys
    Key <- SharedKey
    Probers <- TwoProbers
    FlushLoop = flushloop
    Main = main
    Threshold = 2
    DBFaults = FALSE
    Crashes = FALSE
INVARIANT FlushedBeforeExit
\* The bounds let a behaviour end: requests used up, or the process stopped.
CHECK_DEADLOCK FALSE
