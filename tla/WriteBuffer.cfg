\* Two probe loops, the flush loop and shutdown; faults and crashes; two of the
\* three rounds share their primary key.
SPECIFICATION FairSpec
CONSTANTS
    r1 = r1
    r2 = r2
    r3 = r3
    p1 = p1
    p2 = p2
    Rounds <- ThreeRounds
    Keys <- TwoKeys
    Key <- SharedKey
    Probers <- TwoProbers
    FlushLoop = flushloop
    Main = main
    Threshold = 2
    DBFaults = TRUE
    Crashes = TRUE
INVARIANTS TypeOK OnePlace Bounded
PROPERTIES RoundLogSpec NeverSitsOnData
\* The process stops for good at shutdown or after a crash.
CHECK_DEADLOCK FALSE
