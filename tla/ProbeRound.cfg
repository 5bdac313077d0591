\* Two rounds of two packets each, with a gap of one unit and a timeout of two.
SPECIFICATION Spec
CONSTANTS
    Packets = 2
    Gap = 1
    Timeout = 2
    Faults = TRUE
    MaxRounds = 2
    MaxArrivals = 3
    MaxTime = 2
INVARIANTS TypeOK SamplesTrue CollectsAll RoundLength Lateness
\* The bounds on rounds and on the clock are reached.
CHECK_DEADLOCK FALSE
