\* One target with two names in turn, a running loop and one that was told to stop;
\* a ring of two rounds, a day of one unit, three rounds.
SPECIFICATION Spec
CONSTANTS
    a = a
    b = b
    Names <- TwoNames
    Slots <- TwoSlots
    Cap = 2
    Day = 1
    MaxTime = 3
    MaxRounds = 3
INVARIANTS TypeOK Intact RecentExact
PROPERTY OnlyLateRoundsSlip
SYMMETRY NameSymmetry
