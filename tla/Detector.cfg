\* All histories of up to five rounds over five loss levels.
SPECIFICATION Spec
CONSTANTS
    Packets = 20
    Losses = {0, 2, 3, 6, 13}
    Warm = 4
    Window = 5
INVARIANT EvidenceMeansMajority
