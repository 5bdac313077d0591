\* Two targets, two ranges of which one has no comparison period, a filter that hides
\* one target, three renders and one change to the list.
SPECIFICATION FairSpec
CONSTANTS
    n1 = n1
    n2 = n2
    NoName = NoName
    Names = {n1, n2}
    Linked = {NoName, n2}
    Windows = {1, 2}
    Beyond = {2}
    Filters = {{n1}, {n1, n2}}
    MaxRenders = 3
    MaxEdits = 1
INVARIANTS TypeOK LockedWhileNewestRuns OneChart ShowsTheChoice
PROPERTIES LeavesOnlyTheGone RefreshResumes
\* The bound on renders is reached with everything answered.
CHECK_DEADLOCK FALSE
