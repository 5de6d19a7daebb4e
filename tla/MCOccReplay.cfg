CONSTANTS
    Jobs = {j1}
    Kinds = {"replay"}
    LastDate = 3
    Modes = {"auto", "reminder"}
    Counts = {2, None}
    Ends = {2, 4}
    MaxEdits = 2
    MaxOwn = 1
    LostAnswers = FALSE
    None = None
SPECIFICATION FairSpec
INVARIANTS
    CountKept
    ReplayNothingLost
PROPERTIES
    KeepsExactlyOnce
    DueIsHandled
CHECK_DEADLOCK FALSE
