CONSTANTS
    Jobs = {j1, j2}
    Kinds = {"legacy"}
    LastDate = 2
    Modes = {"auto"}
    Counts = {2}
    Ends = {3}
    MaxEdits = 1
    MaxOwn = 1
    LostAnswers = TRUE
    None = None
SYMMETRY Symmetry
SPECIFICATION Spec
INVARIANTS
    OccTypeOK
PROPERTIES
    KeepsExactlyOnce
    NeverPassesAnOpenDate
CHECK_DEADLOCK FALSE
