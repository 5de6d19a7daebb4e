CONSTANTS
    Attempts = {a1, a2, a3}
    Hashes = {h1, h2}
    Faults = {"second_tx", "settle", "lookup"}
    None = None
SYMMETRY Symmetry
SPECIFICATION Spec
INVARIANTS
    IdemTypeOK
    PostsOnce
    PostedIsRemembered
    AnswersTrue
CHECK_DEADLOCK FALSE
