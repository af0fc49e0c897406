\* Merges that space siblings out again, under a history that names old keys.
SPECIFICATION Spec
CONSTANTS
    Rows = {1, 2, 3}
    Texts = {""}
    Blank = ""
    Step = 2
    NoRow = NoRow
    Start = {1, 2}
    Groups = {"alone"}
    Alone = "alone"
    Requests = {1}
    Watchers = {1}
    MaxHistory = 1
    MaxGroup = 2
    MaxCompleted = 1
    MaxRevision = 3
    MaxRebuilds = 0
    Overlap = FALSE
INVARIANT
    NoTwoSiblingsOnOneKey
CHECK_DEADLOCK FALSE
