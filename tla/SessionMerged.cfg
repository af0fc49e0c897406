\* One watch and a rebuild that take turns; edits, merges and history at its limit.
SPECIFICATION Spec
CONSTANTS
    Rows = {1, 2}
    Texts = {"", "a"}
    Blank = ""
    Step = 2
    NoRow = NoRow
    Start = {1}
    Groups = {"g"}
    Alone = "alone"
    Requests = {1, 2}
    Watchers = {1}
    MaxHistory = 2
    MaxGroup = 2
    MaxCompleted = 1
    MaxRevision = 4
    MaxRebuilds = 1
    Overlap = FALSE
INVARIANTS
    
    HistoryIsOfOwnWork
    WithinReachGoesThrough
    AppliedOnce
PROPERTIES
    YoursToTakeBack
CHECK_DEADLOCK FALSE
