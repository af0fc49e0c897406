\* The page that takes in lost rows is itself in the trash.
SPECIFICATION Spec
CONSTANTS
    Rows = {0, 1, 2, 3, 4, 5, 6, 7}
    Texts = {""}
    Blank = ""
    Step = 4
    NoRow = NoRow
    Root = 0
    Journals = 8
    Pictures = {}
    Devices = {0, 1}
    Recovery <- MCRecovery
    Starts <- TidiedUp
    Kinds = {"move", "trash", "restore", "create", "undo"}
    MaxCommands = 2
INVARIANT EveryRowIsFound
CHECK_DEADLOCK FALSE
