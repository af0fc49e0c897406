\* Two devices, two commands, every file read at any moment.
SPECIFICATION Spec
CONSTANTS
    Rows = {0, 1, 2, 3, 4, 5, 6, 7}
    Texts = {""}
    Blank = ""
    Step = 4
    NoRow = NoRow
    Root = 0
    Journals = 8
    Pictures = {}
    Devices = {0, 1}
    Recovery <- MCRecovery
    Starts <- MCStarts
    Kinds = {"move", "trash", "restore", "create", "undo"}
    MaxCommands = 2
INVARIANTS
    EveryRowIsFound
    KeysOfTheirOwnWhileAtHome
    QuietMeansOneTree
    QuietMeansOneOrderWhereGrounded
CHECK_DEADLOCK FALSE
