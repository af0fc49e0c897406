\* Two commands in a row over small outlines.
SPECIFICATION Spec
CONSTANTS
    Rows = {0, 1, 2, 3, 4, 5}
    Texts = {"", "a"}
    Blank = ""
    Step = 2
    NoRow = NoRow
    Root = 0
    Journals = 5
    Pictures = {4}
    Tables <- MCTables
    DeepRestores = FALSE
    MaxCommands = 2
INVARIANTS
    TableStaysValid
    
    PathsAreFresh
    SliceIsEnough
PROPERTY
    NewWorkIsSeen
CHECK_DEADLOCK FALSE
