\* Two devices and a folder: changes, hand edits, deaths of the app, in the
\* mixtures of LifeBudgets.
SPECIFICATION Spec
CONSTANTS
    Devices = {1, 2}
    Nodes = {1, 2}
    Old = {1}
    Author = 1
    Contents = {1, 2, 3}
    MaxWall = 0
    Budgets <- LifeBudgets
    Hands = {"edit_page", "erase"}
    Restores = TRUE
    TrashFirst = FALSE
    WindowOpen = FALSE
    MaxCounter = 0
    MaxMillis = 7
    MaxDevice = 3
    MaxDrift = 9

    
    
    
PROPERTIES
    OverwrittenEditIsLogged
    
CHECK_DEADLOCK FALSE
