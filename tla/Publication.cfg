SPECIFICATION Spec
CONSTANTS
    f1 = f1
    f2 = f2
    Files <- TwoFiles
    Folders = {folder}
    Others = {other}
    Nothing = Nothing
    NewDocument = NewDocument
    NewAssets = NewAssets
    Partial = Partial
    Faults = 2
    Hands = 2
SYMMETRY AlikeFiles
INVARIANTS ForeignSurvives OneOfThemStands AllOrNothing HiddenIsTold
PROPERTY StaysPutUnlessAsked
CHECK_DEADLOCK FALSE
