SPECIFICATION Spec
CONSTANTS
    Contents = {1, 2}
    Replicas = {1, 2}
    Written <- MCWritten
    Foreign <- MCForeign
    MaxWall = 1
    MaxHand = 1
    MaxCounter = 0
    MaxMillis = 2
    MaxDevice = 3
    MaxDrift = 1
INVARIANTS
    SameToldSameRow
    ReplaySettles
PROPERTY
    IsRegister
