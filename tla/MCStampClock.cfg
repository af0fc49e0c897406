SPECIFICATION Spec
CONSTANTS
    n1 = n1
    n2 = n2
    Nodes <- MCNodes
    Self = 1
    Others <- MCOthers
    Arriving <- MCArriving
    MaxWall = 3
    WallBack = 1
    MaxIssued = 3
    MaxCounter = 1
    MaxMillis = 9
    MaxDevice = 3
    MaxDrift = 2
SYMMETRY NodeSymmetry
INVARIANTS
    TypeOK
    ClockCoversRows
    CanIssue

    
