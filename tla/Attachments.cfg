\* One picture, added on one device under one name; passes take turns.
SPECIFICATION Spec
CONSTANTS
    Devices = {1, 2}
    Nodes = {1, 2}
    Pages = {1, 2}
    Vault = 0
    Bin = 0
    Known = Known
    Nowhere = Nowhere
    NoRow = NoRow
    PageOf <- Two
    Author <- First
    NameOf <- OneName
    Turns = TRUE
    Closes = {1}
    MaxChanges = 3
  
PROPERTY NeverNowhere
CHECK_DEADLOCK FALSE
