SPECIFICATION LiveSpec
CONSTANTS
    Paths <- TwoPaths
    Named <- NewBytes
    Quiet = 1
    Idle = 1
    Ceiling = 2
    Sweep = 2
    Situations <- AllSituations
PROPERTIES  EveryFileIsRead OwedIsTried LettingGoEnds FlushMeansTried
