\* One picture and what may happen to it.
CONSTANTS
    p1 = p1
    p2 = p2
    Pictures <- One
    NoPicture = NoPicture
    MaxGoals = 3
    MaxLetGo = 1
    MaxMishaps = 1
    Overlap = TRUE
    ActsFail = TRUE

SPECIFICATION ErrandsSpec

INVARIANTS
    WaitingHasAWayBack
    NoPictureStranded

PROPERTY
    WordsAreStillAwaited

CHECK_DEADLOCK FALSE
