\* Two timers, one promised explicitly and one softly, through a crash and a fault.
CONSTANTS
    tea = tea
    nap = nap
    Timers <- Both
    Explicit <- Tea
    Soft <- Nap
    MaxCrashes = 1
    MaxFaults = 1

SPECIFICATION FairSpec

INVARIANTS
    Carried
    OpenGoalHasItsTimer

PROPERTIES
    ImplementsPromise
    EveryPromiseHandedOver
