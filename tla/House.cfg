\* Two ids, three requests two at a time, two faults.
CONSTANTS
    yuri = yuri
    mika = mika
    Her = yuri
    Characters <- MCCharacters
    AtOnce = 2
    MaxRequests = 3
    MaxFaults = 2

SPECIFICATION FairSpec

INVARIANTS
    OneRuntime
    RowAndTreeAgree

PROPERTIES
    Answered

CHECK_DEADLOCK FALSE
