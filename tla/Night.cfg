\* Two days, two minds, one fault; the diary and the report cost more
\* than their lane.
CONSTANTS
    consolidate = consolidate
    diary = diary
    strategy = strategy
    report = report
    Roster <- ByPriority
    Consolidate = consolidate
    Once <- OnceANight
    Own <- OwnBudget
    Cost <- Prices
    Ceiling <- Ceilings
    MaxDays = 2
    MaxMinds = 2
    MaxFaults = 1

SPECIFICATION FairSpec

INVARIANTS
    MarkedWasHandled
    RepeatedOnlyAfterFault

PROPERTIES
    EveryDayIsHandled
