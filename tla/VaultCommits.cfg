\* One writer of each kind, one fault.
CONSTANTS
    tick = tick
    route = route
    turn = turn
    forget = forget
    Ticks <- Mind
    Routes <- Panel
    Turns <- Chat
    Forgets <- Forgetting
    None = None
    MaxFails = 1

SPECIFICATION VaultFairSpec

INVARIANTS
    FlagKnowsTheTree
    OwnEditIsCommitted

PROPERTY
    EveryChangeIsCommitted
