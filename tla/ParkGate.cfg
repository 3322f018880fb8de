\* Two cameras on one card, a hosted one, one turn and an off-turn call.
CONSTANTS
    yuri = yuri
    adia = adia
    kit = kit
    hello = hello
    hey = hey
    dream = dream
    Characters <- Cast
    Hosted <- Kit
    Turns <- Hello
    Thoughts <- Dreams
    Whose <- HelloOnly
    MaxLate = 1

SPECIFICATION FairSpec

INVARIANTS
    DoorShutDuringLoan
    LoanIsQuiet

PROPERTY
    EveryCallGetsThrough
