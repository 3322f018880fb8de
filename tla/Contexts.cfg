\* Three calls, one of them beyond the queue; one render that parks.
CONSTANTS
    c1 = c1
    c2 = c2
    c3 = c3
    chat = chat
    utility = utility
    m1 = m1
    k1 = k1
    k2 = k2
    k3 = k3
    k4 = k4
    Calls <- ThreeCalls
    Providers <- TwoProviders
    Models <- OneModel
    Contexts <- SomeContexts
    None = None
    ProviderOf <- TwoOnChat
    ModelOf <- SameModel
    QueueLimit = 1
    MaxParks = 1
    MaxCuts = 1

SPECIFICATION FairSpec

INVARIANTS
    LoanKeepsTheCardClear
    NoWeightsAreLost
    OneVoicePerContext

PROPERTIES
    EverythingEnds

CHECK_DEADLOCK FALSE
