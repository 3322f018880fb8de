\* The bus and the cursor over two processes: a queue of three, five signals.
CONSTANTS
    MaxHeld = 3
    BatchLimit = 2
    MaxPosted = 5
    MaxEpochs = 2
    LogFails = TRUE

SPECIFICATION FairSpec

INVARIANTS
    NothingSkipped

PROPERTIES
    NoRereadAfterCommit
    ImplementsInbox
    EverySignalIsRead
