\* Three turns of any kind, each kind of client in a session of its own.
CONSTANTS
    typed = typed
    chatted = chatted
    spoken = spoken
    MaxTurns = 3
    TextSession <- typed
    ChatSession <- chatted
    VoiceSession <- spoken

SPECIFICATION TurnsFairSpec

INVARIANTS
    WindowIsExchanges
    TalkedOverLeavesNoTrace
    ClosedUnderNoWriter

PROPERTY
    PostedIsFinished

CHECK_DEADLOCK FALSE
