\* Two days in five parts, one call and one message a day, one fault.
CONSTANTS
    look = look
    selfie = selfie
    Calls <- Hands
    NoCall = NoCall
    Cheap <- CheapHands
    Reads <- Looks
    Cooldown <- Cools
    CallsPerDay = 1
    MessagesPerDay = 1
    HandsPerStep = 1
    MaxTime = 4
    MaxFaults = 1

SPECIFICATION Spec

PROPERTIES
    HandsKeepTheCap
    MessagesKeepTheCap
    CallsInTheirPlace
