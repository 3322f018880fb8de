\* Two checkpoints, three shots, one release thread left behind.
CONSTANTS
    yuri = yuri
    adia = adia
    kit = kit
    sdxl = sdxl
    pony = pony
    y1 = y1
    y2 = y2
    k1 = k1
    Labs <- Cast
    Backends <- Checkpoints
    Camera <- CameraOf
    Shots <- Film
    LabOf <- LabOfFilm
    None = None
    MaxStrays = 1

SPECIFICATION FairSpec

INVARIANTS
    OneWarmPipeline

PROPERTIES
    NotUnloadedUnderARender
    TimerFires

CHECK_DEADLOCK FALSE
