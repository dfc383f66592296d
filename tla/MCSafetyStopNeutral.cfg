SPECIFICATION StopSpec
CONSTANTS
    c1 = c1
    Client = {c1}
    Pose = {"neutral", "tree"}
    FsmId = {1}
    MotionName = {"ai"}
    NMotors = 1
    HeldMotors = {}
    Watchdog = 1
    MaxMove = 1
    MaxFrames = 1
    PolicyFrames = 1
    PolicySubsteps = 1
    HasBundle = FALSE
    MaxLate = 1
INVARIANTS
    StopNeutralizes
