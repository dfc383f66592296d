SPECIFICATION FairSpec
CONSTANTS
    c1 = c1
    Client = {c1}
    Pose = {"neutral"}
    FsmId = {0, 500}
    MotionName = {}
    NMotors = 2
    HeldMotors = {2}
    Watchdog = 1
    MaxMove = 1
    MaxFrames = 1
    PolicyFrames = 2
    PolicySubsteps = 1
    HasBundle = TRUE
INVARIANTS
    ModeHasItsState
    StaleReleasesTorque
PROPERTIES
    NoSelfActivation
    ImplementsLease
    LeftoversEnd
