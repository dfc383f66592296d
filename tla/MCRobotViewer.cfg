SPECIFICATION FairSpec
CONSTANTS
    v1 = v1
    v2 = v2
    p1 = p1
    p2 = p2
    Viewer = {v1, v2}
    Proc = {p1, p2}
    MaxReady = 2
    MaxHealth = 2
INVARIANTS
    BusyPanelHasTask
    FramesFollowCamera
PROPERTIES
    OrphansOnlyFromHealthWait
    LaunchResolves
