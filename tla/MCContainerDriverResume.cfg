SPECIFICATION Spec
CONSTANTS
    Kinds <- RolloutOnly
    MaxGen = 1
    MaxDocs = 2
    MaxFaults = 1
    Keep = 2
    Window = 2
PROPERTY NeverCutOnResume
CHECK_DEADLOCK FALSE
