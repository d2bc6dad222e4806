CONSTANTS
    Devices = {"plain", "wheel"}
    Keys = {}
    MaxKeys = 0
    MaxPackets = 1
    MaxLost = 0
SPECIFICATION PromptSpec
INVARIANT WheelAgrees
CHECK_DEADLOCK FALSE
