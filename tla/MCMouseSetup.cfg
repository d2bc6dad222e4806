CONSTANTS
    Devices = {"none", "plain", "wheel"}
    Keys = {3, 30}
    MaxKeys = 1
    MaxPackets = 2
    MaxLost = 1
SPECIFICATION Spec
INVARIANTS
    MInv
    CommandKept
    FourBytesJustified
PROPERTIES
    InitReturns
    
CHECK_DEADLOCK FALSE
