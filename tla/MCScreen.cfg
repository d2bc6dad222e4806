CONSTANTS
    MOUSE_BUF_SIZE = 3
    Movements <- MCMovements
    MaxPackets = 3
    VGA_WIDTH = 2
    VGA_HEIGHT = 2
    Chars = {"a", "b"}
    MaxCalls = 3
SPECIFICATION Spec
INVARIANTS
    ScreenCoherent
    TextShown
    
