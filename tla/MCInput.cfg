CONSTANTS
    KEYBOARD_BUFFER_SIZE = 3
    CONSOLE_BUFFER_SIZE = 6
    MAX_ARGS = 2
    Letters = {"a"}
    MaxKeys = 7
SPECIFICATION PacedSpec
INVARIANTS
    KInv
    LineTerminated
    
PROPERTIES
    ImplementsLineEditor
    EveryKeyTaken
