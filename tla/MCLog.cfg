CONSTANTS
    NIBBLES = 2
    LOG_BUFFER_SIZE = 5
    Chars = {"a", "b", "c", "i", "n", "p", "x", " "}
    Messages <- MCMessages
    Values = {0, 10, 171, 255}
    Operands = {3, 171}
    Operators = {"+", "-", "*", "/", "?"}
    Commands <- MCCommands
    MaxWritten = 8
SPECIFICATION Spec
INVARIANTS
    DumpIsTail
    ReadsBack
