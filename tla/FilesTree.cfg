CONSTANTS
    MAX_FDS = 1
    MAX_CHILDREN = 2
    BUFFER = 2
    Names = {"tmp", "about", "hello"}
    Paths <- MCPaths
    Bytes = {"x"}
    Texts <- TreeTexts
    Offsets = {0}
    Sizes = {1}
    MaxSize = 1
SPECIFICATION Spec
INVARIANTS
    TreeShape
    MountHolds
    NoDescriptorLeak
PROPERTIES
    PathsStable
