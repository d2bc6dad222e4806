CONSTANTS
    MAX_FDS = 2
    MAX_CHILDREN = 1
    BUFFER = 3
    Names = {"tmp", "about", "hello"}
    Paths <- DataPaths
    Bytes = {"x", "y", "z"}
    Texts <- DataTexts
    Offsets = {0, 2}
    Sizes = {2}
    MaxSize = 4
SPECIFICATION Spec
INVARIANTS
    SizeWithinCapacity
PROPERTIES
    ImplementsFileStore
