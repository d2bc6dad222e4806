CONSTANTS
    Word = 65536
    Modes <- MCModes
    Font <- MCFont
    CELL = 2
    CUR_SIZE = 3
    BarColors <- MCBars
    BackPad = 1
    Image <- MCImage
    ImagePitch = 5
    Calls <- MCCalls
    MaxCalls = 1
    MaxArea = 12
    Events <- MCEvents
    MaxEvents = 1
SPECIFICATION FramebufferSpec

    
    
PROPERTIES
    PointerVisible
    DrawingEnds
