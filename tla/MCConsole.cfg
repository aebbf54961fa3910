SPECIFICATION Spec
CONSTANTS
    Letters <- MCLetters
    Size = 5
    ByteCount = 2
    WordSize = 2
    Values <- MCValues
    None = None
    VGA_WIDTH = 2
    VGA_HEIGHT = 3
    Behind = 1
    Texts <- MCTexts
    Formats <- MCFormats
    INT_MAX = 4
    MaxRow = 4
    Prints <- MCPrints
    Fired <- MCFired
    Messages <- MCMessages
    SystemHalted <- MCSystemHalted
    Words <- MCWords
    WordCount = 256
    FifoDepth = 3
    MaxDepth = 3
INVARIANTS TypeOK OnScreen PrintfPromise NoByteLost TextWhole
PROPERTIES ImplementsLibrary PrintfReturns LineEnds
CHECK_DEADLOCK FALSE
