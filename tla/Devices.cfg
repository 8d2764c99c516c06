CONSTANTS
    BodyChunks = 2
    MaxPolls = 3
    FifoLevels = {0, 1, 2, 3, 5, 6}
    LastBits = {0, 1, 3}
    LcdWidth = 128
    LcdHeight = 128
    LcdXs = {0, 1, 60, 126, 127, 128}
    LcdBefore = 3
    LcdYs = {0, 1, 60, 127, 128}
    LcdSides = {0, 1, 2, 50, 128, 130}
    LcdSizes = {1, 2}
    LcdLengths = {0, 1, 5, 21, 22}
    OledWidth = 16
    OledFontW = 7
    OledXs = {0, 1, 8}
    OledYs = {0, 1, 9, 58}
    OledSides = {1, 3}
    MaxDrawings = 2
    MaxBusErrors = 1
    PcaPins = 2
    FadeSteps = 2
    MaxI2cErrors = 2
    DhtBytes = {0, 60, 200}
    ShtBytes = {{}, {1, 2, 3, 4, 5, 7}}
    MaxShtLinks = 2
    IrBytes = {0, 18, 237, 255}
    TmKeys = {0, 1}
    TmJunk = {0, 15, 200, 255}
    NvsWrap = 3
    MaxStarts = 4
    RetryAttempts = 3
    OlLengths = {1, 19}
    OlErrors = 1
    Rows = 6
    Cols = 18
    CharW = 7
    CharH = 10
    RowStep = 10
    ScreenW = 128
    ScreenH = 64
    MaxText = 130
SPECIFICATION Spec
INVARIANTS TypeOK HttpInfers ReadingsTrue OutputsTrue InBounds TextShown
CHECK_DEADLOCK FALSE
