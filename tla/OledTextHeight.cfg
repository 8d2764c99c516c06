CONSTANTS
    Rows = 6
    Cols = 18
    CharW = 7
    CharH = 10
    RowStep = 10
    ScreenW = 128
    ScreenH = 64
    MaxText = 130
SPECIFICATION TextSpec
INVARIANT HeightGuarded
CHECK_DEADLOCK FALSE
