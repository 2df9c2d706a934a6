SPECIFICATION Spec
CONSTANTS
    VGA_ROWS = 3
    VGA_COLS = 2
    Glyphs <- MCGlyphs
    Echoed <- MCEchoed
    Written <- MCWritten
    Banner <- MCBanner
    Addresses <- MCAddresses
    MaxOut = 7
INVARIANTS
    CursorOnScreen
    ScreenShowsOutput
CHECK_DEADLOCK FALSE
