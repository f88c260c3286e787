SPECIFICATION FairSpec
CONSTANTS
    far = far
    west = west
    east = east
    atFar = atFar
    atWest = atWest
    atEast = atEast
    w = w
    d1 = d1
    d2 = d2
    Blank = Blank
    Still = Still
    Tiles = {far, west, east}
    Views = {atFar, atWest, atEast}
    Worlds = {w}
    Dims = {d1, d2}
    Start = atWest
    Gestures = 2
    Zoom <- MCZoom
    Above <- MCAbove
    Window <- MCWindow
    Buffer <- MCBuffer
    HasPicture <- MCHasPicture
INVARIANTS
    SubscriptionsFollowView
    WrongPictureHasCause
    IndicatorOffWhenReady
PROPERTIES
    DrawnInTheEnd
CHECK_DEADLOCK FALSE
