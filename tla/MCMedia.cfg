SPECIFICATION MediaSpec
CONSTANTS
    Modes = {"individual", "composite"}
    Tick = 3
    MinIncrement = 2
    MaxGap = 4
    Jump = 2
    BackJump = 1
    MaxTime = 4
    MaxPts = 14
    Publishers = {p1, p2}
    Count = 2
    Gap = 1
    Limit = 2
    Silence = 2
    MaxFrame = 2
    MaxSample = 4
    Members = {u1, u2, u3, u4, u5}
    Canvases <- MCCanvases
    Sources <- MCSources
    CustomRegions <- MCCustomRegions
    Senders = {s1, s2}
    MaxUsers = 1
    MinFrames = 1
INVARIANTS RegionsFit PassthroughSound
PROPERTIES PtsGrow MixSound SnapshotStops LayoutSettles
CHECK_DEADLOCK FALSE
