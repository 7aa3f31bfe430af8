CONSTANT Modes = {"composite"}
SPECIFICATION SnapshotSpec
PROPERTY FrameReturns
CHECK_DEADLOCK FALSE
