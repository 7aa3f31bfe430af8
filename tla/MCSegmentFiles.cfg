CONSTANTS
    MaxSegments = 3
    MaxBytes = 1
    MaxUnread = 2
SPECIFICATION SegmentsSpec
INVARIANTS SegmentsTypeOK CrashCostsOne PlaylistIsTrue MetadataIsTrue
CHECK_DEADLOCK FALSE
