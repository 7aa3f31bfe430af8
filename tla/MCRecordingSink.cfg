CONSTANTS
    Callers = {"handler", "sdkError"}
    AudioBuffer = 1
    VideoBuffer = 1
    MaxSessions = 2
    MaxFrames = 2
SPECIFICATION Spec
INVARIANTS TypeOK QuietWhenIdle WriteBeforeClose
PROPERTIES ImplementsSession StopReturns
CHECK_DEADLOCK FALSE
