CONSTANTS
    MaxChannels = 2
    MaxTasks = 2
    MaxErrors = 1
SPECIFICATION Spec
INVARIANTS ReportedOnce SinksMatchTasks OnItsChannel
PROPERTY CommandsReturn
CHECK_DEADLOCK FALSE
