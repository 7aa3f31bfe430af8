SPECIFICATION FairSpec
CONSTANTS
  r1 = r1
  n1 = n1
  r2 = r2
  r3 = r3
  c1 = c1
  c2 = c2
  NoWorker = NoWorker
  NoChannel = NoChannel
  NoTask = NoTask
  Workers = {w1}
  Channels = {c1, c2}
  Tasks = {r1, n1, r2, r3}
  ChanOf <- MCChanOf
  CmdOf <- MCCmdOf
  Endings = {"success", "unrecoverable"}
  Starting = {"run", "ignore"}
  MayDie = {w1}
  MaxStops = 1
  MaxRestarts = 0
INVARIANT OnePerCommand
PROPERTIES StopIsExecuted CapacityReturns
CHECK_DEADLOCK FALSE
