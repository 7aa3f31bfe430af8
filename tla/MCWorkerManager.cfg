SPECIFICATION Spec
CONSTANTS
  r1 = r1
  n1 = n1
  r2 = r2
  r3 = r3
  c1 = c1
  c2 = c2
  NoWorker = NoWorker
  NoChannel = NoChannel
  NoTask = NoTask
  Workers = {w1, w2}
  Channels = {c1, c2}
  Tasks = {r1, n1, r2}
  ChanOf <- MCChanOf
  CmdOf <- MCCmdOf
  Endings = {"success", "failed", "unrecoverable"}
  Starting = {"run", "refuse", "ignore"}
  MayDie = {w1}
  MaxStops = 1
  MaxRestarts = 1
INVARIANTS MapsAgree IdleIsFree OneChannelPerWorker NoOrphan
CHECK_DEADLOCK FALSE
