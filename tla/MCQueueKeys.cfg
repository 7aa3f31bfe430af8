SPECIFICATION FairSpec
CONSTANTS
  p1 = p1
  p2 = p2
  NoPod = NoPod
  Part <- MCPart
  Tasks = {"far", "web", "odd"}
  Pods = {p1, p2}
  Layout <- MCLayout
  Cmd <- MCCmd
  Channel <- MCChannel
  Region <- MCRegion
  Mode <- Mixed
  PodRegion <- MCPodRegion
  MaxRetries = 1
INVARIANTS NoMetadataFetched NativeStaysNative
PROPERTIES Served
CHECK_DEADLOCK FALSE
