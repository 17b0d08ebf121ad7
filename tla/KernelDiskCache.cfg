SPECIFICATION FairSpec
CONSTANTS
  None = None
  Procs = {p1, p2}
  Pid <- MCPid
INVARIANTS TypeOK UsedWhole PublishedWhole RemovedRebuilt
PROPERTIES RequestsEnd
