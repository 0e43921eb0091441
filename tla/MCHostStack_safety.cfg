SPECIFICATION Spec
CONSTANTS
  Pid = {p1, p2, p3, p4}
  NoPid = NoPid
  MaxRuns = 3
SYMMETRY Symmetry
INVARIANT OneInstance
INVARIANT StoppedIsStopped
INVARIANT StartedIsRecorded
INVARIANT McpIsRecorded
INVARIANT ClearedIsClean
