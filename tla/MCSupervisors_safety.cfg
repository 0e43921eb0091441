SPECIFICATION Spec
CONSTANTS
  MaxBuilds = 2
  MaxStacks = 2
  MaxRuns = 4
INVARIANT BackendIsFresh
INVARIANT UpIsKeptAlive
INVARIANT DownStaysDown
INVARIANT DashboardIsFresh
