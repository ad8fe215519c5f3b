\* Two requests ask for a job, three share two connections.
\* The bound on codes lets it stop.
SPECIFICATION FairSpec
CONSTANTS
  None = None
  w1 = w1
  w2 = w2
  w3 = w3
  Asking = {"s1", "s2"}
  MaxRetries = 3
  AsksByRowId = TRUE
  Clients = {w1, w2, w3}
  PoolMax = 2
  MaxNested = 1
  MaxCodes = 1
  Refs = {"v1"}
  Panes = {"a"}
  Elsewhere = {"o1"}
  MaxDatasets = 1
  MaxIterations = 2
  MaxRuns = 2
  Runners = {"r1", "r2"}
  Files = 3
  MaxDeploys = 4
INVARIANT TypeOK
INVARIANT CodesInOrder
INVARIANT OnceInOrder
PROPERTY JobsFollowLifecycle
PROPERTY JobSettles
 
PROPERTY PaneSettles
CHECK_DEADLOCK FALSE
