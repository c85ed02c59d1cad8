SPECIFICATION Spec
CONSTANTS
  sa = sa
  sb = sb
  sc = sc
  flag = flag
  g1 = g1
  g2 = g2
  write = write
  delete = delete
  NoRun = NoRun
  NoKey = NoKey
  NoApproval = NoApproval
  Steps <- ChainSteps
  Deps <- ChainDeps
  Order <- ChainOrder
  MaxRetries <- ChainRetries
  Gated = {sb}
  ToolOf <- OneTool
  ClientKeys = {flag}
  CondKey <- ChainKey
  CondEquals <- ChainEquals
  InitialContexts <- ChainContexts
  Drivers = {start, r1, r2}
  Starter = start
  start = start
  r1 = r1
  r2 = r2
  Approvals = {g1}
  ApprovedTool <- OneToolApproved
  MaxParallel = 1
  MaxActive = 1
  MaxAborts = 1
INVARIANT ConditionHonoured
PROPERTIES CompletedNotRepeated ImplementsCheckpointedRun
