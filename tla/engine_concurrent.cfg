SPECIFICATION FairSpec
CONSTANTS
  sa = sa
  sb = sb
  sc = sc
  flag = flag
  g1 = g1
  g2 = g2
  write = write
  delete = delete
  NoRun = NoRun
  NoKey = NoKey
  NoApproval = NoApproval
  Steps <- ForkSteps
  Deps <- ForkDeps
  Order <- ForkOrder
  MaxRetries <- ForkRetries
  Gated = {sa, sb}
  ToolOf <- OneTool
  ClientKeys = {}
  CondKey <- NoKeys
  CondEquals <- AnyEquals
  InitialContexts <- EmptyContexts
  Drivers = {start, r1, r2}
  Starter = start
  start = start
  r1 = r1
  r2 = r2
  Approvals = {g1, g2}
  ApprovedTool <- OneToolApproved
  MaxParallel = 2
  MaxActive = 2
  MaxAborts = 0
INVARIANTS DependencyOrder ApprovalSingleUse StatusHonest
PROPERTY CallsReturn
