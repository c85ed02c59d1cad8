\* Two processes, either backend, one key, one cancellation or crash.
SPECIFICATION FairSpec
CONSTANTS
  q1 = q1
  q2 = q2
  q3 = q3
  k1 = k1
  pay = pay
  p1 = p1
  p2 = p2
  NoKey = NoKey
  NoRequest = NoRequest
  NoRow = NoRow
  Never = Never
  Raised = Raised
  Requests = {q1, q2, q3}
  Keys = {k1}
  KeyOf <- TwoKeyed
  Targets = {pay}
  TargetOf <- OneTarget
  Backends = {"memory", "postgres"}
  Procs = {p1, p2}
  Main = p1
  Routes <- SecondAnywhere
  MaxRetries <- RetryFirst
  Limit = 2
  Window = 2
  Threshold = 1
  Recovery = 1
  MaxTime = 2
  MaxAborts = 1
INVARIANTS SameKeyExclusive WindowBound BreakerEarned
PROPERTIES AnswerStored ImplementsKeyedExecution RequestsEnd
