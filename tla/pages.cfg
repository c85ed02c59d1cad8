\* Every page, a run and two grants of before, two requests and two visits.
SPECIFICATION PagesSpec
CONSTANTS
  Screens = {"tasks", "tools", "approvals", "workflows", "runs", "runtime", "orchestrate", "autonomous", "memorySearch", "memoryWrite"}
  Memories = {1}
  Earlier <- RunAndGrants
  EarlierLists <- RunAndGrantsListed
  MaxEntries = 2
  MaxRequests = 2
  MaxVisits = 2
  MaxFailures = 1
INVARIANTS HistoryIsLatest ShownIsAsked
PROPERTY SubmittedIsReported
CHECK_DEADLOCK FALSE
