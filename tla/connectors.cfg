\* Four connectors of the catalog and an MCP server; three acts of the operator,
\* and two more with the drawer.
SPECIFICATION PageSpec
CONSTANTS
  Catalog <- SmallCatalog
  Statuses <- SmallStatuses
  Servers = {"server"}
  Reports <- SmallReports
  Matches <- OneSearch
  MaxActs = 3
  MaxDrawerActs = 2
  MaxReads = 1
  MaxReturns = 1
INVARIANTS ChipTruth ConfirmationIsAsked DisabledIsExplained ReturnReportedOnce
CHECK_DEADLOCK FALSE
