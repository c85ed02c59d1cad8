\* The header's read, the catalog's and the audit log's, on production and on a preview.
SPECIFICATION Spec
CONSTANTS
  Hosts = {"app", "preview"}
  Builds = {"plain", "production"}
  Urls = {"production", "loopback"}
  ReadHooks = {"health", "connectorCatalog", "toolAudit"}
  WriteHooks = {"testIntegration", "executeTool"}
  KeySet = {"production"}
  Warned = {1}
  MaxVersion = 1
  MaxFailures = 1
  MaxSaves = 1
INVARIANTS WriteIsSeen AddressFits SignInCanHelp
PROPERTIES PolledCatchesUp HeaderComesTrue
CHECK_DEADLOCK FALSE
