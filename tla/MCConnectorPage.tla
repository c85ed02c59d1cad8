--------------------------- MODULE MCConnectorPage ---------------------------
(* Instances of ConnectorPage for TLC. *)
EXTENDS ConnectorPage, TLC

About(type, category, infra, implemented, authority) ==
  [type |-> type, category |-> category, infra |-> infra, implemented |-> implemented,
   authority |-> authority]

\* As in the catalog: one of each kind, and two categories with two.
SmallCatalog ==
  "n8n" :> About("webhook", "other", FALSE, TRUE, FALSE) @@
  "gmail" :> About("oauth", "google", FALSE, TRUE, TRUE) @@
  "dropbox" :> About("oauth", "google", FALSE, FALSE, TRUE) @@
  "redis" :> About("api", "data", TRUE, TRUE, FALSE)

SmallStatuses ==
  "n8n" :> {"configured"} @@
  "gmail" :> {"configured", "connected"} @@
  "dropbox" :> {"available"} @@
  "redis" :> {"needs_setup"}

SmallReports ==
  {NotStored, [stored |-> TRUE, enabled |-> TRUE, connected |-> "yes"]}

OneSearch == "mcp" :> {"server"}
=============================================================================
