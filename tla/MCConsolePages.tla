--------------------------- MODULE MCConsolePages ---------------------------
(* Instances of ConsolePages for TLC. *)
EXTENDS ConsolePages

\* A run, and as many grants as are listed.
RunAndGrants == <<"workflow-run", "approval", "approval">>
RunAndGrantsListed ==
  [k \in Kinds |-> CASE k = "workflow-run" -> <<1>> [] k = "approval" -> <<3, 2>>
                      [] OTHER -> <<>>]
=============================================================================
