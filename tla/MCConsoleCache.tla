--------------------------- MODULE MCConsoleCache ---------------------------
(* Instances of ConsoleCache for TLC. *)
EXTENDS ConsoleCache
=============================================================================
