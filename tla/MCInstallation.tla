--------------------------- MODULE MCInstallation ---------------------------
(* A user of the CLI and the operator, for TLC.                             *)
EXTENDS Installation, TLC

CONSTANTS cli, operator

Nothing == [o \in ObjectNames |-> "none"]
Earlier == [o \in ObjectNames |-> IF o = "conftest" THEN "none" ELSE "old"]

\* Nothing, an earlier release, or what the manifests of the operator create.
EmptyOrUpgrade == {Nothing, Earlier, [Nothing EXCEPT !["sa"] = "new"]}

CLIAndOperator == cli :> {"install", "uninstall"} @@ operator :> {"operator"}
=============================================================================
