----------------------------- MODULE MCAquaScan -----------------------------
(* Two containers, and two registries on the Aqua server, for TLC.          *)
EXTENDS AquaScan, TLC

CONSTANTS c1, c2, i1, i2, app

TwoImages == (c1 :> i1) @@ (c2 :> i2)
\* The same repository on two servers.
OneRepository == (i1 :> app) @@ (i2 :> app)
\* Both registries claim i1, none claims i2.
Prefixes == (1 :> {i1}) @@ (2 :> {i1})

\* User name and password are in the Secret only, as documented, or in the
\* ConfigMap too.
InSecret == [image |-> "5.3", command |-> "image", server |-> "url", login |-> Unset,
             registry |-> Unset, scannerImage |-> FALSE, quantities |-> TRUE]
InConfigMap == [InSecret EXCEPT !.login = "valid"]
FileSystem == [InSecret EXCEPT !.command = "filesystem", !.scannerImage = TRUE]
AllConfigs == {InSecret, InConfigMap, [InConfigMap EXCEPT !.image = "5.2"],
               [InConfigMap EXCEPT !.image = Missing], [InConfigMap EXCEPT !.quantities = FALSE],
               FileSystem, [FileSystem EXCEPT !.registry = 1],
               [FileSystem EXCEPT !.scannerImage = FALSE]}
=============================================================================
