------------------------------ MODULE MCShell ------------------------------
(* A console with one game; Nest installs one that is listed before it,    *)
(* and a console may be added in front.                                    *)
EXTENDS Shell

CONSTANTS g1, g2, amiga, apps

MCTitles   == <<g1, g2>>
MCConsoles == <<amiga, apps>>
MCSystemOf == [g \in {g1, g2} |-> apps]

=============================================================================
