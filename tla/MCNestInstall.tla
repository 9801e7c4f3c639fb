--------------------------- MODULE MCNestInstall ---------------------------
(* NestInstall for TLC: what the store publishes.                          *)
EXTENDS NestInstall

CONSTANTS a, b, v1, v2

Offer(slug, id, version) == [slug |-> slug, id |-> id, version |-> version]

(* A game with an update that keeps its slug and one that changes it.      *)
UpdateAndRename == {Offer(a, a, v1), Offer(a, a, v2), Offer(b, a, v2)}

=============================================================================
