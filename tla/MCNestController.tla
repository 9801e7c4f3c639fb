-------------------------- MODULE MCNestController --------------------------
(* NestController for TLC: one game of each kind.                          *)
EXTENDS NestController

CONSTANTS mild, adult

(* States that differ only in fields that are written before they are read *)
(* again are one: where B leads from a view the player is not in, the game *)
(* last rated, the action of a PIN that is not being entered.              *)
Live(field, views, dead) == IF ui.view \in views THEN ui[field] ELSE dead

LiveState ==
  <<[ui EXCEPT !.rating = Live("rating", {"Rating"}, None),
               !.rateBack = Live("rateBack", {"Rating"}, "Detail"),
               !.pinAction = Live("pinAction", {"Pin"}, None),
               !.back = Live("back", {"Detail", "Remove", "Transfer", "Rating"},
                             "Catalog")],
    service, granted>>
=============================================================================
