------------------------------ MODULE Screens ------------------------------
(***************************************************************************)
(* What the models of the screens share: the value that is no game, device *)
(* or network, and the filtering of a list.                                *)
(***************************************************************************)
EXTENDS Naturals, Sequences

CONSTANT None

(* Those of a list that are in T, in its order: SelectSeq with its         *)
(* definition in sight, for the proofs.                                    *)
Kept(list, T) ==
  LET kept[n \in 0..Len(list)] ==
        IF n = 0 THEN <<>>
        ELSE IF list[n] \in T THEN Append(kept[n - 1], list[n]) ELSE kept[n - 1]
  IN kept[Len(list)]

=============================================================================
