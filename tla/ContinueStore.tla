--------------------------- MODULE ContinueStore ---------------------------
(***************************************************************************)
(* What the Continue store of one game promises, whatever happens to the   *)
(* processes that write it: per identity of ROM and core a current state   *)
(* and a backup.  The current state only ever gives way to a newer one,    *)
(* never to nothing, and when it does the backup already holds it.         *)
(***************************************************************************)
EXTENDS Naturals

CONSTANTS Keys, State, None

VARIABLES cur, prev

storeVars == <<cur, prev>>

Init ==
  /\ cur = [k \in Keys |-> None]
  /\ prev = [k \in Keys |-> None]

(* The backup is taken; a crash may leave it at that.                      *)
BackUp(k) ==
  /\ cur[k] # None
  /\ prev' = [prev EXCEPT ![k] = cur[k]]
  /\ UNCHANGED cur

(* A newer state becomes current once its predecessor is safe.             *)
Advance(k, s) ==
  /\ cur[k] # None => prev[k] = cur[k] /\ s.gen > cur[k].gen
  /\ cur' = [cur EXCEPT ![k] = s]
  /\ UNCHANGED prev

(* Advance over all states of the detailed specification, which are        *)
(* infinitely many: the new state is named by what cur becomes.            *)
Next ==
  \E k \in Keys : BackUp(k) \/ (cur'[k] \in State /\ Advance(k, cur'[k]))

Spec == Init /\ [][Next]_storeVars
=============================================================================
