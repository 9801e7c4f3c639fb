---------------------------- MODULE NestRatings ----------------------------
(***************************************************************************)
(* The stars a player gives: ratings.json on the device, the queue         *)
(* ratings_pending.json of what the store has not confirmed, and the       *)
(* store's own copy.  Service::SetRating, RemoveRating and SyncRatings run *)
(* one at a time on the Nest worker; a request may be lost, its answer may *)
(* be lost, or (with "late" in Faults) it may arrive after the device has  *)
(* given it up.  With "stop" in Faults a write fails or the power goes     *)
(* between any two steps, and what was written before stays.               *)
(***************************************************************************)
EXTENDS Naturals, FiniteSets

CONSTANTS
  Games,
  MaxStars,    \* five on the device
  MaxChanges,  \* bound on what the player does
  Faults,      \* subset of {"late", "stop"}
  None

ASSUME RatingsAssumption ==
  /\ MaxStars \in Nat \ {0} /\ MaxChanges \in Nat
  /\ Faults \subseteq {"late", "stop"}
  /\ None \notin Nat \cup {"sent", "saved", "synced", "stopped"}
  /\ None \notin [Games -> 0..MaxStars]

Rating == 0..MaxStars    \* zero is no rating, in the queue a removal

VARIABLES
  local,     \* ratings.json
  pending,   \* ratings_pending.json
  server,    \* the ratings the store has for this device
  late,      \* requests given up that have not arrived yet
  torn,      \* history: games whose last rating was stopped before it was queued
  delayed,   \* history: games with a late request, until a rating is queued and none is
             \* on its way
  pc,        \* next step of the job; "idle" when there is none
  rated,     \* the game the last rating was about
  queue,     \* the job's copy of the queue
  todo,      \* SyncRatings: games whose queued rating is to be submitted
  got,       \* SyncRatings: the answer of the store
  outcome,   \* "sent", "saved" or "synced": what the last job returned
  wanted,    \* history: what the player last asked for
  changes    \* bound

files   == <<local, pending>>
store   == <<server, late, delayed>>
history == <<wanted, changes>>
work    == <<rated, queue, todo, got>>
vars    == <<files, store, torn, pc, work, outcome, history>>

(* Ratings of an unlinked device and ratings the store has from before.    *)
Init ==
  /\ local \in [Games -> Rating] /\ server \in [Games -> Rating]
  /\ pending = [g \in Games |-> None]
  /\ late = {} /\ delayed = {} /\ torn = {}
  /\ pc = "idle" /\ rated = None
  /\ queue = pending /\ todo = {} /\ got = None
  /\ outcome = None
  /\ wanted = [g \in Games |-> None] /\ changes = 0

End(result) ==
  /\ pc' = "idle" /\ outcome' = result /\ UNCHANGED rated
  /\ queue' = [g \in Games |-> None] /\ todo' = {} /\ got' = None

(* SubmitRating: a POST or DELETE that is tried once.                      *)
Submit(g, n, confirmed) ==
  \/ /\ confirmed /\ server' = [server EXCEPT ![g] = n] /\ UNCHANGED <<late, delayed>>
  \/ /\ ~confirmed
     /\ \/ UNCHANGED store
        \/ server' = [server EXCEPT ![g] = n] /\ UNCHANGED <<late, delayed>>
        \/ /\ "late" \in Faults
           /\ late' = late \cup {[game |-> g, stars |-> n]} /\ delayed' = delayed \cup {g}
           /\ UNCHANGED server

-----------------------------------------------------------------------------
(* SetRating, and RemoveRating for n = 0.                                  *)

Rate(g, n) ==
  /\ pc = "idle" /\ changes < MaxChanges
  /\ local' = [local EXCEPT ![g] = n]
  /\ wanted' = [wanted EXCEPT ![g] = n] /\ changes' = changes + 1
  /\ rated' = g /\ queue' = pending
  /\ pc' = "queue" /\ outcome' = None
  /\ UNCHANGED <<pending, store, torn, todo, got>>

(* Once a rating is queued, what befell those before it is over, unless a  *)
(* request for the game is still on its way.                               *)
Mended ==
  /\ torn' = torn \ {rated}
  /\ delayed' = IF \E r \in late : r.game = rated THEN delayed ELSE delayed \ {rated}

(* Mutant: the queue is written only when there is nothing in it.          *)
QueueOnce ==
  /\ pc = "queue"
  /\ pending' = IF pending[rated] = None
                  THEN [queue EXCEPT ![rated] = local[rated]] ELSE pending
  /\ queue' = pending'
  /\ pc' = "submit" /\ Mended
  /\ UNCHANGED <<local, server, late, rated, todo, got, outcome, history>>

Queue ==
  /\ pc = "queue"
  /\ pending' = [queue EXCEPT ![rated] = local[rated]]
  /\ queue' = pending'
  /\ pc' = "submit" /\ Mended
  /\ UNCHANGED <<local, server, late, rated, todo, got, outcome, history>>

SubmitNow ==
  /\ pc = "submit"
  /\ \/ /\ Submit(rated, queue[rated], TRUE)
        /\ pc' = "dequeue"
        /\ UNCHANGED <<work, outcome>>
     \/ Submit(rated, queue[rated], FALSE) /\ End("saved")
  /\ UNCHANGED <<files, torn, history>>

(* "Rating saved. Thank you!"                                              *)
Dequeue ==
  /\ pc = "dequeue"
  /\ pending' = [queue EXCEPT ![rated] = None]
  /\ End("sent")
  /\ UNCHANGED <<local, store, torn, history>>

-----------------------------------------------------------------------------
(* SyncRatings, when the player opens the installed games.                 *)

BeginSync ==
  /\ pc = "idle"
  /\ queue' = pending
  /\ todo' = {g \in Games : pending[g] # None}
  /\ rated' = None
  /\ pc' = "push" /\ outcome' = None
  /\ UNCHANGED <<files, store, torn, got, history>>

(* Mutant: what could not be submitted is given up as well.                *)
PushForgets(g) ==
  /\ pc = "push" /\ g \in todo
  /\ \E confirmed \in BOOLEAN : Submit(g, queue[g], confirmed)
  /\ queue' = [queue EXCEPT ![g] = None]
  /\ todo' = todo \ {g}
  /\ UNCHANGED <<files, torn, pc, rated, got, outcome, history>>

Push(g) ==
  /\ pc = "push" /\ g \in todo
  /\ \/ Submit(g, queue[g], TRUE) /\ queue' = [queue EXCEPT ![g] = None]
     \/ Submit(g, queue[g], FALSE) /\ UNCHANGED queue
  /\ todo' = todo \ {g}
  /\ UNCHANGED <<files, torn, pc, rated, got, outcome, history>>

SavePushed ==
  /\ pc = "push" /\ todo = {}
  /\ pending' = queue
  /\ pc' = "fetch"
  /\ UNCHANGED <<local, store, torn, work, outcome, history>>

(* An unavailable store leaves the local ratings as they are.              *)
FetchFails ==
  /\ pc = "fetch"
  /\ End("synced")
  /\ UNCHANGED <<files, store, torn, history>>

Fetch ==
  /\ pc = "fetch"
  /\ got' = server
  /\ pc' = "merge"
  /\ UNCHANGED <<files, store, torn, rated, queue, todo, outcome, history>>

(* Mutant: what the store does not know is dropped.                        *)
MergedWithoutLocal(g) ==
  IF queue[g] # None THEN queue[g] ELSE got[g]

(* What is queued wins over the store, the store over the rest.            *)
Merged(g) ==
  IF queue[g] # None THEN queue[g]
  ELSE IF got[g] # 0 THEN got[g] ELSE local[g]

Merge ==
  /\ pc = "merge"
  /\ local' = [g \in Games |-> Merged(g)]
  /\ End("synced")
  /\ UNCHANGED <<pending, store, torn, history>>

-----------------------------------------------------------------------------
(* A write throws, or the power goes.                                      *)
Stop ==
  /\ "stop" \in Faults /\ pc # "idle"
  /\ End("stopped")
  /\ torn' = IF pc = "queue" THEN torn \cup {rated} ELSE torn
  /\ UNCHANGED <<files, store, history>>

Arrive(r) ==
  /\ server' = [server EXCEPT ![r.game] = r.stars]
  /\ late' = late \ {r}
  /\ UNCHANGED <<files, delayed, torn, pc, work, outcome, history>>

Next ==
  \/ \E g \in Games, n \in Rating : Rate(g, n)
  \/ Queue \/ SubmitNow \/ Dequeue
  \/ BeginSync \/ \E g \in Games : Push(g)
  \/ SavePushed \/ FetchFails \/ Fetch \/ Merge
  \/ Stop \/ \E r \in late : Arrive(r)

Spec == Init /\ [][Next]_vars

(* The player goes on opening the installed games, the worker runs, and    *)
(* of the requests made over and over some are answered.                   *)
Confirmed(g) == Push(g) /\ queue'[g] = None
Fairness ==
  /\ WF_vars(BeginSync) /\ WF_vars(SavePushed) /\ WF_vars(Merge)
  /\ WF_vars(Queue) /\ WF_vars(SubmitNow) /\ WF_vars(Dequeue)
  /\ WF_vars(Fetch \/ FetchFails)
  /\ \A g \in Games : WF_vars(Push(g)) /\ SF_vars(Confirmed(g))

LiveSpec == Spec /\ Fairness

-----------------------------------------------------------------------------
(* Every variable has the shape its declaration gives, and a job's copies  *)
(* are there only while it runs.                                           *)
TypeOK ==
  /\ local \in [Games -> Rating] /\ server \in [Games -> Rating]
  /\ pending \in [Games -> Rating \cup {None}]
  /\ queue \in [Games -> Rating \cup {None}]
  /\ late \subseteq [game : Games, stars : Rating] /\ torn \subseteq Games /\ delayed \subseteq Games
  /\ pc \in {"idle", "queue", "submit", "dequeue", "push", "fetch", "merge"}
  /\ rated \in Games \cup {None} /\ todo \subseteq Games
  /\ got \in [Games -> Rating] \cup {None}
  /\ outcome \in {None, "sent", "saved", "synced", "stopped"}
  /\ wanted \in [Games -> Rating \cup {None}] /\ changes \in 0..MaxChanges
  /\ pc = "idle" => got = None /\ todo = {}

(* The two things that may cost a player a rating: a stop between the      *)
(* writes of the stars and of the queue, and a request that comes after a  *)
(* newer one.  They do so for their own game, until it is rated again.     *)
Spoiled(g) == g \in torn \cup delayed

(* "An unavailable server must never overwrite stars saved offline": what  *)
(* the player last chose for a game is what the device shows, whichever    *)
(* requests and answers were lost in between, wherever a write failed or   *)
(* the power went, unless the game's own last rating is spoiled.           *)
StarsKept ==
  \A g \in Games : wanted[g] # None /\ ~Spoiled(g) => local[g] = wanted[g]

(* What the store does not have is queued for it, so that a later          *)
(* synchronization can bring both to agree.                                *)
UnsentQueued ==
  pc = "idle" =>
    \A g \in Games :
      wanted[g] # None /\ ~Spoiled(g) /\ server[g] # wanted[g] => pending[g] = wanted[g]

(* "Retain old local-only ratings too, so importing an unlinked device     *)
(* loses none": whatever fails and whichever requests are late, the device *)
(* drops the stars of no game but one the player has removed them from, or *)
(* one that was rated again while its removal waited in the queue, and the *)
(* new stars never got there.                                              *)
ImportLosesNone ==
  [][\A g \in Games :
       local[g] # 0 /\ local'[g] = 0 => wanted'[g] = 0 \/ g \in torn]_vars

(* "Rating saved. Thank you!" is said only when the store has the stars    *)
(* that the device shows and nothing of the game is left in the queue.     *)
ThanksIsTrue ==
  outcome = "sent" /\ ~Spoiled(rated) => server[rated] = local[rated] /\ pending[rated] = None

(* What the device, its queue and the player's thanks say of the ratings is *)
(* true together.                                                          *)
RatingsTrue == StarsKept /\ UnsentQueued /\ ThanksIsTrue

(* Stars given offline reach the store in the end.                         *)
StarsArrive ==
  \A g \in Games : <>[](wanted[g] # None /\ ~Spoiled(g) => server[g] = wanted[g])
=============================================================================
