------------------------- MODULE NestRatingsProofs -------------------------
(***************************************************************************)
(* The ratings of NestRatings, proved for every set of games, every number *)
(* of stars and every number of ratings and synchronizations, whichever    *)
(* requests and answers are lost.                                          *)
(***************************************************************************)
EXTENDS NestRatings, TLAPS

(* What a job's copy of the queue stands for while the job is under way,   *)
(* and what it is about.                                                   *)
JobInv ==
  /\ pc \in {"queue", "submit", "fetch", "merge", "dequeue"} => queue = pending
  /\ pc \in {"queue", "submit", "dequeue"} =>
       rated \in Games /\ wanted[rated] # None /\ local[rated] = wanted[rated]
  /\ pc \in {"submit", "dequeue"} => pending[rated] = local[rated]
  /\ pc = "push" =>
       \A g \in Games : /\ g \in todo => queue[g] = pending[g] /\ queue[g] # None
                        /\ queue[g] # None => queue[g] = pending[g]

(* What has been confirmed, and the answer of the store, are what the store *)
(* has, but for the games it may still get an old request for.             *)
StoreInv ==
  /\ \A r \in late : r.game \in delayed
  /\ pc = "dequeue" /\ rated \notin delayed => server[rated] = local[rated]
  /\ pc = "push" =>
       \A g \in Games \ delayed :
         queue[g] = None /\ pending[g] # None => server[g] = pending[g]
  /\ pc = "merge" => \A g \in Games \ delayed : got[g] = server[g]

(* A rating of the player's is queued or the store has it, except in the   *)
(* moment between the two writes of SetRating.                             *)
SentInv ==
  \A g \in Games :
    wanted[g] # None /\ ~Spoiled(g) =>
      \/ pc = "queue" /\ rated = g
      \/ pending[g] = wanted[g]
      \/ pending[g] = None /\ server[g] = wanted[g]

(* What is queued to be removed the player has removed, and not rated      *)
(* again, but for the moment between the two writes and a stop in it.      *)
RemovedInv ==
  \A g \in Games :
    pending[g] = 0 => \/ wanted[g] = 0
                      \/ g \in torn
                      \/ pc = "queue" /\ rated = g

(* What a job needs for its next step is there.                            *)
ReadyInv ==
  /\ pc \in {"queue", "submit", "dequeue"} => rated \in Games
  /\ pc = "submit" => queue[rated] # None
  /\ \A g \in todo : queue[g] # None
  /\ pc = "merge" => got # None
  /\ pc # "idle" => outcome = None
  /\ outcome = "sent" => rated \in Games

TypeInv == TypeOK /\ ReadyInv

-----------------------------------------------------------------------------
(* A submission changes the store's rating of its game only, to the        *)
(* submitted one; when it is confirmed, it does.  Of the games whose       *)
(* requests may be late only its own is new.                               *)
LEMMA SubmitLemma ==
  ASSUME server \in [Games -> Rating], late \subseteq [game : Games, stars : Rating],
         delayed \subseteq Games,
         NEW g \in Games, NEW n \in Rating, NEW confirmed \in BOOLEAN,
         Submit(g, n, confirmed)
  PROVE  /\ server' \in [Games -> Rating]
         /\ late' \subseteq [game : Games, stars : Rating]
         /\ delayed' \subseteq Games
         /\ confirmed => server'[g] = n
         /\ server'[g] \in {server[g], n}
         /\ \A h \in Games : h # g => server'[h] = server[h]
         /\ delayed \subseteq delayed'
         /\ (\A r \in late : r.game \in delayed) => \A r \in late' : r.game \in delayed'
<1>1. CASE UNCHANGED store /\ ~confirmed
  BY <1>1 DEF store
<1>2. CASE server' = [server EXCEPT ![g] = n] /\ UNCHANGED <<late, delayed>>
  BY <1>2
<1>3. CASE /\ late' = late \cup {[game |-> g, stars |-> n]} /\ delayed' = delayed \cup {g}
           /\ UNCHANGED server /\ ~confirmed
  BY <1>3
<1> QED
  BY <1>1, <1>2, <1>3 DEF Submit

-----------------------------------------------------------------------------
(* Type correctness.                                                       *)

LEMMA InitTypeInv == Init => TypeInv
BY RatingsAssumption DEF Init, TypeInv, TypeOK, ReadyInv, Rating

LEMMA NextTypeInv == TypeInv /\ [Next]_vars => TypeInv'
<1> SUFFICES ASSUME TypeInv, [Next]_vars PROVE TypeInv'
  OBVIOUS
<1> USE RatingsAssumption DEF TypeInv, TypeOK, ReadyInv, history
<1>1. ASSUME NEW g \in Games, NEW n \in Rating, Rate(g, n) PROVE TypeInv'
  BY <1>1 DEF Rate, store, Rating
<1>2. CASE Queue
  BY <1>2 DEF Queue, Mended, Rating
<1>3. CASE SubmitNow
  <2>1. rated \in Games /\ queue[rated] \in Rating
    BY <1>3 DEF SubmitNow
  <2>2. PICK confirmed \in BOOLEAN : Submit(rated, queue[rated], confirmed)
    BY <1>3 DEF SubmitNow
  <2>3. /\ server' \in [Games -> Rating]
        /\ late' \subseteq [game : Games, stars : Rating]
        /\ delayed' \subseteq Games
    BY <2>1, <2>2, SubmitLemma
  <2>4. CASE pc' = "dequeue" /\ UNCHANGED <<work, outcome>>
    BY <1>3, <2>1, <2>3, <2>4 DEF SubmitNow, work, files
  <2>5. CASE End("saved")
    BY <1>3, <2>1, <2>3, <2>5 DEF SubmitNow, End, files
  <2> QED
    BY <1>3, <2>4, <2>5 DEF SubmitNow
<1>4. CASE Dequeue
  BY <1>4 DEF Dequeue, End, store
<1>5. CASE BeginSync
  BY <1>5 DEF BeginSync, files, store
<1>6. ASSUME NEW g \in Games, Push(g) PROVE TypeInv'
  <2>1. queue[g] \in Rating
    BY <1>6 DEF Push
  <2>2. PICK confirmed \in BOOLEAN : Submit(g, queue[g], confirmed)
    BY <1>6 DEF Push
  <2>3. /\ server' \in [Games -> Rating]
        /\ late' \subseteq [game : Games, stars : Rating]
        /\ delayed' \subseteq Games
    BY <2>1, <2>2, SubmitLemma
  <2>4. queue' \in {queue, [queue EXCEPT ![g] = None]}
    BY <1>6 DEF Push
  <2> QED
    BY <1>6, <2>3, <2>4 DEF Push, files
<1>7. CASE SavePushed
  BY <1>7 DEF SavePushed, work, store
<1>8. CASE FetchFails
  BY <1>8 DEF FetchFails, End, files, store
<1>9. CASE Fetch
  BY <1>9 DEF Fetch, files, store, Rating
<1>10. CASE Merge
  <2>1. \A g \in Games : Merged(g) \in Rating
    BY <1>10 DEF Merge, Merged
  <2> QED
    BY <1>10, <2>1 DEF Merge, End, store
<1>11. CASE Stop
  BY <1>11 DEF Stop, End, files, store
<1>12. ASSUME NEW r \in late, Arrive(r) PROVE TypeInv'
  BY <1>12 DEF Arrive, files, work
<1>13. CASE UNCHANGED vars
  BY <1>13 DEF vars, files, store, work
<1> QED
  BY <1>1, <1>2, <1>3, <1>4, <1>5, <1>6, <1>7, <1>8, <1>9, <1>10, <1>11,
     <1>12, <1>13 DEF Next

(* Every variable of the device, the store and the worker keeps its shape. *)
THEOREM TypeCorrect == Spec => []TypeOK
<1>1. TypeInv => TypeOK
  BY DEF TypeInv
<1> QED
  BY <1>1, InitTypeInv, NextTypeInv, PTL DEF Spec

-----------------------------------------------------------------------------
(* The stars of the player.                                                *)

Kept == StarsKept /\ JobInv /\ StoreInv /\ SentInv /\ ThanksIsTrue /\ RemovedInv

LEMMA InitKept == Init => Kept
<1> SUFFICES ASSUME Init PROVE Kept
  OBVIOUS
<1>1. StarsKept /\ SentInv
  BY DEF Init, StarsKept, SentInv
<1>2. JobInv /\ StoreInv
  BY DEF Init, JobInv, StoreInv
<1>3. ThanksIsTrue /\ RemovedInv
  BY RatingsAssumption DEF Init, ThanksIsTrue, RemovedInv
<1> QED
  BY <1>1, <1>2, <1>3 DEF Kept

LEMMA NextKept ==
  ASSUME TypeInv, TypeInv', Kept, [Next]_vars PROVE Kept'
<1> USE RatingsAssumption DEF TypeInv, TypeOK, ReadyInv, Kept, StarsKept, JobInv, StoreInv,
        SentInv, ThanksIsTrue, RemovedInv, Spoiled, history
<1>1. ASSUME NEW g \in Games, NEW n \in Rating, Rate(g, n) PROVE Kept'
  <2>1. StarsKept' /\ SentInv'
    BY <1>1 DEF Rate, store, Rating
  <2>2. JobInv'
    BY <1>1 DEF Rate, store, Rating
  <2>3. StoreInv' /\ ThanksIsTrue'
    BY <1>1 DEF Rate, store, Rating
  <2>4. RemovedInv'
    BY <1>1 DEF Rate, Rating
  <2> QED
    BY <2>1, <2>2, <2>3, <2>4
<1>2. CASE Queue
  <2>1. /\ pc = "queue" /\ pc' = "submit" /\ UNCHANGED <<local, server, late, rated, wanted, outcome>>
        /\ rated \in Games /\ pending'[rated] = wanted[rated] /\ queue' = pending'
        /\ \A g \in Games : g # rated => pending'[g] = pending[g]
    BY <1>2 DEF Queue
  <2>2. /\ \A g \in Games : g # rated => (Spoiled(g)' <=> Spoiled(g))
        /\ torn' = torn \ {rated}
        /\ \A r \in late : r.game \in delayed'
    BY <1>2, <2>1 DEF Queue, Mended
  <2>3. StarsKept' /\ SentInv'
    BY <2>1, <2>2
  <2>4. JobInv' /\ ThanksIsTrue'
    BY <1>2, <2>1
  <2>5. StoreInv'
    BY <2>1, <2>2
  <2>6. RemovedInv'
    BY <2>1, <2>2
  <2> QED
    BY <2>3, <2>4, <2>5, <2>6
<1>3. CASE SubmitNow
  <2>1. rated \in Games /\ queue[rated] \in Rating /\ queue = pending
    BY <1>3 DEF SubmitNow
  <2>2. PICK confirmed \in BOOLEAN :
          /\ Submit(rated, queue[rated], confirmed)
          /\ IF confirmed THEN pc' = "dequeue" /\ UNCHANGED <<work, outcome>> ELSE End("saved")
    BY <1>3 DEF SubmitNow
  <2>3. /\ confirmed => server'[rated] = local[rated]
        /\ \A h \in Games : h # rated => server'[h] = server[h]
        /\ delayed \subseteq delayed' /\ \A r \in late' : r.game \in delayed'
    BY <2>1, <2>2, <1>3, SubmitLemma DEF SubmitNow
  <2>4. pc = "submit" /\ UNCHANGED <<local, pending, torn, wanted, rated>>
    BY <1>3, <2>2 DEF SubmitNow, files, End, work
  <2>5. StarsKept' /\ SentInv' /\ RemovedInv'
    BY <2>3, <2>4
  <2>6. CASE confirmed
    BY <2>1, <2>2, <2>3, <2>4, <2>5, <2>6 DEF work
  <2>7. CASE ~confirmed
    BY <2>1, <2>2, <2>3, <2>4, <2>5, <2>7 DEF End
  <2> QED
    BY <2>6, <2>7
<1>4. CASE Dequeue
  <2>1. /\ pc = "dequeue" /\ pc' = "idle" /\ UNCHANGED <<local, server, late, delayed, torn, rated, wanted>>
        /\ rated \in Games /\ pending'[rated] = None
        /\ \A g \in Games : g # rated => pending'[g] = pending[g]
    BY <1>4 DEF Dequeue, End, store
  <2>2. StarsKept' /\ SentInv' /\ RemovedInv'
    BY <2>1
  <2>3. JobInv' /\ StoreInv' /\ ThanksIsTrue'
    BY <2>1
  <2> QED
    BY <2>2, <2>3
<1>5. CASE BeginSync
  <2>1. StarsKept' /\ SentInv' /\ RemovedInv'
    BY <1>5 DEF BeginSync, files, store
  <2>2. JobInv'
    BY <1>5 DEF BeginSync, files, store
  <2>3. StoreInv' /\ ThanksIsTrue'
    BY <1>5 DEF BeginSync, files, store
  <2> QED
    BY <2>1, <2>2, <2>3
<1>6. ASSUME NEW g \in Games, Push(g) PROVE Kept'
  <2>1. queue[g] \in Rating /\ queue[g] = pending[g]
    BY <1>6 DEF Push
  <2>2. PICK confirmed \in BOOLEAN :
          /\ Submit(g, queue[g], confirmed)
          /\ IF confirmed THEN queue' = [queue EXCEPT ![g] = None] ELSE queue' = queue
    BY <1>6 DEF Push
  <2>3. /\ confirmed => server'[g] = queue[g]
        /\ server'[g] \in {server[g], queue[g]}
        /\ \A h \in Games : h # g => server'[h] = server[h]
        /\ delayed \subseteq delayed' /\ \A r \in late' : r.game \in delayed'
    BY <2>1, <2>2, SubmitLemma
  <2>4. pc = "push" /\ UNCHANGED <<local, pending, torn, pc, rated, outcome, wanted>>
    BY <1>6 DEF Push, files
  <2>5. StarsKept' /\ ThanksIsTrue' /\ RemovedInv'
    BY <2>3, <2>4
  <2>6. SentInv'
    <3>1. ASSUME NEW h \in Games, wanted[h] # None, ~Spoiled(h)
          PROVE  pending[h] = wanted[h] \/ (pending[h] = None /\ server'[h] = wanted[h])
      BY <2>1, <2>3, <2>4, <3>1 DEF Rating
    <3> QED
      BY <2>3, <2>4, <3>1
  <2>7. /\ \A h \in Games : h # g => queue'[h] = queue[h]
        /\ queue'[g] \in {None, pending[g]}
        /\ queue'[g] = None => server'[g] = pending[g]
        /\ todo' = todo \ {g}
    BY <1>6, <2>1, <2>2, <2>3 DEF Push, Rating
  <2>8. JobInv' /\ StoreInv'
    BY <2>1, <2>3, <2>4, <2>7
  <2> QED
    BY <2>5, <2>6, <2>8
<1>7. CASE SavePushed
  <2>1. /\ pc = "push" /\ pc' = "fetch" /\ pending' = queue
        /\ UNCHANGED <<local, server, late, delayed, torn, rated, queue, outcome, wanted>>
        /\ \A g \in Games : queue[g] # None => queue[g] = pending[g]
    BY <1>7 DEF SavePushed, work, store
  <2>2. StarsKept' /\ ThanksIsTrue' /\ RemovedInv'
    BY <2>1
  <2>3. ASSUME NEW g \in Games, wanted[g] # None, ~Spoiled(g)
        PROVE  queue[g] = wanted[g] \/ (queue[g] = None /\ server[g] = wanted[g])
    BY <2>1, <2>3
  <2>4. SentInv'
    BY <2>1, <2>3
  <2>5. JobInv' /\ StoreInv'
    BY <2>1
  <2> QED
    BY <2>2, <2>4, <2>5
<1>8. CASE FetchFails
  BY <1>8 DEF FetchFails, End, files, store
<1>9. CASE Fetch
  BY <1>9 DEF Fetch, files, store
<1>10. CASE Merge
  <2>1. /\ pc = "merge" /\ pc' = "idle" /\ local' = [g \in Games |-> Merged(g)] /\ outcome' = "synced"
        /\ UNCHANGED <<pending, server, late, delayed, torn, rated, wanted>>
    BY <1>10 DEF Merge, End, store
  <2>2. \A g \in Games : wanted[g] # None /\ ~Spoiled(g) => Merged(g) = wanted[g]
    BY <2>1 DEF Merged, Rating
  <2>3. StarsKept'
    BY <2>1, <2>2
  <2>4. JobInv' /\ StoreInv' /\ SentInv' /\ ThanksIsTrue' /\ RemovedInv'
    BY <2>1
  <2> QED
    BY <2>3, <2>4
<1>11. CASE Stop
  <2>1. /\ pc' = "idle" /\ outcome' = "stopped"
        /\ torn' = IF pc = "queue" THEN torn \cup {rated} ELSE torn
        /\ UNCHANGED <<local, pending, server, late, delayed, rated, wanted>>
    BY <1>11 DEF Stop, End, files, store
  <2>2. StarsKept' /\ SentInv' /\ RemovedInv'
    BY <2>1
  <2>3. JobInv' /\ StoreInv' /\ ThanksIsTrue'
    BY <2>1
  <2> QED
    BY <2>2, <2>3
<1>12. ASSUME NEW r \in late, Arrive(r) PROVE Kept'
  <2>1. /\ r.game \in Games /\ r.game \in delayed /\ late' = late \ {r}
        /\ \A g \in Games : g # r.game => server'[g] = server[g]
        /\ UNCHANGED <<local, pending, delayed, torn, pc, rated, queue, todo, got, outcome, wanted>>
    BY <1>12 DEF Arrive, files, work
  <2>2. StarsKept' /\ SentInv' /\ RemovedInv' /\ ThanksIsTrue'
    BY <2>1
  <2>3. JobInv' /\ StoreInv'
    BY <2>1
  <2> QED
    BY <2>2, <2>3
<1>13. CASE UNCHANGED vars
  BY <1>13 DEF vars, files, store, work
<1> QED
  BY <1>1, <1>2, <1>3, <1>4, <1>5, <1>6, <1>7, <1>8, <1>9, <1>10, <1>11,
     <1>12, <1>13 DEF Next

(* Wherever a write fails or the power goes, and whichever requests are    *)
(* lost or late, the stars the player chose stay on the device, what the   *)
(* store does not have is queued, and thanks are given only for stars it   *)
(* has: for every game but one whose last rating was stopped between its   *)
(* two writes, or overtaken by a request given up before it.               *)
THEOREM StarsCorrect == Spec => []RatingsTrue
<1>1. Init => TypeInv /\ Kept
  BY InitTypeInv, InitKept
<1>2. TypeInv /\ Kept /\ [Next]_vars => (TypeInv /\ Kept)'
  BY NextTypeInv, NextKept
<1>3. Kept => RatingsTrue
  BY DEF Kept, SentInv, RatingsTrue, UnsentQueued
<1> QED
  BY <1>1, <1>2, <1>3, PTL DEF Spec

(* No synchronization, wherever one was stopped before and whatever the    *)
(* store answers, takes the stars of a game from the device that the       *)
(* player has not removed; except of a game that was rated again while its *)
(* removal waited in the queue, by a rating that was stopped before it     *)
(* took the removal's place there.                                         *)
THEOREM ImportCorrect == Spec => ImportLosesNone
<1> DEFINE Loss == \A g \in Games :
             local[g] # 0 /\ local'[g] = 0 => wanted'[g] = 0 \/ g \in torn
<1>1. TypeInv /\ Kept /\ [Next]_vars => [Loss]_vars
  <2> SUFFICES ASSUME TypeInv, Kept, [Next]_vars PROVE [Loss]_vars
    OBVIOUS
  <2> USE RatingsAssumption DEF TypeInv, TypeOK, ReadyInv, history
  <2>1. ASSUME NEW g \in Games, NEW n \in Rating, Rate(g, n) PROVE Loss
    BY <2>1 DEF Rate, Rating
  <2>2. CASE Merge
    <3>1. ASSUME NEW g \in Games, local[g] # 0, Merged(g) = 0
          PROVE  wanted[g] = 0 \/ g \in torn
      <4>1. pc = "merge" /\ queue = pending
        BY <2>2 DEF Merge, Kept, JobInv
      <4>2. pending[g] = 0
        BY <3>1, <4>1 DEF Merged
      <4> QED
        BY <4>1, <4>2 DEF Kept, RemovedInv
    <3> QED
      BY <2>2, <3>1 DEF Merge
  <2>3. CASE UNCHANGED local
    BY <2>3
  <2> QED
    BY <2>1, <2>2, <2>3
       DEF Next, Queue, SubmitNow, Dequeue, BeginSync, Push, SavePushed, FetchFails,
           Fetch, Stop, Arrive, files, vars
<1>2. TypeInv /\ Kept /\ [Next]_vars => (TypeInv /\ Kept)'
  BY NextTypeInv, NextKept
<1>3. Init => TypeInv /\ Kept
  BY InitTypeInv, InitKept
<1> QED
  BY <1>1, <1>2, <1>3, PTL DEF Spec, ImportLosesNone
=============================================================================
