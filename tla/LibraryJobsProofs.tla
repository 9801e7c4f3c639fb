------------------------- MODULE LibraryJobsProofs -------------------------
(***************************************************************************)
(* The job queue and the pictures of LibraryJobs, proved for every set of  *)
(* games, kinds of jobs and number of jobs and mishaps: who may run a job, *)
(* and which pictures the catalog may name.                                *)
(***************************************************************************)
EXTENDS LibraryJobs, TLAPS

JobRows == [type : Types, status : {"queued", "running", "ok", "error"}]
Doings ==
  [does : {"idle", "queue", "scan", "identify", "build_thumb", "scrape"},
   at : {"list", "next", "install", "box", "meta"}, job : Nat, todo : SUBSET Games,
   game : Games \cup {None}]

(* The rows, and what a worker holds for its next step: the row of its     *)
(* job, and the game whose picture it is fetching.                         *)
QueueTypes ==
  /\ jobs \in Seq(JobRows)
  /\ worker \in [Workers -> Doings]
  /\ \A w \in Workers :
       /\ worker[w].job \in 0..Len(jobs)
       /\ worker[w].at \in {"install", "box", "meta"} => worker[w].game \in Games

ArtTypes ==
  /\ picture \in [Games -> {None, "user", "match"}] /\ download \subseteq Games
  /\ box \in [Games -> {None, "art", "icon"}]
  /\ meta \in [Games -> {None, "guess", "scraped", "nest"}]
  /\ spoilt \subseteq Games

TypeInv == QueueTypes /\ ArtTypes

(* A scrape that is about to record a picture has put it there, and only   *)
(* the player or another scrape can have taken it away since.              *)
BoxInv ==
  \A w \in Workers :
    worker[w].at = "box" => worker[w].game \in spoilt \/ picture[worker[w].game] # None

ArtInv == ShownArtExists /\ BoxInv

-----------------------------------------------------------------------------
(* The queue.                                                              *)

LEMMA IdleLemma ==
  \A w \in Workers : /\ Idle \in Doings /\ Ready(w) \in Doings
                     /\ Idle.job = 0 /\ Ready(w).job = 0
                     /\ Idle.at = "list" /\ Ready(w).at = "list"
BY DEF Idle, Ready, Doings, Workers

(* A worker that changes what it does, without claiming or ending a job.   *)
LEMMA BecomesTyped ==
  ASSUME QueueTypes, NEW w \in Workers, NEW r \in Doings, Becomes(w, r), UNCHANGED jobs,
         r.job \in {0, worker[w].job},
         r.at \in {"install", "box", "meta"} => r.game \in Games
  PROVE  /\ QueueTypes'
         /\ ClaimedOnce => ClaimedOnce'
<1>1. /\ worker' \in [Workers -> Doings] /\ worker'[w] = r
      /\ \A v \in Workers \ {w} : worker'[v] = worker[v]
  BY DEF QueueTypes, Becomes
<1>2. QueueTypes'
  BY <1>1 DEF QueueTypes
<1>3. ClaimedOnce => ClaimedOnce'
  BY <1>1 DEF ClaimedOnce
<1> QED
  BY <1>2, <1>3

(* MarkJobOk and MarkJobError.                                             *)
LEMMA EndsTyped ==
  ASSUME QueueTypes, NEW w \in Workers, NEW status \in {"ok", "error"}, Ends(w, status)
  PROVE  /\ QueueTypes' /\ worker'[w].at = "list"
         /\ \A v \in Workers \ {w} : worker'[v] = worker[v]
         /\ ClaimedOnce => ClaimedOnce'
<1> DEFINE r == IF worker[w].job = 0 THEN Idle ELSE Ready(w)
<1>1. r \in Doings /\ r.job = 0 /\ r.at = "list"
  BY IdleLemma
<1> HIDE DEF r
<1>2. /\ worker' \in [Workers -> Doings] /\ worker'[w] = r
      /\ \A v \in Workers \ {w} : worker'[v] = worker[v]
  BY <1>1 DEF QueueTypes, Ends, Becomes, r
<1>3. CASE worker[w].job = 0
  <2>1. UNCHANGED jobs
    BY <1>3 DEF Ends
  <2> QED
    BY <1>1, <1>2, <2>1 DEF QueueTypes, ClaimedOnce
<1>4. CASE worker[w].job # 0
  <2>1. jobs' = [jobs EXCEPT ![worker[w].job].status = status]
    BY <1>4 DEF Ends
  <2>2. worker[w].job \in DOMAIN jobs
    BY <1>4 DEF QueueTypes
  <2>3. jobs[worker[w].job] \in JobRows
    BY <2>2 DEF QueueTypes
  <2>4. [jobs[worker[w].job] EXCEPT !.status = status] \in JobRows
    BY <2>3 DEF JobRows
  <2>5. jobs' \in Seq(JobRows) /\ Len(jobs') = Len(jobs)
    BY <2>1, <2>2, <2>4 DEF QueueTypes
  <2>6. \A j \in DOMAIN jobs : j # worker[w].job => jobs'[j] = jobs[j]
    BY <2>1 DEF QueueTypes
  <2>7. QueueTypes'
    BY <1>1, <1>2, <2>5 DEF QueueTypes
  <2>8. ClaimedOnce => ClaimedOnce'
    <3> SUFFICES ASSUME ClaimedOnce, NEW x \in Workers, worker'[x].job # 0
                 PROVE  /\ jobs'[worker'[x].job].status = "running"
                        /\ \A v \in Workers \ {x} : worker'[v].job # worker'[x].job
      BY DEF ClaimedOnce
    <3>1. x # w /\ worker'[x] = worker[x] /\ worker[x].job \in DOMAIN jobs
      BY <1>1, <1>2 DEF QueueTypes
    <3>2. worker[x].job # worker[w].job /\ jobs[worker[x].job].status = "running"
      BY <1>4, <3>1 DEF ClaimedOnce
    <3>3. jobs'[worker[x].job].status = "running"
      BY <2>6, <3>1, <3>2
    <3>4. \A v \in Workers \ {x} : worker'[v].job # worker[x].job
      BY <1>1, <1>2, <3>1 DEF ClaimedOnce
    <3> QED
      BY <3>1, <3>3, <3>4
  <2> QED
    BY <1>1, <1>2, <2>7, <2>8
<1> QED
  BY <1>3, <1>4

(* ClaimNextQueuedJob.                                                     *)
LEMMA ClaimTyped ==
  ASSUME QueueTypes, NEW w \in Workers, ClaimNextQueuedJob(w)
  PROVE  /\ QueueTypes' /\ worker'[w].at = "list"
         /\ \A v \in Workers \ {w} : worker'[v] = worker[v]
         /\ ClaimedOnce => ClaimedOnce'
<1>1. PICK j \in Queued :
        /\ jobs' = [jobs EXCEPT ![j].status = "running"]
        /\ Becomes(w, [Idle EXCEPT !.does = jobs[j].type, !.job = j])
  BY DEF ClaimNextQueuedJob, Claimable
<1> DEFINE r == [Idle EXCEPT !.does = jobs[j].type, !.job = j]
<1>2. /\ j \in DOMAIN jobs /\ jobs[j] \in JobRows /\ jobs[j].status = "queued"
      /\ j \in 1..Len(jobs) /\ j \in Nat
  BY <1>1 DEF Queued, QueueTypes
<1>3. r \in Doings /\ r.job = j /\ r.at = "list"
  <2>1. jobs[j].type \in {"scan", "identify", "build_thumb", "scrape"}
    BY <1>2, LibraryJobsAssumption DEF JobRows
  <2> QED
    BY <1>2, <2>1 DEF Idle, Doings
<1> HIDE DEF r
<1>4. /\ worker' \in [Workers -> Doings] /\ worker'[w] = r
      /\ \A v \in Workers \ {w} : worker'[v] = worker[v]
  BY <1>1, <1>3 DEF QueueTypes, Becomes, r
<1>5. [jobs[j] EXCEPT !.status = "running"] \in JobRows
  BY <1>2 DEF JobRows
<1>6. /\ jobs' \in Seq(JobRows) /\ Len(jobs') = Len(jobs)
      /\ \A k \in DOMAIN jobs : k # j => jobs'[k] = jobs[k]
  BY <1>1, <1>2, <1>5 DEF QueueTypes
<1>7. jobs'[j].status = "running"
  BY <1>1, <1>2 DEF QueueTypes, JobRows
<1>8. QueueTypes'
  BY <1>2, <1>3, <1>4, <1>6 DEF QueueTypes
<1>9. ASSUME ClaimedOnce PROVE ClaimedOnce'
  <2>1. \A v \in Workers : worker[v].job # j
    BY <1>2, <1>9 DEF ClaimedOnce, QueueTypes
  <2>2. \A v \in Workers \ {w} : worker[v].job # 0 => jobs'[worker[v].job] = jobs[worker[v].job]
    BY <1>6, <2>1 DEF QueueTypes
  <2> QED
    BY <1>3, <1>4, <1>7, <1>9, <2>1, <2>2 DEF ClaimedOnce
<1> QED
  BY <1>3, <1>4, <1>8, <1>9

(* A new job is nobody's.                                                  *)
LEMMA EnqueueTyped ==
  ASSUME QueueTypes, NEW type \in Types, Enqueue(type)
  PROVE  /\ jobs' \in Seq(JobRows) /\ Len(jobs') = Len(jobs) + 1
         /\ \A j \in DOMAIN jobs : jobs'[j] = jobs[j]
<1>1. [type |-> type, status |-> "queued"] \in JobRows
  BY DEF JobRows
<1> QED
  BY <1>1 DEF Enqueue, QueueTypes

-----------------------------------------------------------------------------
(* Type correctness, and who runs a job.                                   *)

LEMMA InitTypeInv == Init => TypeInv /\ ClaimedOnce
<1> SUFFICES ASSUME Init PROVE TypeInv /\ ClaimedOnce
  OBVIOUS
<1>1. QueueTypes
  BY IdleLemma DEF Init, QueueTypes, Workers, Idle
<1>2. ArtTypes
  BY DEF Init, ArtTypes
<1>3. ClaimedOnce
  BY IdleLemma DEF Init, ClaimedOnce, Workers
<1> QED
  BY <1>1, <1>2, <1>3 DEF TypeInv

(* What a worker may change of the pictures and their records.             *)
LEMMA ArtTyped ==
  ASSUME ArtTypes,
         picture' \in [Games -> {None, "user", "match"}], download' \subseteq Games,
         box' \in [Games -> {None, "art", "icon"}],
         meta' \in [Games -> {None, "guess", "scraped", "nest"}], spoilt' \subseteq Games
  PROVE  ArtTypes'
BY DEF ArtTypes

LEMMA WorkTypeInv ==
  ASSUME TypeInv, NEW w \in Workers, Work(w)
  PROVE  TypeInv' /\ (ClaimedOnce => ClaimedOnce')
<1> DEFINE Good == QueueTypes' /\ (ClaimedOnce => ClaimedOnce')
<1>1. QueueTypes /\ ArtTypes
  BY DEF TypeInv
<1>2. /\ worker[w] \in Doings
      /\ worker[w].at \in {"install", "box", "meta"} => worker[w].game \in Games
  BY <1>1 DEF QueueTypes
<1>3. SUFFICES Good /\ ArtTypes'
  BY DEF TypeInv
<1>4. ASSUME NEW status \in {"ok", "error"}, Ends(w, status) PROVE Good
  BY <1>1, <1>4, EndsTyped
<1>5. ASSUME NEW r \in Doings, Becomes(w, r), UNCHANGED jobs, r.job = worker[w].job,
             r.at \in {"install", "box", "meta"} => r.game \in Games
      PROVE  Good
  BY <1>1, <1>5, BecomesTyped
<1> HIDE DEF Good
<1>6. ASSUME NEW games \in SUBSET Games, Listed(w, games), UNCHANGED jobs PROVE Good
  <2>1. /\ [worker[w] EXCEPT !.at = "next", !.todo = games] \in Doings
        /\ [worker[w] EXCEPT !.at = "next", !.todo = games].job = worker[w].job
        /\ [worker[w] EXCEPT !.at = "next", !.todo = games].at = "next"
    BY <1>2 DEF Doings
  <2> QED
    BY <1>5, <1>6, <2>1 DEF Listed
<1>7. ASSUME NEW g \in Games, Took(w, g), UNCHANGED jobs PROVE Good
  <2>1. /\ [worker[w] EXCEPT !.todo = @ \ {g}] \in Doings
        /\ [worker[w] EXCEPT !.todo = @ \ {g}].job = worker[w].job
        /\ [worker[w] EXCEPT !.todo = @ \ {g}].at = worker[w].at
        /\ [worker[w] EXCEPT !.todo = @ \ {g}].game = worker[w].game
    BY <1>2 DEF Doings
  <2> QED
    BY <1>2, <1>5, <1>7, <2>1 DEF Took
<1>8. ASSUME NextGame(w), UNCHANGED jobs PROVE Good
  <2>1. /\ [worker[w] EXCEPT !.at = "next", !.game = None] \in Doings
        /\ [worker[w] EXCEPT !.at = "next", !.game = None].job = worker[w].job
        /\ [worker[w] EXCEPT !.at = "next", !.game = None].at = "next"
    BY <1>2 DEF Doings
  <2> QED
    BY <1>5, <1>8, <2>1 DEF NextGame
<1>9. ASSUME NEW at \in {"box", "meta"}, Becomes(w, [worker[w] EXCEPT !.at = at]),
             worker[w].game \in Games, UNCHANGED jobs
      PROVE  Good
  <2>1. /\ [worker[w] EXCEPT !.at = at] \in Doings
        /\ [worker[w] EXCEPT !.at = at].job = worker[w].job
        /\ [worker[w] EXCEPT !.at = at].game = worker[w].game
    BY <1>2 DEF Doings
  <2> QED
    BY <1>5, <1>9, <2>1
<1>10. ASSUME NEW status \in {"ok", "error"}, RunScanJob(w, status) PROVE Good /\ ArtTypes'
  BY <1>1, <1>4, <1>10 DEF RunScanJob, ArtTypes, files
<1>11. CASE ListGames(w)
  BY <1>1, <1>6, <1>11 DEF ListGames, ArtTypes, files
<1>12. CASE ScrapeBegin(w)
  BY <1>1, <1>6, <1>12 DEF ScrapeBegin, ArtTypes, files
<1>13. CASE NothingLeft(w)
  BY <1>1, <1>4, <1>13 DEF NothingLeft, ArtTypes, files
<1>14. ASSUME NEW g \in Games, RunIdentifyJob(w, g) PROVE Good /\ ArtTypes'
  BY <1>1, <1>7, <1>14 DEF RunIdentifyJob, UpsertGameMetadata, ArtTypes, files
<1>15. ASSUME NEW g \in Games, RunArtworkIndexJob(w, g) PROVE Good /\ ArtTypes'
  <2>1. ArtworkPathFor(g) \in {None, "art", "icon"}
    BY <1>1 DEF ArtworkPathFor, ArtTypes
  <2> QED
    BY <1>1, <1>7, <1>15, <2>1 DEF RunArtworkIndexJob, UpsertGameBoxArt, ArtTypes, files
<1>16. ASSUME NEW g \in Games, ScrapeMisses(w, g) PROVE Good /\ ArtTypes'
  BY <1>1, <1>7, <1>16 DEF ScrapeMisses, ArtTypes, files
<1>17. ASSUME NEW g \in Games, Download(w, g) PROVE Good /\ ArtTypes'
  <2> DEFINE r == [worker[w] EXCEPT !.todo = @ \ {g}, !.at = "install", !.game = g]
  <2>1. r \in Doings /\ r.job = worker[w].job /\ r.game = g
    BY <1>2 DEF Doings
  <2> QED
    BY <1>1, <1>5, <1>17, <2>1 DEF Download, ArtTypes
<1>18. CASE Install(w)
  <2>1. worker[w].game \in Games
    BY <1>2, <1>18 DEF Install, Does
  <2> QED
    BY <1>1, <1>9, <1>18, <2>1 DEF Install, ArtTypes
<1>19. CASE InstallFails(w)
  <2>1. worker[w].game \in Games
    BY <1>2, <1>19 DEF InstallFails, Does
  <2> QED
    BY <1>1, <1>8, <1>19, <2>1 DEF InstallFails, ArtTypes
<1>20. CASE RecordArt(w)
  <2>1. worker[w].game \in Games
    BY <1>2, <1>20 DEF RecordArt, Does
  <2> QED
    BY <1>1, <1>9, <1>20, <2>1 DEF RecordArt, UpsertGameBoxArt, ArtTypes, files
<1>21. CASE RecordMetadata(w)
  <2>1. worker[w].game \in Games
    BY <1>2, <1>21 DEF RecordMetadata, Does
  <2> QED
    BY <1>1, <1>8, <1>21, <2>1 DEF RecordMetadata, UpsertGameMetadata, ArtTypes, files
<1> QED
  BY <1>10, <1>11, <1>12, <1>13, <1>14, <1>15, <1>16, <1>17, <1>18, <1>19, <1>20, <1>21 DEF Work

LEMMA MishapTypeInv ==
  ASSUME TypeInv, NEW w \in Workers, Mishap(w)
  PROVE  /\ TypeInv' /\ (ClaimedOnce => ClaimedOnce')
         /\ \A v \in Workers \ {w} : worker'[v] = worker[v]
         /\ worker'[w].at \in {"list", "next"}
         /\ UNCHANGED <<picture, download, box, meta, spoilt>>
<1>1. QueueTypes /\ ArtTypes
  BY DEF TypeInv
<1>2. worker[w] \in Doings
  BY <1>1 DEF QueueTypes
<1>3. UNCHANGED <<picture, download, box, meta, spoilt>>
  BY DEF Mishap, ListFails, RecordFails, MarkLost, Dies, files
<1>4. ArtTypes'
  BY <1>1, <1>3 DEF ArtTypes
<1>5. CASE Ends(w, "error")
  BY <1>1, <1>3, <1>4, <1>5, EndsTyped DEF TypeInv
<1>6. CASE UNCHANGED jobs /\ (Becomes(w, Idle) \/ Becomes(w, Ready(w)))
  <2>1. PICK r \in Doings : Becomes(w, r) /\ r.job = 0 /\ r.at = "list"
    BY <1>6, IdleLemma
  <2>2. QueueTypes' /\ (ClaimedOnce => ClaimedOnce')
    BY <1>1, <1>6, <2>1, BecomesTyped
  <2>3. worker'[w].at = "list" /\ \A v \in Workers \ {w} : worker'[v] = worker[v]
    BY <1>1, <2>1 DEF Becomes, QueueTypes
  <2> QED
    BY <1>3, <1>4, <2>2, <2>3 DEF TypeInv
<1>7. ASSUME NEW g \in Games, Took(w, g), Does(w, "identify", "next"), UNCHANGED jobs
      PROVE  /\ TypeInv' /\ (ClaimedOnce => ClaimedOnce')
             /\ \A v \in Workers \ {w} : worker'[v] = worker[v]
             /\ worker'[w].at \in {"list", "next"}
  <2> DEFINE r == [worker[w] EXCEPT !.todo = @ \ {g}]
  <2>1. r \in Doings /\ r.job = worker[w].job /\ r.at = "next"
    BY <1>2, <1>7 DEF Doings, Does
  <2>2. Becomes(w, r)
    BY <1>7 DEF Took
  <2> HIDE DEF r
  <2>3. QueueTypes' /\ (ClaimedOnce => ClaimedOnce')
    BY <1>1, <1>7, <2>1, <2>2, BecomesTyped
  <2>4. worker'[w].at = "next" /\ \A v \in Workers \ {w} : worker'[v] = worker[v]
    BY <1>1, <2>1, <2>2 DEF Becomes, QueueTypes
  <2> QED
    BY <1>4, <2>3, <2>4 DEF TypeInv
<1> QED
  BY <1>3, <1>5, <1>6, <1>7 DEF Mishap, ListFails, RecordFails, MarkLost, Dies

LEMMA NextTypeInv == TypeInv /\ ClaimedOnce /\ [Next]_vars => TypeInv' /\ ClaimedOnce'
<1> SUFFICES ASSUME TypeInv, ClaimedOnce, [Next]_vars PROVE TypeInv' /\ ClaimedOnce'
  OBVIOUS
<1>1. QueueTypes /\ ArtTypes
  BY DEF TypeInv
<1>2. ASSUME UNCHANGED <<picture, download, box, meta, spoilt>> PROVE ArtTypes'
  BY <1>1, <1>2 DEF ArtTypes
<1>3. ASSUME NEW r \in Doings, Becomes("shell", r), r.job = 0, r.at = "list", UNCHANGED jobs,
             UNCHANGED <<picture, download, box, meta, spoilt>>
      PROVE  TypeInv' /\ ClaimedOnce'
  <2>1. "shell" \in Workers
    BY DEF Workers
  <2> QED
    BY <1>1, <1>2, <1>3, <2>1, BecomesTyped DEF TypeInv
<1>4. ASSUME NEW w \in Workers, ClaimNextQueuedJob(w) PROVE TypeInv' /\ ClaimedOnce'
  BY <1>1, <1>2, <1>4, ClaimTyped DEF ClaimNextQueuedJob, TypeInv, files
<1>5. ASSUME NEW type \in Types, Enqueue(type), UNCHANGED <<picture, download, box, meta, spoilt>>,
             UNCHANGED worker \/ Becomes("shell", Ready("shell"))
      PROVE  TypeInv' /\ ClaimedOnce'
  <2>1. /\ jobs' \in Seq(JobRows) /\ Len(jobs') = Len(jobs) + 1
        /\ \A j \in DOMAIN jobs : jobs'[j] = jobs[j]
    BY <1>1, <1>5, EnqueueTyped
  <2>2. \A w \in Workers : \/ worker'[w] = worker[w]
                           \/ worker'[w].job = 0 /\ worker'[w].at = "list"
    BY <1>1, <1>5, IdleLemma DEF Becomes, QueueTypes
  <2>3. worker' \in [Workers -> Doings]
    BY <1>1, <1>5, IdleLemma DEF Becomes, QueueTypes
  <2>4. QueueTypes'
    BY <1>1, <2>1, <2>2, <2>3 DEF QueueTypes
  <2>5. ClaimedOnce'
    BY <1>1, <2>1, <2>2 DEF QueueTypes, ClaimedOnce
  <2> QED
    BY <1>2, <1>5, <2>4, <2>5 DEF TypeInv
<1>6. ASSUME NEW type \in Types, RunTool(type) \/ EnqueueRequestedJobs(type)
      PROVE  TypeInv' /\ ClaimedOnce'
  BY <1>5, <1>6 DEF RunTool, EnqueueRequestedJobs, RunJobs, files
<1>7. CASE RunQueue \/ QueueEnds \/ CancelScrape
  <2>1. \E r \in {Idle, Ready("shell")} : Becomes("shell", r)
    BY <1>7 DEF RunQueue, RunJobs, QueueEnds, CancelScrape
  <2>2. UNCHANGED <<jobs, picture, download, box, meta, spoilt>>
    BY <1>7 DEF RunQueue, QueueEnds, CancelScrape, files
  <2> QED
    BY <1>3, <2>1, <2>2, IdleLemma DEF Workers
<1>8. CASE StartScrape
  <2>1. /\ [Idle EXCEPT !.does = "scrape"] \in Doings
        /\ [Idle EXCEPT !.does = "scrape"].job = 0
        /\ [Idle EXCEPT !.does = "scrape"].at = "list"
    BY DEF Idle, Doings
  <2> QED
    BY <1>3, <1>8, <2>1 DEF StartScrape, files
<1>9. CASE RefreshNestLibrary
  <2>1. ArtTypes'
    BY <1>1, <1>9 DEF RefreshNestLibrary, ArtTypes, files
  <2>2. UNCHANGED rows
    BY <1>9 DEF RefreshNestLibrary
  <2> QED
    BY <1>1, <2>1, <2>2 DEF TypeInv, QueueTypes, ClaimedOnce, rows
<1>10. ASSUME NEW g \in Games, PutPicture(g) \/ DeletePicture(g) PROVE TypeInv' /\ ClaimedOnce'
  <2>1. ArtTypes'
    BY <1>1, <1>10 DEF PutPicture, DeletePicture, ArtTypes
  <2>2. UNCHANGED rows
    BY <1>10 DEF PutPicture, DeletePicture
  <2> QED
    BY <1>1, <2>1, <2>2 DEF TypeInv, QueueTypes, ClaimedOnce, rows
<1>11. CASE UNCHANGED vars
  BY <1>1, <1>11 DEF TypeInv, QueueTypes, ArtTypes, ClaimedOnce, vars, rows, files
<1> QED
  BY <1>4, <1>6, <1>7, <1>8, <1>9, <1>10, <1>11, WorkTypeInv, MishapTypeInv DEF Next

(* The rows of jobs, what the processes hold and the records of pictures   *)
(* keep their shape; a worker's row and its game exist.                    *)
THEOREM TypeCorrect == Spec => []TypeInv
<1>1. TypeInv /\ ClaimedOnce /\ [Next]_vars => (TypeInv /\ ClaimedOnce)'
  BY NextTypeInv
<1> QED
  BY <1>1, InitTypeInv, PTL DEF Spec

(* ClaimNextQueuedJob is one transaction: a claimed job is running, and no *)
(* other worker runs it, in whatever order the two processes claim, end,   *)
(* die and come back.                                                      *)
THEOREM ClaimCorrect == Spec => []ClaimedOnce
<1>1. TypeInv /\ ClaimedOnce /\ [Next]_vars => (TypeInv /\ ClaimedOnce)'
  BY NextTypeInv
<1> QED
  BY <1>1, InitTypeInv, PTL DEF Spec

-----------------------------------------------------------------------------
(* The pictures.                                                           *)

LEMMA InitArtInv == Init => ArtInv
<1> SUFFICES ASSUME Init PROVE ArtInv
  OBVIOUS
<1>1. ShownArtExists
  BY LibraryJobsAssumption DEF Init, ShownArtExists
<1>2. BoxInv
  BY IdleLemma DEF Init, BoxInv, Workers
<1> QED
  BY <1>1, <1>2 DEF ArtInv

(* No picture goes and no record of one comes, and no scrape gets to the   *)
(* point of recording one.                                                 *)
LEMMA SameArt ==
  ASSUME TypeInv, ArtInv,
         \A g \in Games : \/ picture'[g] = picture[g] \/ picture'[g] # None
                          \/ g \in spoilt',
         spoilt \subseteq spoilt',
         \A g \in Games : box'[g] = box[g] \/ box'[g] # "art",
         \A w \in Workers : worker'[w].at = "box" => worker'[w].game = worker[w].game /\
                                                     worker[w].at = "box"
  PROVE  ArtInv'
<1>1. ShownArtExists'
  BY DEF ArtInv, ShownArtExists
<1>2. \A w \in Workers : worker[w].at = "box" => worker[w].game \in Games
  BY DEF TypeInv, QueueTypes
<1>3. BoxInv'
  BY <1>2 DEF ArtInv, BoxInv
<1> QED
  BY <1>1, <1>3 DEF ArtInv

LEMMA WorkArtInv == ASSUME TypeInv, ArtInv, NEW w \in Workers, Work(w) PROVE ArtInv'
<1>1. /\ worker \in [Workers -> Doings] /\ worker[w] \in Doings
      /\ \A v \in Workers : worker[v].at \in {"install", "box", "meta"} => worker[v].game \in Games
  BY DEF TypeInv, QueueTypes
<1>2. ASSUME NEW r, Becomes(w, r), r.at # "box", UNCHANGED <<picture, box, spoilt>> PROVE ArtInv'
  BY <1>1, <1>2, SameArt DEF Becomes
<1>3. ASSUME NEW status \in {"ok", "error"}, Ends(w, status), UNCHANGED <<picture, box, spoilt>>
      PROVE  ArtInv'
  BY <1>2, <1>3, IdleLemma DEF Ends
<1>4. ASSUME NEW games, Listed(w, games), UNCHANGED <<picture, box, spoilt>> PROVE ArtInv'
  <2>1. [worker[w] EXCEPT !.at = "next", !.todo = games].at = "next"
    BY <1>1 DEF Doings
  <2> QED
    BY <1>2, <1>4, <2>1 DEF Listed
<1>5. ASSUME NEW g \in Games, Took(w, g) PROVE \A v \in Workers :
        worker'[v].at = worker[v].at /\ worker'[v].game = worker[v].game
  <2> DEFINE r == [worker[w] EXCEPT !.todo = @ \ {g}]
  <2>1. r.at = worker[w].at /\ r.game = worker[w].game
    BY <1>1 DEF Doings
  <2>2. worker' = [worker EXCEPT ![w] = r]
    BY <1>5 DEF Took, Becomes
  <2> HIDE DEF r
  <2> QED
    BY <1>1, <2>1, <2>2
<1>6. [worker[w] EXCEPT !.at = "next", !.game = None].at = "next"
  BY <1>1 DEF Doings
<1>7. CASE \E status \in {"ok", "error"} : RunScanJob(w, status)
  BY <1>3, <1>7 DEF RunScanJob, files
<1>8. CASE ListGames(w) \/ ScrapeBegin(w)
  BY <1>4, <1>8 DEF ListGames, ScrapeBegin, files
<1>9. CASE NothingLeft(w)
  BY <1>3, <1>9 DEF NothingLeft, files
<1>10. ASSUME NEW g \in Games, RunIdentifyJob(w, g) \/ ScrapeMisses(w, g) PROVE ArtInv'
  <2>1. Took(w, g) /\ UNCHANGED <<picture, box, spoilt>>
    BY <1>10 DEF RunIdentifyJob, ScrapeMisses, files
  <2> QED
    BY <1>5, <2>1, SameArt
<1>11. ASSUME NEW g \in Games, RunArtworkIndexJob(w, g) PROVE ArtInv'
  <2>1. Took(w, g) /\ UNCHANGED <<picture, spoilt>> /\ box' = [box EXCEPT ![g] = ArtworkPathFor(g)]
    BY <1>11 DEF RunArtworkIndexJob, UpsertGameBoxArt, files
  <2>2. ArtworkPathFor(g) = "art" => picture[g] # None \/ box[g] = "art"
    BY DEF ArtworkPathFor
  <2>3. BoxInv'
    BY <1>5, <2>1 DEF ArtInv, BoxInv
  <2>4. ShownArtExists'
    BY <2>1, <2>2 DEF ArtInv, ShownArtExists, TypeInv, ArtTypes
  <2> QED
    BY <2>3, <2>4 DEF ArtInv
<1>12. ASSUME NEW g \in Games, Download(w, g) PROVE ArtInv'
  <2>1. [worker[w] EXCEPT !.todo = @ \ {g}, !.at = "install", !.game = g].at = "install"
    BY <1>1 DEF Doings
  <2> QED
    BY <1>2, <1>12, <2>1 DEF Download
<1>13. CASE Install(w)
  <2> DEFINE game == worker[w].game
  <2>1. /\ worker[w].at = "install" /\ game \in Games
        /\ picture' = [picture EXCEPT ![game] = "match"]
        /\ worker' = [worker EXCEPT ![w] = [worker[w] EXCEPT !.at = "box"]]
        /\ UNCHANGED <<box, spoilt>>
    BY <1>1, <1>13 DEF Install, Becomes, Does
  <2>2. \A g \in Games : picture[g] # None => picture'[g] # None
    BY <2>1, LibraryJobsAssumption DEF TypeInv, ArtTypes
  <2>3. picture'[game] # None
    BY <2>1, LibraryJobsAssumption DEF TypeInv, ArtTypes
  <2>4. \A v \in Workers : worker'[v].game = worker[v].game /\ (v # w => worker'[v] = worker[v])
    BY <1>1, <2>1 DEF Doings
  <2>5. BoxInv'
    BY <1>1, <2>1, <2>2, <2>3, <2>4 DEF ArtInv, BoxInv
  <2>6. ShownArtExists'
    BY <2>1, <2>2 DEF ArtInv, ShownArtExists
  <2> QED
    BY <2>5, <2>6 DEF ArtInv
<1>14. CASE InstallFails(w)
  <2> DEFINE r == [worker[w] EXCEPT !.at = "next", !.game = None]
  <2>1. /\ picture' = [picture EXCEPT ![worker[w].game] = None]
        /\ spoilt' = spoilt \cup {worker[w].game}
        /\ worker' = [worker EXCEPT ![w] = r]
        /\ UNCHANGED box
    BY <1>14 DEF InstallFails, NextGame, Becomes
  <2>2. r.at = "next"
    BY <1>6
  <2> HIDE DEF r
  <2>3. \A g \in Games : picture'[g] = picture[g] \/ g \in spoilt'
    BY <2>1 DEF TypeInv, ArtTypes
  <2>4. \A v \in Workers : worker'[v].at = "box" => worker'[v] = worker[v]
    BY <1>1, <2>1, <2>2
  <2> QED
    BY <2>1, <2>3, <2>4, SameArt
<1>15. CASE RecordArt(w)
  <2> DEFINE game == worker[w].game
  <2>1. /\ worker[w].at = "box" /\ game \in Games
        /\ box' = [box EXCEPT ![game] = "art"]
        /\ worker' = [worker EXCEPT ![w] = [worker[w] EXCEPT !.at = "meta"]]
        /\ UNCHANGED <<picture, spoilt>>
    BY <1>1, <1>15 DEF RecordArt, UpsertGameBoxArt, Becomes, Does, files
  <2>2. game \in spoilt \/ picture[game] # None
    BY <2>1 DEF ArtInv, BoxInv
  <2>3. ShownArtExists'
    BY <2>1, <2>2 DEF ArtInv, ShownArtExists, TypeInv, ArtTypes
  <2>4. \A v \in Workers : worker'[v].at = "box" => worker'[v] = worker[v]
    BY <1>1, <2>1 DEF Doings
  <2>5. BoxInv'
    BY <2>1, <2>4 DEF ArtInv, BoxInv
  <2> QED
    BY <2>3, <2>5 DEF ArtInv
<1>16. CASE RecordMetadata(w)
  BY <1>2, <1>6, <1>16 DEF RecordMetadata, NextGame, files
<1> QED
  BY <1>7, <1>8, <1>9, <1>10, <1>11, <1>12, <1>13, <1>14, <1>15, <1>16 DEF Work

LEMMA NextArtInv == TypeInv /\ ArtInv /\ [Next]_vars => ArtInv'
<1> SUFFICES ASSUME TypeInv, ArtInv, [Next]_vars PROVE ArtInv'
  OBVIOUS
<1>1. worker \in [Workers -> Doings] /\ QueueTypes
  BY DEF TypeInv, QueueTypes
<1>2. ASSUME NEW w \in Workers, UNCHANGED <<picture, box, spoilt>>, worker'[w].at # "box",
             \A v \in Workers \ {w} : worker'[v] = worker[v]
      PROVE  ArtInv'
  BY <1>2, SameArt
<1>3. ASSUME NEW w \in Workers, ClaimNextQueuedJob(w) PROVE ArtInv'
  BY <1>1, <1>2, <1>3, ClaimTyped DEF ClaimNextQueuedJob, files
<1>4. ASSUME NEW w \in Workers, Mishap(w) PROVE ArtInv'
  BY <1>2, <1>4, MishapTypeInv
<1>5. ASSUME NEW r, Becomes("shell", r), r.at # "box", UNCHANGED <<picture, box, spoilt>>
      PROVE  ArtInv'
  BY <1>1, <1>2, <1>5 DEF Becomes, Workers
<1>6. ASSUME NEW type \in Types, RunTool(type) \/ EnqueueRequestedJobs(type) PROVE ArtInv'
  <2>1. UNCHANGED worker \/ Becomes("shell", Ready("shell"))
    BY <1>6 DEF RunTool, EnqueueRequestedJobs, RunJobs
  <2>2. UNCHANGED <<picture, box, spoilt>>
    BY <1>6 DEF RunTool, EnqueueRequestedJobs, files
  <2>3. UNCHANGED worker => ArtInv'
    BY <2>2, SameArt
  <2> QED
    BY <1>5, <2>1, <2>2, <2>3, IdleLemma DEF Workers
<1>7. CASE RunQueue \/ QueueEnds \/ CancelScrape
  <2>1. \E r \in {Idle, Ready("shell")} : Becomes("shell", r)
    BY <1>7 DEF RunQueue, RunJobs, QueueEnds, CancelScrape
  <2>2. UNCHANGED <<picture, box, spoilt>>
    BY <1>7 DEF RunQueue, QueueEnds, CancelScrape, files
  <2> QED
    BY <1>5, <2>1, <2>2, IdleLemma DEF Workers
<1>8. CASE StartScrape
  <2>1. [Idle EXCEPT !.does = "scrape"].at = "list"
    BY DEF Idle
  <2> QED
    BY <1>5, <1>8, <2>1 DEF StartScrape, files
<1>9. CASE RefreshNestLibrary
  <2>1. \A g \in Games : box'[g] = box[g] \/ box'[g] # "art"
    BY <1>9 DEF RefreshNestLibrary
  <2>2. UNCHANGED <<worker, picture, spoilt>>
    BY <1>9 DEF RefreshNestLibrary, rows, files
  <2> QED
    BY <2>1, <2>2, SameArt
<1>10. ASSUME NEW g \in Games, PutPicture(g) \/ DeletePicture(g) PROVE ArtInv'
  <2>1. \A h \in Games : picture'[h] = picture[h] \/ picture'[h] # None \/ h \in spoilt'
    BY <1>10, LibraryJobsAssumption DEF PutPicture, DeletePicture, TypeInv, ArtTypes
  <2>2. UNCHANGED <<worker, box>> /\ spoilt \subseteq spoilt'
    BY <1>10 DEF PutPicture, DeletePicture, rows
  <2> QED
    BY <2>1, <2>2, SameArt
<1>11. CASE UNCHANGED vars
  BY <1>11, SameArt DEF vars, rows, files
<1> QED
  BY <1>3, <1>4, <1>6, <1>7, <1>8, <1>9, <1>10, <1>11, WorkArtInv DEF Next

(* The catalog names a picture of artwork_dir only while it exists, though *)
(* scrapes race, fail and are cut short between the file and its record:   *)
(* the picture is in place before the record names it, and is taken away   *)
(* by the player and by two scrapes of one game only.                      *)
THEOREM ShownArtCorrect == Spec => []ShownArtExists
<1>1. Init => TypeInv /\ ArtInv /\ ClaimedOnce
  BY InitTypeInv, InitArtInv
<1>2. TypeInv /\ ArtInv /\ ClaimedOnce /\ [Next]_vars => (TypeInv /\ ArtInv /\ ClaimedOnce)'
  BY NextTypeInv, NextArtInv
<1>3. ArtInv => ShownArtExists
  BY DEF ArtInv
<1> QED
  BY <1>1, <1>2, <1>3, PTL DEF Spec
=============================================================================
