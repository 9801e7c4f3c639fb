---------------------------- MODULE LibraryJobs ----------------------------
(***************************************************************************)
(* The job queue of the catalog and the pictures of its games.  gblibd and *)
(* the shell claim queued jobs from one table, each for itself; the shell  *)
(* also scrapes without a job.  A job lists the games first and works on   *)
(* them one by one, while the other process, the player and Nest change    *)
(* pictures and records.  Either process may die at any step.              *)
(***************************************************************************)
EXTENDS Naturals, Sequences, FiniteSets

CONSTANTS
  Games,      \* games that are present
  NestGames,  \* those that Nest installed, with an icon beside the record
  Types,      \* kinds of jobs enqueued in this instance
  None,
  MaxJobs,    \* bound on the rows of jobs
  MaxEvents   \* bound on what the player does, on deaths and on lost writes

ASSUME LibraryJobsAssumption ==
  /\ NestGames \subseteq Games
  /\ Types \subseteq {"scan", "identify", "build_thumb", "scrape"}
  /\ None \notin {"user", "match", "art", "icon"}
  /\ MaxJobs \in Nat /\ MaxEvents \in Nat

Workers == {"daemon", "shell"}

VARIABLES
  jobs,     \* the rows of jobs, by id
  worker,   \* [Workers -> what the process does]
  picture,  \* [Games -> the PNG in artwork_dir: None, "user" or "match"]
  download, \* the games whose PNG.download is there
  box,      \* [Games -> box_art_path: None, "art" or Nest's "icon"]
  meta,     \* [Games -> source of the metadata: None, "guess", "scraped", "nest"]
  spoilt,   \* history: games whose picture the player, or two scrapes, took away
  events    \* bound

rows  == <<jobs, worker>>
files == <<picture, download>>
vars  == <<rows, files, box, meta, spoilt, events>>

(* does: "idle", "queue" (between two jobs, shell only), or the kind of    *)
(* the work; at: the step of it; todo: the games left; game: the one that  *)
(* is worked on; job: its row, 0 for the shell's own scrape.               *)
Idle == [does |-> "idle", at |-> "list", job |-> 0, todo |-> {}, game |-> None]
Ready(w) == IF w = "shell" THEN [Idle EXCEPT !.does = "queue"] ELSE Idle

Init ==
  /\ jobs = <<>> /\ worker = [w \in Workers |-> Idle]
  /\ picture \in [Games -> {None, "user"}] /\ download = {}
  /\ box = [g \in Games |-> None] /\ meta = [g \in Games |-> None]
  /\ spoilt = {} /\ events = 0

Happens == events < MaxEvents /\ events' = events + 1
Does(w, kind, at) == worker[w].does = kind /\ worker[w].at = at
Becomes(w, record) == worker' = [worker EXCEPT ![w] = record]

-----------------------------------------------------------------------------
(* The queue.                                                              *)

Queued == {j \in DOMAIN jobs : jobs[j].status = "queued"}

Enqueue(type) ==
  /\ Len(jobs) < MaxJobs
  /\ jobs' = Append(jobs, [type |-> type, status |-> "queued"])

RunJobs == Becomes("shell", Ready("shell"))

(* Tools: Rescan, Identify and Refresh Artwork put a job into the queue    *)
(* and run the queue until it is empty.                                    *)
RunTool(type) ==
  /\ worker["shell"] = Idle /\ type # "scrape"
  /\ Enqueue(type)
  /\ RunJobs
  /\ UNCHANGED <<files, box, meta, spoilt, events>>

(* Run Queued Jobs.                                                        *)
RunQueue ==
  /\ worker["shell"] = Idle /\ Queued # {}
  /\ RunJobs
  /\ UNCHANGED <<jobs, files, box, meta, spoilt, events>>

(* gblibd started by hand with --enqueue-...                               *)
EnqueueRequestedJobs(type) ==
  /\ Enqueue(type)
  /\ UNCHANGED <<worker, files, box, meta, spoilt, events>>

(* Mutant: the query lets running jobs through.                            *)
ClaimableAny == {j \in DOMAIN jobs : jobs[j].status \in {"queued", "running"}}

(* Mutant: a job waits for the ones before it to succeed.                  *)
ClaimableInOrder ==
  {j \in DOMAIN jobs : jobs[j].status = "queued" /\ \A k \in 1..(j - 1) : jobs[k].status = "ok"}

Claimable == Queued

(* BEGIN IMMEDIATE to COMMIT: the oldest queued job is this worker's.      *)
ClaimNextQueuedJob(w) ==
  /\ worker[w] = Ready(w)
  /\ \E j \in Claimable :
       /\ \A k \in Claimable : j <= k
       /\ jobs' = [jobs EXCEPT ![j].status = "running"]
       /\ Becomes(w, [Idle EXCEPT !.does = jobs[j].type, !.job = j])
  /\ UNCHANGED <<files, box, meta, spoilt, events>>

(* Nothing is queued, or the database is busy: the shell's loop ends.      *)
QueueEnds ==
  /\ worker["shell"] = Ready("shell")
  /\ Becomes("shell", Idle)
  /\ UNCHANGED <<jobs, files, box, meta, spoilt, events>>

(* MarkJobOk, MarkJobError; the shell's own scrape has no row.             *)
Ends(w, status) ==
  /\ Becomes(w, IF worker[w].job = 0 THEN Idle ELSE Ready(w))
  /\ jobs' = IF worker[w].job = 0 THEN jobs
             ELSE [jobs EXCEPT ![worker[w].job].status = status]

(* The row could not be written, which nobody looks at.                    *)
MarkLost(w) ==
  /\ worker[w].job # 0 /\ worker[w].todo = {} /\ worker[w].at = "next" /\ Happens
  /\ Becomes(w, Ready(w))
  /\ UNCHANGED <<jobs, files, box, meta, spoilt>>

Dies(w) ==
  /\ worker[w] # Idle /\ Happens
  /\ Becomes(w, Idle)
  /\ UNCHANGED <<jobs, files, box, meta, spoilt>>

RunScanJob(w, status) ==
  /\ Does(w, "scan", "list")
  /\ Ends(w, status)
  /\ UNCHANGED <<files, box, meta, spoilt, events>>

-----------------------------------------------------------------------------
(* The work on the games.                                                  *)

UpsertGameMetadata(g, source) == meta' = [meta EXCEPT ![g] = source]
UpsertGameBoxArt(g, art) == box' = [box EXCEPT ![g] = art]

Listed(w, games) == Becomes(w, [worker[w] EXCEPT !.at = "next", !.todo = games])
NextGame(w) == Becomes(w, [worker[w] EXCEPT !.at = "next", !.game = None])

(* ListGamesNeedingMetadata, ListPresentAssetCandidates.                   *)
ListGames(w) ==
  /\ \/ Does(w, "identify", "list") /\ Listed(w, {g \in Games : meta[g] = None})
     \/ Does(w, "build_thumb", "list") /\ Listed(w, Games)
  /\ UNCHANGED <<jobs, files, box, meta, spoilt, events>>

(* A job that cannot list its games, or whose provider is switched off.    *)
ListFails(w) ==
  /\ \E kind \in {"identify", "build_thumb", "scrape"} : Does(w, kind, "list")
  /\ Ends(w, "error")
  /\ UNCHANGED <<files, box, meta, spoilt, events>>

NothingLeft(w) ==
  /\ worker[w].at = "next" /\ worker[w].todo = {}
  /\ Ends(w, "ok")
  /\ UNCHANGED <<files, box, meta, spoilt, events>>

Took(w, g) ==
  /\ g \in worker[w].todo
  /\ Becomes(w, [worker[w] EXCEPT !.todo = @ \ {g}])

RunIdentifyJob(w, g) ==
  /\ Does(w, "identify", "next") /\ Took(w, g)
  /\ UpsertGameMetadata(g, "guess")
  /\ UNCHANGED <<jobs, files, box, spoilt, events>>

(* The PNG in artwork_dir comes before the one beside the ROM; a game      *)
(* without either keeps its record.                                        *)
ArtworkPathFor(g) ==
  IF picture[g] # None THEN "art" ELSE IF g \in NestGames THEN "icon" ELSE box[g]

RunArtworkIndexJob(w, g) ==
  /\ Does(w, "build_thumb", "next") /\ Took(w, g)
  /\ UpsertGameBoxArt(g, ArtworkPathFor(g))
  /\ UNCHANGED <<jobs, files, meta, spoilt, events>>

(* The picture that is recorded is a file.                                 *)
HasArt(g) == box[g] = "icon" \/ (box[g] = "art" /\ picture[g] # None)

(* ScrapeSession::Begin; the shell's own session begins the same way.      *)
ScrapeBegin(w) ==
  /\ Does(w, "scrape", "list")
  /\ Listed(w, {g \in Games : ~HasArt(g)})
  /\ UNCHANGED <<jobs, files, box, meta, spoilt, events>>

StartScrape ==
  /\ worker["shell"] = Idle
  /\ Becomes("shell", [Idle EXCEPT !.does = "scrape"])
  /\ UNCHANGED <<jobs, files, box, meta, spoilt, events>>

(* B on the progress screen, between two games.                            *)
CancelScrape ==
  /\ Does("shell", "scrape", "next") /\ worker["shell"].job = 0
  /\ Becomes("shell", Idle)
  /\ UNCHANGED <<jobs, files, box, meta, spoilt, events>>

(* A game without a match, or whose picture does not arrive: then the file *)
(* is removed that the other scrape may be about to rename.                *)
ScrapeMisses(w, g) ==
  /\ Does(w, "scrape", "next") /\ Took(w, g)
  /\ download' \in {download, download \ {g}}
  /\ UNCHANGED <<jobs, picture, box, meta, spoilt, events>>

(* Mutant: the old picture makes room before the new one is there.         *)
DownloadInPlace(w, g) ==
  /\ Does(w, "scrape", "next") /\ g \in worker[w].todo
  /\ Becomes(w, [worker[w] EXCEPT !.todo = @ \ {g}, !.at = "install", !.game = g])
  /\ download' = download \cup {g} /\ picture' = [picture EXCEPT ![g] = None]
  /\ UNCHANGED <<jobs, box, meta, spoilt, events>>

(* curl, and the test for a PNG: both scrapes of a game write one file.    *)
Download(w, g) ==
  /\ Does(w, "scrape", "next") /\ g \in worker[w].todo
  /\ Becomes(w, [worker[w] EXCEPT !.todo = @ \ {g}, !.at = "install", !.game = g])
  /\ download' = download \cup {g}
  /\ UNCHANGED <<jobs, picture, box, meta, spoilt, events>>

Install(w) ==
  /\ Does(w, "scrape", "install") /\ worker[w].game \in download
  /\ picture' = [picture EXCEPT ![worker[w].game] = "match"]
  /\ download' = download \ {worker[w].game}
  /\ Becomes(w, [worker[w] EXCEPT !.at = "box"])
  /\ UNCHANGED <<jobs, box, meta, spoilt, events>>

(* The other scrape has renamed or removed the file meanwhile: the picture *)
(* is removed for a second try, which fails as well.                       *)
InstallFails(w) ==
  /\ Does(w, "scrape", "install") /\ worker[w].game \notin download
  /\ picture' = [picture EXCEPT ![worker[w].game] = None]
  /\ spoilt' = spoilt \cup {worker[w].game}
  /\ NextGame(w)
  /\ UNCHANGED <<jobs, download, box, meta, events>>

RecordArt(w) ==
  /\ Does(w, "scrape", "box")
  /\ UpsertGameBoxArt(worker[w].game, "art")
  /\ Becomes(w, [worker[w] EXCEPT !.at = "meta"])
  /\ UNCHANGED <<jobs, files, meta, spoilt, events>>

RecordMetadata(w) ==
  /\ Does(w, "scrape", "meta")
  /\ UpsertGameMetadata(worker[w].game, "scraped")
  /\ NextGame(w)
  /\ UNCHANGED <<jobs, files, box, spoilt, events>>

(* The record cannot be written: a scrape and an index end there, an       *)
(* identification goes on with the next game.                              *)
RecordFails(w) ==
  /\ Happens
  /\ \/ /\ \/ worker[w].does = "scrape" /\ worker[w].at \in {"box", "meta"}
           \/ Does(w, "build_thumb", "next") /\ worker[w].todo # {}
        /\ Ends(w, "error")
     \/ Does(w, "identify", "next") /\ (\E g \in Games : Took(w, g)) /\ UNCHANGED jobs
  /\ UNCHANGED <<files, box, meta, spoilt>>

-----------------------------------------------------------------------------
(* The player and Nest.                                                    *)

(* A picture copied into, or deleted from, artwork_dir.                    *)
PutPicture(g) ==
  /\ Happens
  /\ picture' = [picture EXCEPT ![g] = "user"]
  /\ UNCHANGED <<rows, download, box, meta, spoilt>>

DeletePicture(g) ==
  /\ picture[g] # None /\ Happens
  /\ picture' = [picture EXCEPT ![g] = None] /\ spoilt' = spoilt \cup {g}
  /\ UNCHANGED <<rows, download, box, meta>>

(* The main loop polls Nest, also between two games of its own scrape.     *)
RefreshNestLibrary ==
  /\ worker["shell"].job = 0 /\ worker["shell"].at \in {"list", "next"}
  /\ worker["shell"].does \in {"idle", "scrape"}
  /\ box' = [g \in Games |-> IF g \in NestGames THEN "icon" ELSE box[g]]
  /\ meta' = [g \in Games |-> IF g \in NestGames THEN "nest" ELSE meta[g]]
  /\ UNCHANGED <<rows, files, spoilt, events>>

-----------------------------------------------------------------------------
Work(w) ==
  \/ \E status \in {"ok", "error"} : RunScanJob(w, status)
  \/ ListGames(w) \/ ScrapeBegin(w) \/ NothingLeft(w)
  \/ (\E g \in Games : \/ RunIdentifyJob(w, g) \/ RunArtworkIndexJob(w, g)
                       \/ ScrapeMisses(w, g) \/ Download(w, g))
  \/ Install(w) \/ InstallFails(w) \/ RecordArt(w) \/ RecordMetadata(w)

Mishap(w) == ListFails(w) \/ RecordFails(w) \/ MarkLost(w) \/ Dies(w)

Next ==
  \/ \E w \in Workers : ClaimNextQueuedJob(w) \/ Work(w) \/ Mishap(w)
  \/ \E type \in Types : RunTool(type) \/ EnqueueRequestedJobs(type)
  \/ RunQueue \/ QueueEnds \/ StartScrape \/ CancelScrape
  \/ \E g \in Games : PutPicture(g) \/ DeletePicture(g)
  \/ RefreshNestLibrary

Spec == Init /\ [][Next]_vars

(* gblibd runs and is restarted when it dies; curl has a time limit.       *)
Fairness ==
  /\ SF_vars(ClaimNextQueuedJob("daemon"))
  /\ \A w \in Workers : WF_vars(Work(w))

FairSpec == Spec /\ Fairness

-----------------------------------------------------------------------------
(* A claimed job is running and belongs to one worker: ClaimNextQueuedJob   *)
(* is one transaction, so that no job is run by both, nor one that has     *)
(* ended again.                                                            *)
ClaimedOnce ==
  \A w \in Workers : worker[w].job # 0 =>
    /\ jobs[worker[w].job].status = "running"
    /\ \A v \in Workers \ {w} : worker[v].job # worker[w].job

(* A picture that is shown is there: the catalog names a PNG of            *)
(* artwork_dir only while it exists, whatever downloads fail or are        *)
(* abandoned by a crash.  The exceptions are a picture the player deleted, *)
(* and one that two scrapes of the same game fetched at the same time.     *)
ShownArtExists == \A g \in Games \ spoilt : box[g] = "art" => picture[g] # None

(* A job that is queued ends, or is left behind, running, by a worker that *)
(* died or could not write the end of it.                                  *)
Left(j) == jobs[j].status = "running" /\ \A w \in Workers : worker[w].job # j
JobsEnd ==
  \A j \in 1..MaxJobs :
    j \in Queued ~> j \in DOMAIN jobs /\ (jobs[j].status \in {"ok", "error"} \/ Left(j))
=============================================================================
