------------------------------ MODULE Library ------------------------------
(***************************************************************************)
(* The catalog and the storage it describes.  One library root is a mount  *)
(* point: the directory on the card, which stays empty, a drive, or        *)
(* nothing.  RunIncrementalScan is run by gblibd and by the shell, which   *)
(* share the database and no lock: a scan reads its root's state and the   *)
(* files step by step, while drives and files come and go, and commits     *)
(* what it found in one transaction.  gblibd scans when it starts and      *)
(* whenever the listing of the root differs from the one it keeps.         *)
(***************************************************************************)
EXTENDS Naturals, FiniteSets

CONSTANTS
  Games,       \* ROM files; a game is known by its path
  Card, Drive, \* st_dev of the mount point itself and of the drive
  None,
  MaxEvents    \* bound: files copied or deleted, drives plugged or unplugged,
               \* scans asked for, and crashes of the daemon

ASSUME LibraryAssumption ==
  /\ Card # Drive /\ None \notin {Card, Drive} \cup BOOLEAN
  /\ MaxEvents \in Nat

Devices == {Card, Drive}
Scanners == {"daemon", "shell"}

(* library_roots: device 0 is None; "empty" marks the error text           *)
(* "unexpectedly empty; preserving catalog".                               *)
Row(status, device, empty) == [status |-> status, device |-> device, empty |-> empty]
VARIABLES
  mounted,   \* the device at the root, None when the root does not exist
  roms,      \* the ROM files on the drive, wherever it is
  row,       \* the library_roots row of the root
  catalog,   \* [Games -> None, or is_present of the games row]
  scan,      \* [Scanners -> the scan under way]
  daemon,    \* what gblibd does, or what its scan is for
  snapshot,  \* library_snapshot
  current,   \* current_snapshot
  mislabelled, \* history: how the row came to hold the mount point's own device
  missed,    \* history: a change that nothing may ever notice
  writes,    \* the times of the drive's directories
  events     \* bound

watch  == <<daemon, snapshot, current>>
vars   == <<mounted, roms, row, catalog, scan, watch, mislabelled, missed, writes, events>>

Files(device) == IF device = Drive THEN roms ELSE {}

(* A scan: its step, what it read of the database, the device it was told, *)
(* the device it opened, entries not yet read, and what it found.  Then    *)
(* history: games at the root all the time, at some time, and whether the  *)
(* other scanner has committed since this one began.                       *)
NoScan == [step |-> "off", prev |-> None, existing |-> FALSE, device |-> None,
           opened |-> None, todo |-> {}, seen |-> {}, broken |-> FALSE,
           steady |-> {}, ever |-> {}, overtaken |-> FALSE]

Init ==
  /\ mounted \in Devices /\ roms \in SUBSET Games
  /\ row = None /\ catalog = [g \in Games |-> None]
  /\ scan = [s \in Scanners |-> NoScan]
  /\ daemon = "off" /\ snapshot = None /\ current = None
  /\ mislabelled = FALSE /\ missed = FALSE
  /\ writes = 0 /\ events = 0

-----------------------------------------------------------------------------
(* LibrarySnapshot: paths, sizes and times of what is at the root.  The    *)
(* time of a directory tells every copy and deletion in it; the device     *)
(* does not appear.                                                        *)
Listing ==
  IF mounted = None THEN None
  ELSE <<Files(mounted), IF mounted = Drive THEN writes ELSE 0>>

Happens == events < MaxEvents /\ events' = events + 1

BeginScan(s) ==
  /\ scan[s] = NoScan
  /\ scan' = [scan EXCEPT ![s] =
       [NoScan EXCEPT !.step = "count", !.prev = row,
                      !.steady = Files(mounted), !.ever = Files(mounted)]]

Step(s, step) == scan[s].step = step
Continue(s, next) == scan' = [scan EXCEPT ![s] = next]

(* CountGamesUnderRoot, after GetLibraryRootState.                         *)
CountGames(s) ==
  /\ Step(s, "count")
  /\ Continue(s, [scan[s] EXCEPT !.step = "stat",
                    !.existing = \E g \in Games : catalog[g] # None])
  /\ UNCHANGED <<mounted, roms, row, catalog, watch, mislabelled, missed, writes, events>>

(* The root is a directory and has a device, or it is unavailable.         *)
StatRoot(s) ==
  /\ Step(s, "stat")
  /\ Continue(s, [scan[s] EXCEPT !.step = IF mounted = None THEN "commit" ELSE "open",
                                 !.device = mounted])
  /\ UNCHANGED <<mounted, roms, row, catalog, watch, mislabelled, missed, writes, events>>

(* recursive_directory_iterator: what is mounted may have changed since.   *)
OpenRoot(s) ==
  /\ Step(s, "open") /\ mounted # None
  /\ Continue(s, [scan[s] EXCEPT !.step = "read", !.opened = mounted,
                                 !.todo = Files(mounted)])
  /\ UNCHANGED <<mounted, roms, row, catalog, watch, mislabelled, missed, writes, events>>

(* An entry that is there: one that was at the opening is met, unless it   *)
(* is deleted first, one that came later may be.  On a drive that is gone, *)
(* or covered by another, reading can only fail or end.                    *)
ReadEntry(s, g) ==
  /\ Step(s, "read") /\ mounted = scan[s].opened
  /\ g \in Files(mounted) \ scan[s].seen
  /\ Continue(s, [scan[s] EXCEPT !.todo = @ \ {g}, !.seen = @ \cup {g}])
  /\ UNCHANGED <<mounted, roms, row, catalog, watch, mislabelled, missed, writes, events>>

(* Mutant: the end of what could be read is taken for the end.             *)
TraversalEnds(s) ==
  /\ scan[s].step \in {"open", "read"}
  /\ Continue(s, [scan[s] EXCEPT !.step = "commit", !.todo = {}])
  /\ UNCHANGED <<mounted, roms, row, catalog, watch, mislabelled, missed, writes, events>>

(* "could not open root", "could not inspect", "failed to read size",      *)
(* "directory traversal failed".                                           *)
TraversalFails(s) ==
  /\ scan[s].step \in {"open", "read"}
  /\ Continue(s, [scan[s] EXCEPT !.step = "commit", !.todo = {}, !.broken = TRUE])
  /\ UNCHANGED <<mounted, roms, row, catalog, watch, mislabelled, missed, writes, events>>

EndOfRoot(s) ==
  /\ Step(s, "read") /\ scan[s].todo = {}
  /\ Continue(s, [scan[s] EXCEPT !.step = "commit"])
  /\ UNCHANGED <<mounted, roms, row, catalog, watch, mislabelled, missed, writes, events>>

Baseline(sc) == IF sc.prev = None THEN None ELSE sc.prev.device

(* The state the scan gives the root.                                      *)
Outcome(sc) ==
  LET base == Baseline(sc)
  IN IF sc.device = None THEN Row("unavailable", base, FALSE)
     ELSE IF sc.broken THEN Row("error", sc.device, FALSE)
     ELSE IF sc.seen = {} /\ base \notin {None, sc.device}
       THEN Row("unavailable", base, FALSE)
     ELSE IF sc.seen = {} /\ sc.existing /\ base = None
       THEN Row("unavailable", None, TRUE)
     ELSE Row("ok", sc.device, FALSE)

(* Mutant: nothing is marked missing.                                      *)
MarkGamesMissingNot(sc) == catalog

MarkGamesMissing(sc) ==
  IF Outcome(sc).status # "ok" THEN catalog
  ELSE [g \in Games |-> IF catalog[g] = None THEN None ELSE FALSE]

(* What was found is present, also when the scan broke off after it.       *)
UpsertGames(sc, marked) == [g \in Games |-> IF g \in sc.seen THEN TRUE ELSE marked[g]]

-----------------------------------------------------------------------------
(* gblibd: what its scan was for decides what comes next.                  *)

(* Mutant: the new listing is kept whether or not the scan went well.      *)
AfterScanAnyway(ok) ==
  /\ daemon' = IF daemon = "first" THEN "snap" ELSE "watch"
  /\ snapshot' = IF daemon = "rescan" THEN current ELSE snapshot
  /\ current' = None

AfterScan(ok) ==
  /\ daemon' = IF daemon = "first" THEN "snap" ELSE "watch"
  /\ snapshot' = IF daemon = "rescan" /\ ok THEN current ELSE snapshot
  /\ current' = None

Ended(s, ok) == IF s = "daemon" THEN AfterScan(ok) ELSE UNCHANGED watch

(* The row holds the mount point's own device though games of the drive    *)
(* are listed: the drive came between the stat and the opening of a scan,  *)
(* the bare mount point could not be read, the scan had been overtaken, or *)
(* it left such a row as it was.                                           *)
Mislabels(sc) ==
  /\ row'.device = Card
  /\ mislabelled \/ sc.opened # sc.device \/ sc.broken \/ sc.overtaken

(* One transaction from BEGIN IMMEDIATE to COMMIT.  A daemon that could    *)
(* not read the whole root keeps the listing all the same; the other scan, *)
(* if there is one, goes on with what it read before.                      *)
Commit(s) ==
  /\ Step(s, "commit")
  /\ row' = Outcome(scan[s])
  /\ catalog' = UpsertGames(scan[s], MarkGamesMissing(scan[s]))
  /\ scan' = [other \in Scanners |->
       IF other = s \/ scan[other] = NoScan THEN NoScan
       ELSE [scan[other] EXCEPT !.overtaken = TRUE]]
  /\ Ended(s, TRUE)
  /\ mislabelled' = Mislabels(scan[s])
  /\ missed' = \/ missed
               \/ s = "daemon" /\ row'.status = "error"
               \/ \E other \in Scanners \ {s} : scan[other] # NoScan
  /\ UNCHANGED <<mounted, roms, writes, events>>

(* The database is busy for three seconds, or full, when the systems or    *)
(* when the result is written: the scan is without effect.                 *)
ScanFails(s) ==
  /\ scan[s].step \in {"count", "commit"}
  /\ Continue(s, NoScan) /\ Ended(s, FALSE)
  /\ missed' = (missed \/ (s = "daemon" /\ daemon = "first"))
  /\ UNCHANGED <<mounted, roms, row, catalog, mislabelled, writes, events>>

(* Rescan Library, and the refresh after Nest installs or removes a game.  *)
ShellScans ==
  /\ Happens
  /\ BeginScan("shell")
  /\ UNCHANGED <<mounted, roms, row, catalog, watch, mislabelled, missed, writes>>

DaemonStarts ==
  /\ daemon = "off"
  /\ BeginScan("daemon") /\ daemon' = "first"
  /\ UNCHANGED <<mounted, roms, row, catalog, snapshot, current, mislabelled, missed, writes, events>>

TakeSnapshot ==
  /\ daemon = "snap"
  /\ snapshot' = Listing /\ daemon' = "watch"
  /\ UNCHANGED <<mounted, roms, row, catalog, scan, current, mislabelled, missed, writes, events>>

NoticeChange ==
  /\ daemon = "watch" /\ Listing # snapshot
  /\ current' = Listing
  /\ BeginScan("daemon") /\ daemon' = "rescan"
  /\ UNCHANGED <<mounted, roms, row, catalog, snapshot, mislabelled, missed, writes, events>>

(* A scan job of the queue.                                                *)
RunScanJob ==
  /\ daemon = "watch" /\ Happens
  /\ BeginScan("daemon") /\ daemon' = "job"
  /\ UNCHANGED <<mounted, roms, row, catalog, snapshot, current, mislabelled, missed, writes>>

(* Restart=on-failure brings it back.                                      *)
DaemonStops ==
  /\ daemon # "off" /\ Happens
  /\ daemon' = "off" /\ snapshot' = None /\ current' = None
  /\ Continue("daemon", NoScan)
  /\ UNCHANGED <<mounted, roms, row, catalog, mislabelled, missed, writes>>

-----------------------------------------------------------------------------
(* The storage.                                                            *)

Track ==
  LET here == IF mounted' = Drive THEN roms' ELSE {}
  IN scan' = [s \in Scanners |->
       IF scan[s] = NoScan THEN NoScan
       ELSE [scan[s] EXCEPT !.todo = @ \cap roms',
                            !.steady = @ \cap here, !.ever = @ \cup here]]

(* A drive is plugged or unplugged, or the directory is taken away.  A     *)
(* scan that is under way may have seen both states.                       *)
MoveDrive(device) ==
  /\ device # mounted /\ Happens
  /\ mounted' = device
  /\ UNCHANGED roms
  /\ Track
  /\ missed' = (missed \/ daemon = "snap" \/ \E s \in Scanners : scan[s] # NoScan)
  /\ UNCHANGED <<row, catalog, watch, mislabelled, writes>>

(* A game is copied to the drive or deleted from it, here or elsewhere.  A *)
(* daemon that has its snapshot will see it.                               *)
WriteDrive(g) ==
  /\ Happens /\ writes' = writes + 1
  /\ roms' = IF g \in roms THEN roms \ {g} ELSE roms \cup {g}
  /\ UNCHANGED mounted
  /\ Track
  /\ missed' = (missed \/ daemon \in {"first", "snap"})
  /\ UNCHANGED <<row, catalog, watch, mislabelled>>

-----------------------------------------------------------------------------
ScanStep(s) ==
  \/ CountGames(s) \/ StatRoot(s) \/ OpenRoot(s) \/ TraversalFails(s)
  \/ (\E g \in Games : ReadEntry(s, g)) \/ EndOfRoot(s) \/ Commit(s)

DaemonStep == DaemonStarts \/ TakeSnapshot \/ NoticeChange

Storage == \/ \E device \in Devices \cup {None} : MoveDrive(device)
           \/ \E g \in Games : WriteDrive(g)

Next ==
  \/ \E s \in Scanners : ScanStep(s) \/ ScanFails(s)
  \/ DaemonStep \/ RunScanJob \/ ShellScans \/ DaemonStops
  \/ Storage

Spec == Init /\ [][Next]_vars

(* The daemon runs and is restarted; a scan goes on, and of scans tried    *)
(* over and over one finds the database free.                              *)
Fairness ==
  /\ WF_vars(DaemonStep)
  /\ \A s \in Scanners : /\ WF_vars(ScanStep(s))
                          /\ SF_vars(CountGames(s)) /\ SF_vars(Commit(s))

FairSpec == Spec /\ Fairness

-----------------------------------------------------------------------------
(* "Only a complete scan of a healthy root can mark ROMs from that root    *)
(* missing": a game that was at the root from the beginning of a scan to   *)
(* its end is never marked missing by it, whatever went wrong on the way   *)
(* and whatever the other scanner has committed meanwhile.                 *)
SteadyKept ==
  [][\A s \in Scanners, g \in Games :
       g \in scan[s].steady /\ Commit(s) /\ catalog[g] = TRUE => catalog'[g] = TRUE]_vars

(* "If a drive is unplugged, a mount is absent ... existing catalog        *)
(* entries remain available": a scan that does not get to open the drive   *)
(* marks no game missing.  There are three exceptions, against that text:  *)
(* the drive went between the stat of the root and its opening; the other  *)
(* scanner has committed since the scan began; and the row it compares     *)
(* with is mislabelled, by a drive that came between the stat and the      *)
(* opening of an earlier scan, by a bare mount point that could not be     *)
(* read, or by two scans at once.                                          *)
OfflineKept ==
  [][\A s \in Scanners, g \in Games :
       Commit(s) /\ scan[s].opened # Drive /\ catalog[g] = TRUE /\ catalog'[g] = FALSE
       => scan[s].device = Drive \/ scan[s].overtaken \/ mislabelled]_vars

(* Neither rule is ever broken.                                            *)
CatalogKept == SteadyKept /\ OfflineKept

(* "A ROM absent from a successfully scanned root is treated as deleted":  *)
(* when a scan gives the root the state ok, the games present are games    *)
(* that were there at some time during the scan.                           *)
DeletedForgotten ==
  [][\A s \in Scanners, g \in Games :
       Commit(s) /\ row'.status = "ok" /\ catalog'[g] = TRUE => g \in scan[s].ever]_vars

(* "a new, replaced, renamed, or removed ROM is reflected automatically":  *)
(* once the storage rests, the catalog agrees with the drive at the root,  *)
(* unless one of the changes was of the kinds that the code may miss.      *)
CatalogCurrent ==
  <>[](~missed /\ mounted = Drive => \A g \in Games : catalog[g] = TRUE <=> g \in roms)
=============================================================================
