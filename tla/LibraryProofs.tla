--------------------------- MODULE LibraryProofs ---------------------------
(***************************************************************************)
(* The scans of Library, proved for every set of games and every number of *)
(* copies, deletions, plugs, crashes and scans, with both scanners at work *)
(* on one database: what a scan may mark missing, and what it must not.    *)
(***************************************************************************)
EXTENDS Library, TLAPS

Places == Devices \cup {None}
Rows == [status : {"ok", "error", "unavailable"}, device : Places, empty : BOOLEAN]
Scans ==
  [step : {"off", "count", "stat", "open", "read", "commit"}, prev : Rows \cup {None},
   existing : BOOLEAN, device : Places, opened : Places, todo : SUBSET Games,
   seen : SUBSET Games, broken : BOOLEAN, steady : SUBSET Games, ever : SUBSET Games,
   overtaken : BOOLEAN]

TypeInv ==
  /\ mounted \in Places
  /\ roms \subseteq Games
  /\ row \in Rows \cup {None}
  /\ catalog \in [Games -> {None, TRUE, FALSE}]
  /\ scan \in [Scanners -> Scans]

(* What a scan that is under way, sc, knows of the root: the games that    *)
(* stayed there are still there, what it met was there, and what stayed is *)
(* met or yet to be met until the traversal ends; one that ends unbroken   *)
(* has met it.  A scan meets nothing but on the drive.                     *)
ScanInv(sc) ==
  /\ sc.steady \subseteq Files(mounted)
  /\ Files(mounted) \subseteq sc.ever
  /\ sc.seen \subseteq sc.ever
  /\ sc.step = "read" => sc.steady \subseteq sc.todo \cup sc.seen
  /\ sc.step = "commit" /\ ~sc.broken /\ sc.device # None => sc.steady \subseteq sc.seen
  /\ sc.step \in {"count", "stat", "open"} => sc.seen = {}
  /\ sc.seen # {} => sc.opened = Drive

ScansInv == \A s \in Scanners : scan[s].step # "off" => ScanInv(scan[s])

(* Whether a game was ever listed.                                         *)
Listed == \E g \in Games : catalog[g] # None

(* What a scan has read of the database is still so, unless the other      *)
(* scanner has committed.                                                  *)
ReadInv ==
  \A s \in Scanners :
    scan[s].step # "off" /\ ~scan[s].overtaken =>
      /\ scan[s].prev = row
      /\ scan[s].step # "count" => scan[s].existing = Listed

(* The root's row holds the device of the drive as long as one of the      *)
(* drive's games is listed as present, but for what mislabelled records.   *)
LabelInv ==
  row # None /\ row.device = Card /\ ~mislabelled => \A g \in Games : catalog[g] # TRUE

-----------------------------------------------------------------------------
(* What a scan gives the root.                                             *)

(* The root is ok when the scan has read a device to its end, and an empty *)
(* one is not unexpected.                                                  *)
LEMMA OutcomeLemma ==
  ASSUME NEW sc \in Scans
  PROVE  /\ Outcome(sc) \in Rows
         /\ Outcome(sc).status = "ok" <=>
              /\ sc.device # None /\ ~sc.broken
              /\ sc.seen # {} \/ Baseline(sc) \in {None, sc.device}
              /\ sc.seen # {} \/ ~sc.existing \/ Baseline(sc) # None
<1>1. Baseline(sc) \in Places
  BY LibraryAssumption DEF Baseline, Scans, Rows, Places
<1>2. sc.device \in Places /\ sc.broken \in BOOLEAN /\ sc.existing \in BOOLEAN
  BY DEF Scans
<1>3. CASE sc.device = None
  BY <1>1, <1>3 DEF Outcome, Row, Rows
<1>4. CASE sc.device # None /\ sc.broken
  BY <1>1, <1>2, <1>4 DEF Outcome, Row, Rows
<1>5. CASE sc.device # None /\ ~sc.broken
  BY <1>1, <1>2, <1>5, LibraryAssumption DEF Outcome, Row, Rows, Places
<1> QED
  BY <1>2, <1>3, <1>4, <1>5

(* The catalog after a commit: a game that was found is present; another   *)
(* is missing when the root is ok, and what it was when it is not.         *)
LEMMA UpsertLemma ==
  ASSUME catalog \in [Games -> {None, TRUE, FALSE}], NEW sc \in Scans, NEW g \in Games
  PROVE  LET after == UpsertGames(sc, MarkGamesMissing(sc))[g]
         IN /\ after \in {None, TRUE, FALSE}
            /\ g \in sc.seen => after = TRUE
            /\ g \notin sc.seen /\ Outcome(sc).status # "ok" => after = catalog[g]
            /\ g \notin sc.seen /\ Outcome(sc).status = "ok" => after \in {None, FALSE}
<1>1. MarkGamesMissing(sc)[g] =
        IF Outcome(sc).status # "ok" THEN catalog[g]
        ELSE IF catalog[g] = None THEN None ELSE FALSE
  BY DEF MarkGamesMissing
<1>2. UpsertGames(sc, MarkGamesMissing(sc))[g] =
        IF g \in sc.seen THEN TRUE ELSE MarkGamesMissing(sc)[g]
  BY DEF UpsertGames
<1> QED
  BY <1>1, <1>2

-----------------------------------------------------------------------------
(* Type correctness.                                                       *)

LEMMA NoScanTyped == NoScan \in Scans
BY DEF NoScan, Scans, Places

LEMMA FilesTyped == roms \subseteq Games => \A device \in Places : Files(device) \subseteq Games
BY DEF Files

LEMMA InitTypeInv == Init => TypeInv
BY NoScanTyped DEF Init, TypeInv, Places

(* The steps of a scan change its record, and at the end the root's row    *)
(* and the catalog.                                                        *)
LEMMA StepTypeInv ==
  ASSUME TypeInv, NEW s \in Scanners, ScanStep(s) \/ ScanFails(s)
  PROVE  TypeInv'
<1> DEFINE sc == scan[s]
<1>1. sc \in Scans
  BY DEF TypeInv
<1>2. Files(mounted) \subseteq Games /\ mounted \in Places
  BY FilesTyped DEF TypeInv
<1>3. ASSUME NEW next \in Scans, Continue(s, next), UNCHANGED <<mounted, roms, row, catalog>>
      PROVE  TypeInv'
  BY <1>3 DEF TypeInv, Continue
<1>4. CASE CountGames(s)
  <2>1. (\E g \in Games : catalog[g] # None) \in BOOLEAN
    OBVIOUS
  <2>2. [sc EXCEPT !.step = "stat", !.existing = \E g \in Games : catalog[g] # None] \in Scans
    BY <1>1, <2>1 DEF Scans
  <2> QED
    BY <1>3, <1>4, <2>2 DEF CountGames
<1>5. CASE StatRoot(s)
  <2>1. [sc EXCEPT !.step = IF mounted = None THEN "commit" ELSE "open", !.device = mounted] \in Scans
    BY <1>1, <1>2 DEF Scans
  <2> QED
    BY <1>3, <1>5, <2>1 DEF StatRoot
<1>6. CASE OpenRoot(s)
  <2>1. [sc EXCEPT !.step = "read", !.opened = mounted, !.todo = Files(mounted)] \in Scans
    BY <1>1, <1>2 DEF Scans
  <2> QED
    BY <1>3, <1>6, <2>1 DEF OpenRoot
<1>7. CASE TraversalFails(s)
  <2>1. [sc EXCEPT !.step = "commit", !.todo = {}, !.broken = TRUE] \in Scans
    BY <1>1 DEF Scans
  <2> QED
    BY <1>3, <1>7, <2>1 DEF TraversalFails
<1>8. ASSUME NEW g \in Games, ReadEntry(s, g) PROVE TypeInv'
  <2>1. [sc EXCEPT !.todo = @ \ {g}, !.seen = @ \cup {g}] \in Scans
    BY <1>1 DEF Scans
  <2> QED
    BY <1>3, <1>8, <2>1 DEF ReadEntry
<1>9. CASE EndOfRoot(s)
  <2>1. [sc EXCEPT !.step = "commit"] \in Scans
    BY <1>1 DEF Scans
  <2> QED
    BY <1>3, <1>9, <2>1 DEF EndOfRoot
<1>10. CASE Commit(s)
  <2>1. Outcome(sc) \in Rows
    BY <1>1, OutcomeLemma
  <2>2. \A g \in Games : UpsertGames(sc, MarkGamesMissing(sc))[g] \in {None, TRUE, FALSE}
    BY <1>1, UpsertLemma DEF TypeInv
  <2>3. UpsertGames(sc, MarkGamesMissing(sc)) \in [Games -> {None, TRUE, FALSE}]
    BY <2>2 DEF UpsertGames
  <2>4. scan' = [other \in Scanners |->
                   IF other = s \/ scan[other] = NoScan THEN NoScan
                   ELSE [scan[other] EXCEPT !.overtaken = TRUE]]
    BY <1>10 DEF Commit
  <2>5. ASSUME NEW other \in Scanners PROVE [scan[other] EXCEPT !.overtaken = TRUE] \in Scans
    <3>1. scan[other] \in Scans
      BY DEF TypeInv
    <3> QED
      BY <3>1, Zenon DEF Scans
  <2> QED
    BY <1>10, <2>1, <2>3, <2>4, <2>5, NoScanTyped DEF Commit, TypeInv
<1>11. CASE ScanFails(s)
  BY <1>3, <1>11, NoScanTyped DEF ScanFails, Ended
<1> QED
  BY <1>4, <1>5, <1>6, <1>7, <1>8, <1>9, <1>10, <1>11 DEF ScanStep

(* A scan that begins.                                                     *)
LEMMA BeginLemma ==
  ASSUME TypeInv, NEW s \in Scanners, BeginScan(s)
  PROVE  \E first \in Scans :
           /\ scan' = [scan EXCEPT ![s] = first]
           /\ first.step = "count" /\ first.prev = row /\ first.seen = {}
           /\ first.steady = Files(mounted) /\ first.ever = Files(mounted)
<1> DEFINE first == [NoScan EXCEPT !.step = "count", !.prev = row,
                                   !.steady = Files(mounted), !.ever = Files(mounted)]
<1>1. Files(mounted) \subseteq Games
  BY FilesTyped DEF TypeInv
<1>2. first \in Scans
  BY <1>1, NoScanTyped DEF TypeInv, Scans
<1>3. /\ first.step = "count" /\ first.prev = row /\ first.seen = {}
      /\ first.steady = Files(mounted) /\ first.ever = Files(mounted)
  BY DEF NoScan
<1>4. scan' = [scan EXCEPT ![s] = first]
  BY DEF BeginScan
<1> QED
  BY <1>2, <1>3, <1>4, Zenon

(* A scan that sees the storage change.                                    *)
LEMMA TrackLemma ==
  ASSUME TypeInv, roms' \subseteq Games, Track
  PROVE  /\ scan' \in [Scanners -> Scans]
         /\ \A s \in Scanners :
              \/ scan[s].step = "off" /\ scan'[s].step = "off"
              \/ scan'[s] = [scan[s] EXCEPT !.todo = @ \cap roms',
                               !.steady = @ \cap Files(mounted)',
                               !.ever = @ \cup Files(mounted)']
<1> DEFINE here == IF mounted' = Drive THEN roms' ELSE {}
           moved(s) == [scan[s] EXCEPT !.todo = @ \cap roms', !.steady = @ \cap here,
                                       !.ever = @ \cup here]
<1>1. here \subseteq Games /\ here = Files(mounted)'
  BY DEF Files
<1>2. scan' = [s \in Scanners |-> IF scan[s] = NoScan THEN NoScan ELSE moved(s)]
  BY Zenon DEF Track
<1>3. ASSUME NEW s \in Scanners PROVE moved(s) \in Scans
  <2>1. scan[s] \in Scans
    BY DEF TypeInv
  <2> HIDE DEF here
  <2> QED
    BY <1>1, <2>1 DEF Scans
<1>4. scan' \in [Scanners -> Scans]
  BY <1>2, <1>3, NoScanTyped
<1>5. NoScan.step = "off"
  BY DEF NoScan
<1>6. ASSUME NEW s \in Scanners
      PROVE  \/ scan[s].step = "off" /\ scan'[s].step = "off"
             \/ scan'[s] = moved(s)
  BY <1>2, <1>5, Zenon
<1> QED
  BY <1>1, <1>4, <1>6, Zenon

LEMMA NextTypeInv == TypeInv /\ [Next]_vars => TypeInv'
<1> SUFFICES ASSUME TypeInv, [Next]_vars PROVE TypeInv'
  OBVIOUS
<1>1. ASSUME NEW s \in Scanners, BeginScan(s), UNCHANGED <<mounted, roms, row, catalog>>
      PROVE  TypeInv'
  <2>1. PICK first \in Scans : scan' = [scan EXCEPT ![s] = first]
    BY <1>1, BeginLemma
  <2> QED
    BY <1>1, <2>1 DEF TypeInv
<1>2. CASE DaemonStarts \/ NoticeChange \/ RunScanJob \/ ShellScans
  BY <1>1, <1>2 DEF DaemonStarts, NoticeChange, RunScanJob, ShellScans, Scanners
<1>3. CASE DaemonStops
  BY <1>3, NoScanTyped DEF DaemonStops, Continue, TypeInv
<1>4. CASE TakeSnapshot
  BY <1>4 DEF TakeSnapshot, TypeInv
<1>5. ASSUME NEW device \in Devices \cup {None}, MoveDrive(device) PROVE TypeInv'
  <2>1. /\ mounted' = device /\ Track
        /\ UNCHANGED <<roms, row, catalog>>
    BY <1>5 DEF MoveDrive
  <2>2. scan' \in [Scanners -> Scans]
    BY <2>1, TrackLemma DEF TypeInv
  <2> QED
    BY <2>1, <2>2 DEF TypeInv, Places
<1>6. ASSUME NEW g \in Games, WriteDrive(g) PROVE TypeInv'
  <2>1. /\ roms' \subseteq Games /\ Track
        /\ UNCHANGED <<mounted, row, catalog>>
    BY <1>6 DEF WriteDrive, TypeInv
  <2>2. scan' \in [Scanners -> Scans]
    BY <2>1, TrackLemma
  <2> QED
    BY <2>1, <2>2 DEF TypeInv
<1>7. CASE UNCHANGED vars
  BY <1>7 DEF TypeInv, vars
<1> QED
  BY <1>2, <1>3, <1>4, <1>5, <1>6, <1>7, StepTypeInv DEF Next, DaemonStep, Storage

(* The root, the catalog and what either scanner knows keep their shape.   *)
THEOREM TypeCorrect == Spec => []TypeInv
<1>1. Init => TypeInv
  BY InitTypeInv
<1>2. TypeInv /\ [Next]_vars => TypeInv'
  BY NextTypeInv
<1> QED
  BY <1>1, <1>2, PTL DEF Spec

-----------------------------------------------------------------------------
(* What a scan knows.                                                      *)

LEMMA InitScansInv == Init => ScansInv
BY DEF Init, ScansInv, NoScan

(* A step of one scan leaves the storage alone, and so what the other one  *)
(* knows.                                                                  *)
LEMMA OneScan ==
  ASSUME TypeInv, ScansInv, NEW s \in Scanners, NEW next,
         scan' = [scan EXCEPT ![s] = next], UNCHANGED <<mounted, roms>>,
         next.step # "off" => ScanInv(next)
  PROVE  ScansInv'
<1> SUFFICES ASSUME NEW r \in Scanners, scan'[r].step # "off" PROVE ScanInv(scan[r])'
  BY Zenon DEF ScansInv
<1>1. Files(mounted)' = Files(mounted)
  BY DEF Files
<1>2. CASE r = s
  BY <1>1, <1>2 DEF TypeInv, ScanInv
<1>3. CASE r # s
  BY <1>1, <1>3 DEF TypeInv, ScansInv, ScanInv
<1> QED
  BY <1>2, <1>3

LEMMA StepScansInv ==
  ASSUME TypeInv, ScansInv, NEW s \in Scanners, ScanStep(s) \/ ScanFails(s)
  PROVE  ScansInv'
<1> DEFINE sc == scan[s]
<1>1. sc \in Scans /\ (sc.step # "off" => ScanInv(sc))
  BY DEF TypeInv, ScansInv
<1>2. NoScan.step = "off"
  BY DEF NoScan
<1>3. ASSUME NEW next, Continue(s, next), UNCHANGED <<mounted, roms>>,
             next.step # "off" => ScanInv(next)
      PROVE  ScansInv'
  BY <1>3, OneScan DEF Continue
<1> HIDE DEF sc
<1>4. CASE CountGames(s)
  <2> DEFINE next == [sc EXCEPT !.step = "stat", !.existing = \E g \in Games : catalog[g] # None]
  <2>1. sc.step = "count"
    BY <1>4 DEF CountGames, Step, sc
  <2>2. ScanInv(next)
    BY <1>1, <2>1 DEF ScanInv, Scans
  <2> QED
    BY <1>3, <1>4, <2>2 DEF CountGames, sc
<1>5. CASE StatRoot(s)
  <2> DEFINE next == [sc EXCEPT !.step = IF mounted = None THEN "commit" ELSE "open",
                                !.device = mounted]
  <2>1. sc.step = "stat"
    BY <1>5 DEF StatRoot, Step, sc
  <2>2. ScanInv(next)
    BY <1>1, <2>1 DEF ScanInv, Scans
  <2> QED
    BY <1>3, <1>5, <2>2 DEF StatRoot, sc
<1>6. CASE OpenRoot(s)
  <2> DEFINE next == [sc EXCEPT !.step = "read", !.opened = mounted, !.todo = Files(mounted)]
  <2>1. sc.step = "open"
    BY <1>6 DEF OpenRoot, Step, sc
  <2>2. ScanInv(next)
    BY <1>1, <2>1 DEF ScanInv, Scans
  <2> QED
    BY <1>3, <1>6, <2>2 DEF OpenRoot, sc
<1>7. CASE TraversalFails(s)
  <2> DEFINE next == [sc EXCEPT !.step = "commit", !.todo = {}, !.broken = TRUE]
  <2>1. sc.step \in {"open", "read"}
    BY <1>7 DEF TraversalFails, sc
  <2>2. ScanInv(next)
    BY <1>1, <2>1 DEF ScanInv, Scans
  <2> QED
    BY <1>3, <1>7, <2>2 DEF TraversalFails, sc
<1>8. ASSUME NEW g \in Games, ReadEntry(s, g) PROVE ScansInv'
  <2> DEFINE next == [sc EXCEPT !.todo = @ \ {g}, !.seen = @ \cup {g}]
  <2>1. sc.step = "read" /\ g \in Files(mounted) /\ mounted = sc.opened
    BY <1>8 DEF ReadEntry, Step, sc
  <2>2. mounted = Drive
    BY <2>1 DEF Files
  <2>3. ScanInv(next)
    BY <1>1, <2>1, <2>2 DEF ScanInv, Scans
  <2> QED
    BY <1>3, <1>8, <2>3 DEF ReadEntry, sc
<1>9. CASE EndOfRoot(s)
  <2> DEFINE next == [sc EXCEPT !.step = "commit"]
  <2>1. sc.step = "read" /\ sc.todo = {}
    BY <1>9 DEF EndOfRoot, Step, sc
  <2>2. ScanInv(next)
    BY <1>1, <2>1 DEF ScanInv, Scans
  <2> QED
    BY <1>3, <1>9, <2>2 DEF EndOfRoot, sc
<1>10. CASE Commit(s)
  <2>1. /\ scan' = [other \in Scanners |->
             IF other = s \/ scan[other] = NoScan THEN NoScan
             ELSE [scan[other] EXCEPT !.overtaken = TRUE]]
        /\ UNCHANGED <<mounted, roms>>
    BY <1>10 DEF Commit
  <2> SUFFICES ASSUME NEW r \in Scanners, scan'[r].step # "off" PROVE ScanInv(scan[r])'
    BY Zenon DEF ScansInv
  <2>2. scan'[r] = [scan[r] EXCEPT !.overtaken = TRUE]
    BY <1>2, <2>1
  <2>3. scan[r] \in Scans
    BY DEF TypeInv
  <2>4. scan[r].step # "off" /\ ScanInv(scan[r])
    BY <2>2, <2>3 DEF ScansInv, Scans
  <2>5. Files(mounted)' = Files(mounted)
    BY <2>1 DEF Files
  <2> QED
    BY <2>2, <2>3, <2>4, <2>5 DEF ScanInv, Scans
<1>11. CASE ScanFails(s)
  BY <1>2, <1>3, <1>11 DEF ScanFails
<1> QED
  BY <1>4, <1>5, <1>6, <1>7, <1>8, <1>9, <1>10, <1>11 DEF ScanStep

(* What a change of the storage leaves of what the scans know.             *)
LEMMA StorageScansInv ==
  ASSUME TypeInv, ScansInv, roms' \subseteq Games, Track
  PROVE  ScansInv'
<1> SUFFICES ASSUME NEW s \in Scanners, scan'[s].step # "off" PROVE ScanInv(scan[s])'
  BY Zenon DEF ScansInv
<1> DEFINE sc == scan[s]
<1>1. scan'[s] = [sc EXCEPT !.todo = @ \cap roms', !.steady = @ \cap Files(mounted)',
                            !.ever = @ \cup Files(mounted)']
  BY TrackLemma, Zenon
<1>2. sc \in Scans
  BY DEF TypeInv
<1> HIDE DEF sc
<1>3. /\ scan'[s].step = sc.step /\ scan'[s].seen = sc.seen /\ scan'[s].broken = sc.broken
      /\ scan'[s].device = sc.device /\ scan'[s].opened = sc.opened
      /\ scan'[s].todo = sc.todo \cap roms'
      /\ scan'[s].steady = sc.steady \cap Files(mounted)'
      /\ scan'[s].ever = sc.ever \cup Files(mounted)'
  BY <1>1, <1>2 DEF Scans
<1>5. ScanInv(sc)
  BY <1>3 DEF ScansInv, sc
<1>6. Files(mounted)' \subseteq roms'
  BY DEF Files
<1> QED
  BY <1>3, <1>5, <1>6 DEF ScanInv

LEMMA NextScansInv == TypeInv /\ ScansInv /\ [Next]_vars => ScansInv'
<1> SUFFICES ASSUME TypeInv, ScansInv, [Next]_vars PROVE ScansInv'
  OBVIOUS
<1>1. ASSUME NEW s \in Scanners, BeginScan(s), UNCHANGED <<mounted, roms>>
      PROVE  ScansInv'
  <2>1. PICK first \in Scans :
          /\ scan' = [scan EXCEPT ![s] = first]
          /\ first.step = "count" /\ first.prev = row /\ first.seen = {}
          /\ first.steady = Files(mounted) /\ first.ever = Files(mounted)
    BY <1>1, BeginLemma
  <2>2. ScanInv(first)
    BY <2>1 DEF ScanInv
  <2> QED
    BY <1>1, <2>1, <2>2, OneScan
<1>2. CASE DaemonStarts \/ NoticeChange \/ RunScanJob \/ ShellScans
  BY <1>1, <1>2 DEF DaemonStarts, NoticeChange, RunScanJob, ShellScans, Scanners
<1>3. CASE DaemonStops
  <2>1. /\ scan' = [scan EXCEPT !["daemon"] = NoScan] /\ UNCHANGED <<mounted, roms>>
        /\ NoScan.step = "off"
    BY <1>3 DEF DaemonStops, Continue, NoScan
  <2> QED
    BY <2>1, OneScan DEF Scanners
<1>4. CASE TakeSnapshot \/ UNCHANGED vars
  <2>1. UNCHANGED <<mounted, roms, scan>>
    BY <1>4 DEF TakeSnapshot, vars
  <2> QED
    BY <2>1 DEF ScansInv, ScanInv, Files
<1>5. ASSUME NEW device \in Devices \cup {None}, MoveDrive(device) PROVE ScansInv'
  <2>1. Track /\ UNCHANGED roms
    BY <1>5 DEF MoveDrive
  <2> QED
    BY <2>1, StorageScansInv DEF TypeInv
<1>6. ASSUME NEW g \in Games, WriteDrive(g) PROVE ScansInv'
  <2>1. Track /\ roms' \subseteq Games
    BY <1>6 DEF WriteDrive, TypeInv
  <2> QED
    BY <2>1, StorageScansInv
<1> QED
  BY <1>2, <1>3, <1>4, <1>5, <1>6, StepScansInv DEF Next, DaemonStep, Storage

(* What a scan has read of the database.                                   *)

LEMMA InitReadInv == Init => ReadInv /\ LabelInv
<1> SUFFICES ASSUME Init PROVE ReadInv /\ LabelInv
  OBVIOUS
<1>1. \A s \in Scanners : scan[s].step = "off"
  BY DEF Init, NoScan
<1> QED
  BY <1>1 DEF Init, ReadInv, LabelInv

(* A scan that changes its record and nothing else, and keeps what it has  *)
(* read.                                                                   *)
LEMMA OneRead ==
  ASSUME TypeInv, ReadInv, NEW s \in Scanners, NEW next,
         scan' = [scan EXCEPT ![s] = next], UNCHANGED <<row, catalog>>,
         next.step # "off" /\ ~next.overtaken =>
           next.prev = row /\ (next.step # "count" => next.existing = Listed)
  PROVE  ReadInv'
<1>1. Listed' = Listed
  BY DEF Listed
<1> SUFFICES ASSUME NEW r \in Scanners, scan'[r].step # "off", ~scan'[r].overtaken
             PROVE  /\ scan'[r].prev = row'
                    /\ scan'[r].step # "count" => scan'[r].existing = Listed'
  BY DEF ReadInv
<1>2. CASE r = s
  BY <1>1, <1>2 DEF TypeInv
<1>3. CASE r # s
  BY <1>1, <1>3 DEF TypeInv, ReadInv
<1> QED
  BY <1>2, <1>3

LEMMA NextReadInv == TypeInv /\ ReadInv /\ [Next]_vars => ReadInv'
<1> SUFFICES ASSUME TypeInv, ReadInv, [Next]_vars PROVE ReadInv'
  OBVIOUS
<1>0. NoScan.step = "off"
  BY DEF NoScan
<1>1. ASSUME NEW s \in Scanners, BeginScan(s), UNCHANGED <<row, catalog>>
      PROVE  ReadInv'
  <2>1. PICK first \in Scans :
          scan' = [scan EXCEPT ![s] = first] /\ first.step = "count" /\ first.prev = row
    BY <1>1, BeginLemma
  <2> QED
    BY <1>1, <2>1, OneRead
<1>2. CASE DaemonStarts \/ NoticeChange \/ RunScanJob \/ ShellScans
  BY <1>1, <1>2 DEF DaemonStarts, NoticeChange, RunScanJob, ShellScans, Scanners
<1>3. CASE DaemonStops
  <2>1. scan' = [scan EXCEPT !["daemon"] = NoScan] /\ UNCHANGED <<row, catalog>>
    BY <1>3 DEF DaemonStops, Continue
  <2> QED
    BY <1>0, <2>1, OneRead DEF Scanners
<1>4. CASE TakeSnapshot \/ UNCHANGED vars
  <2>1. UNCHANGED <<row, catalog, scan>>
    BY <1>4 DEF TakeSnapshot, vars
  <2> QED
    BY <2>1 DEF ReadInv, Listed
<1>5. CASE Storage
  <2>1. Track /\ roms' \subseteq Games /\ UNCHANGED <<row, catalog>>
    BY <1>5 DEF Storage, MoveDrive, WriteDrive, TypeInv
  <2>2. Listed' = Listed
    BY <2>1 DEF Listed
  <2>3. ASSUME NEW s \in Scanners, scan'[s].step # "off"
        PROVE  /\ scan'[s].step = scan[s].step /\ scan'[s].overtaken = scan[s].overtaken
               /\ scan'[s].prev = scan[s].prev /\ scan'[s].existing = scan[s].existing
    <3>1. scan'[s] = [scan[s] EXCEPT !.todo = @ \cap roms', !.steady = @ \cap Files(mounted)',
                                     !.ever = @ \cup Files(mounted)']
      BY <2>1, <2>3, TrackLemma, Zenon
    <3>2. scan[s] \in Scans
      BY DEF TypeInv
    <3> QED
      BY <3>1, <3>2 DEF Scans
  <2> QED
    BY <2>1, <2>2, <2>3 DEF ReadInv
<1>6. ASSUME NEW s \in Scanners, ScanStep(s) \/ ScanFails(s) PROVE ReadInv'
  <2> DEFINE sc == scan[s]
  <2>1. sc \in Scans
    BY DEF TypeInv
  <2>2. CASE CountGames(s)
    <3>1. /\ scan' = [scan EXCEPT ![s] = [sc EXCEPT !.step = "stat", !.existing = Listed]]
          /\ sc.step = "count" /\ UNCHANGED <<row, catalog>>
      BY <2>2 DEF CountGames, Continue, Step, Listed
    <3>2. (~sc.overtaken => sc.prev = row)
      BY <3>1 DEF ReadInv
    <3> DEFINE next == [sc EXCEPT !.step = "stat", !.existing = Listed]
    <3>3. next.existing = Listed /\ next.prev = sc.prev /\ next.overtaken = sc.overtaken
      BY <2>1 DEF Scans
    <3> HIDE DEF next
    <3> QED
      BY <3>1, <3>2, <3>3, OneRead DEF next
  <2>3. CASE \/ StatRoot(s) \/ OpenRoot(s) \/ TraversalFails(s) \/ EndOfRoot(s)
             \/ \E g \in Games : ReadEntry(s, g)
    <3>1. UNCHANGED <<row, catalog>> /\ sc.step \in {"stat", "open", "read"}
      BY <2>3 DEF StatRoot, OpenRoot, TraversalFails, EndOfRoot, ReadEntry, Step
    <3>2. ~sc.overtaken => sc.prev = row /\ sc.existing = Listed
      BY <3>1 DEF ReadInv
    <3>3. ASSUME NEW next, Continue(s, next), next.prev = sc.prev,
                 next.overtaken = sc.overtaken, next.existing = sc.existing
          PROVE  ReadInv'
      BY <3>1, <3>2, <3>3, OneRead DEF Continue
    <3>4. CASE StatRoot(s)
      <4> DEFINE next == [sc EXCEPT !.step = IF mounted = None THEN "commit" ELSE "open",
                                   !.device = mounted]
      <4>1. /\ next.prev = sc.prev /\ next.overtaken = sc.overtaken
            /\ next.existing = sc.existing
        BY <2>1, <3>1 DEF Scans
      <4>2. Continue(s, next)
        BY <3>4 DEF StatRoot
      <4> HIDE DEF next
      <4> QED
        BY <3>3, <4>1, <4>2
    <3>5. CASE OpenRoot(s)
      <4> DEFINE next == [sc EXCEPT !.step = "read", !.opened = mounted, !.todo = Files(mounted)]
      <4>1. /\ next.prev = sc.prev /\ next.overtaken = sc.overtaken
            /\ next.existing = sc.existing
        BY <2>1, <3>1 DEF Scans
      <4>2. Continue(s, next)
        BY <3>5 DEF OpenRoot
      <4> HIDE DEF next
      <4> QED
        BY <3>3, <4>1, <4>2
    <3>6. CASE TraversalFails(s)
      <4> DEFINE next == [sc EXCEPT !.step = "commit", !.todo = {}, !.broken = TRUE]
      <4>1. /\ next.prev = sc.prev /\ next.overtaken = sc.overtaken
            /\ next.existing = sc.existing
        BY <2>1, <3>1 DEF Scans
      <4>2. Continue(s, next)
        BY <3>6 DEF TraversalFails
      <4> HIDE DEF next
      <4> QED
        BY <3>3, <4>1, <4>2
    <3>7. CASE EndOfRoot(s)
      <4> DEFINE next == [sc EXCEPT !.step = "commit"]
      <4>1. /\ next.prev = sc.prev /\ next.overtaken = sc.overtaken
            /\ next.existing = sc.existing
        BY <2>1, <3>1 DEF Scans
      <4>2. Continue(s, next)
        BY <3>7 DEF EndOfRoot
      <4> HIDE DEF next
      <4> QED
        BY <3>3, <4>1, <4>2
    <3>8. ASSUME NEW g \in Games, ReadEntry(s, g) PROVE ReadInv'
      <4> DEFINE next == [sc EXCEPT !.todo = @ \ {g}, !.seen = @ \cup {g}]
      <4>1. /\ next.prev = sc.prev /\ next.overtaken = sc.overtaken
            /\ next.existing = sc.existing
        BY <2>1 DEF Scans
      <4>2. Continue(s, next)
        BY <3>8 DEF ReadEntry
      <4> HIDE DEF next
      <4> QED
        BY <3>3, <4>1, <4>2
    <3> QED
      BY <2>3, <3>4, <3>5, <3>6, <3>7, <3>8
  <2>4. CASE Commit(s)
    <3>1. scan' = [other \in Scanners |->
             IF other = s \/ scan[other] = NoScan THEN NoScan
             ELSE [scan[other] EXCEPT !.overtaken = TRUE]]
      BY <2>4 DEF Commit
    <3>2. \A other \in Scanners : [scan[other] EXCEPT !.overtaken = TRUE].overtaken
      BY DEF TypeInv, Scans
    <3> QED
      BY <1>0, <3>1, <3>2 DEF ReadInv
  <2>5. CASE ScanFails(s)
    BY <1>0, <2>5, OneRead DEF ScanFails, Continue
  <2> QED
    BY <1>6, <2>2, <2>3, <2>4, <2>5 DEF ScanStep
<1> QED
  BY <1>2, <1>3, <1>4, <1>5, <1>6 DEF Next, DaemonStep

(* A scan knows of the root what ScanInv says, whatever the other scanner, *)
(* the drives and the files do meanwhile, and of the database what ReadInv *)
(* says.                                                                   *)
THEOREM ScansCorrect == Spec => [](TypeInv /\ ScansInv /\ ReadInv)
<1>1. Init => TypeInv /\ ScansInv /\ ReadInv
  BY InitTypeInv, InitScansInv, InitReadInv
<1>2. TypeInv /\ ScansInv /\ ReadInv /\ [Next]_vars => (TypeInv /\ ScansInv /\ ReadInv)'
  BY NextTypeInv, NextScansInv, NextReadInv
<1> QED
  BY <1>1, <1>2, PTL DEF Spec

-----------------------------------------------------------------------------
(* What a commit does to the catalog.                                      *)

(* What a commit needs of the scan it ends.                                *)
LEMMA CommitLemma ==
  ASSUME TypeInv, ScansInv, NEW s \in Scanners, NEW g \in Games, Commit(s)
  PROVE  /\ scan[s] \in Scans /\ ScanInv(scan[s]) /\ scan[s].step = "commit"
         /\ row' = Outcome(scan[s])
         /\ catalog[g] \in {None, TRUE, FALSE}
         /\ g \in scan[s].seen => catalog'[g] = TRUE
         /\ g \notin scan[s].seen /\ row'.status # "ok" => catalog'[g] = catalog[g]
         /\ g \notin scan[s].seen /\ row'.status = "ok" => catalog'[g] \in {None, FALSE}
<1>1. scan[s] \in Scans /\ ScanInv(scan[s]) /\ scan[s].step = "commit"
  BY DEF Commit, Step, TypeInv, ScansInv
<1>2. row' = Outcome(scan[s]) /\ catalog' = UpsertGames(scan[s], MarkGamesMissing(scan[s]))
  BY DEF Commit
<1>3. catalog \in [Games -> {None, TRUE, FALSE}]
  BY DEF TypeInv
<1> QED
  BY <1>1, <1>2, <1>3, UpsertLemma

LEMMA SteadyStep ==
  ASSUME TypeInv, ScansInv, NEW s \in Scanners, NEW g \in Games,
         g \in scan[s].steady, Commit(s), catalog[g] = TRUE
  PROVE  catalog'[g] = TRUE
<1>1. CASE g \in scan[s].seen
  BY <1>1, CommitLemma
<1>2. CASE row'.status # "ok"
  BY <1>2, CommitLemma
<1>3. CASE row'.status = "ok"
  <2>1. scan[s].device # None /\ ~scan[s].broken
    BY <1>3, CommitLemma, OutcomeLemma
  <2> QED
    BY <1>1, <2>1, CommitLemma DEF ScanInv
<1> QED
  BY <1>2, <1>3

(* What is known of a scan that found nothing, was not overtaken, and yet  *)
(* makes the root ok while a game is listed: it compared with the row as   *)
(* it is, and found the same device.                                       *)
LEMMA EmptyLemma ==
  ASSUME TypeInv, ScansInv, ReadInv, NEW s \in Scanners, NEW g \in Games,
         Commit(s), row'.status = "ok", g \notin scan[s].seen, catalog[g] = TRUE,
         scan[s].seen = {}, ~scan[s].overtaken
  PROVE  row # None /\ row.device = scan[s].device /\ scan[s].device # None
<1>1. /\ scan[s] \in Scans /\ scan[s].step = "commit"
      /\ scan[s].device # None
      /\ Baseline(scan[s]) \in {None, scan[s].device}
      /\ ~scan[s].existing \/ Baseline(scan[s]) # None
  BY CommitLemma, OutcomeLemma
<1>2. scan[s].prev = row /\ scan[s].existing = Listed
  BY <1>1 DEF ReadInv
<1>3. Listed
  BY LibraryAssumption DEF Listed
<1>4. Baseline(scan[s]) = scan[s].device
  BY <1>1, <1>2, <1>3
<1> QED
  BY <1>1, <1>2, <1>4 DEF Baseline

LEMMA OfflineStep ==
  ASSUME TypeInv, ScansInv, ReadInv, LabelInv, NEW s \in Scanners, NEW g \in Games,
         Commit(s), scan[s].opened # Drive, catalog[g] = TRUE, catalog'[g] = FALSE
  PROVE  scan[s].device = Drive \/ scan[s].overtaken \/ mislabelled
<1> SUFFICES ASSUME scan[s].device # Drive, ~scan[s].overtaken PROVE mislabelled
  OBVIOUS
<1>1. g \notin scan[s].seen /\ row'.status = "ok"
  BY CommitLemma, LibraryAssumption
<1>2. scan[s].seen = {} /\ scan[s] \in Scans
  BY CommitLemma DEF ScanInv
<1>3. row # None /\ row.device = scan[s].device /\ scan[s].device # None
  BY <1>1, <1>2, EmptyLemma
<1>4. row.device = Card
  BY <1>2, <1>3 DEF Scans, Places, Devices
<1> QED
  BY <1>3, <1>4 DEF LabelInv

(* A commit that leaves the mount point's own device in the row of a root  *)
(* with a game that is present is one of those that mislabelled records.   *)
LEMMA NextLabelInv == TypeInv /\ ScansInv /\ ReadInv /\ LabelInv /\ [Next]_vars => LabelInv'
<1> SUFFICES ASSUME TypeInv, ScansInv, ReadInv, LabelInv, [Next]_vars PROVE LabelInv'
  OBVIOUS
<1>1. ASSUME NEW s \in Scanners, Commit(s) PROVE LabelInv'
  <2> DEFINE sc == scan[s]
  <2> SUFFICES ASSUME row' # None, row'.device = Card, ~mislabelled', NEW g \in Games,
                      catalog'[g] = TRUE
               PROVE  FALSE
    BY DEF LabelInv
  <2>1. mislabelled' = Mislabels(sc)
    BY <1>1 DEF Commit
  <2>2. ~mislabelled /\ sc.opened = sc.device /\ ~sc.broken /\ ~sc.overtaken
    BY <2>1 DEF Mislabels
  <2>3. sc \in Scans /\ ScanInv(sc) /\ sc.step = "commit" /\ row' = Outcome(sc)
    BY <1>1, CommitLemma
  <2>4. sc.prev = row
    BY <2>2, <2>3 DEF ReadInv
  <2>5. CASE row'.status = "ok"
    <3>1. g \in sc.seen
      BY <1>1, <2>5, CommitLemma, LibraryAssumption
    <3>2. sc.opened = Drive
      BY <2>3, <3>1 DEF ScanInv
    <3>3. row'.device = sc.device
      BY <2>2, <2>3, <2>5 DEF Outcome, Row
    <3> QED
      BY <2>2, <3>2, <3>3, LibraryAssumption
  <2>6. CASE row'.status # "ok"
    <3>1. sc.seen = {}
      <4>1. sc.device = None \/ sc.seen = {}
        BY <2>2, <2>3, <2>6 DEF Outcome, Row
      <4>2. None # Drive
        BY LibraryAssumption
      <4> QED
        BY <2>2, <2>3, <4>1, <4>2 DEF ScanInv
    <3>2. catalog[g] = TRUE
      BY <1>1, <2>6, <3>1, CommitLemma
    <3>3. row'.device \in {Baseline(sc), None}
      BY <2>2, <2>3, <2>6 DEF Outcome, Row
    <3>4. row # None /\ row.device = Card
      BY <2>4, <3>3, LibraryAssumption DEF Baseline
    <3> QED
      BY <2>2, <3>2, <3>4 DEF LabelInv
  <2> QED
    BY <2>5, <2>6
<1>2. ASSUME UNCHANGED <<row, catalog, mislabelled>> PROVE LabelInv'
  BY <1>2 DEF LabelInv
<1>3. ASSUME NEW s \in Scanners, ScanStep(s) \/ ScanFails(s), ~Commit(s)
      PROVE  UNCHANGED <<row, catalog, mislabelled>>
  BY <1>3 DEF ScanStep, ScanFails, CountGames, StatRoot, OpenRoot, TraversalFails, ReadEntry,
              EndOfRoot
<1>4. CASE \/ DaemonStep \/ RunScanJob \/ ShellScans \/ DaemonStops \/ Storage \/ UNCHANGED vars
  <2>1. UNCHANGED <<row, catalog, mislabelled>>
    BY <1>4 DEF DaemonStep, DaemonStarts, TakeSnapshot, NoticeChange, RunScanJob, ShellScans,
                DaemonStops, Storage, MoveDrive, WriteDrive, vars
  <2> QED
    BY <1>2, <2>1
<1> QED
  BY <1>1, <1>2, <1>3, <1>4 DEF Next

(* "Only a complete scan of a healthy root can mark ROMs from that root    *)
(* missing", and "if a drive is unplugged ... existing catalog entries     *)
(* remain available": no commit marks a game missing that stayed at the    *)
(* root during the scan; nor does one of a scan that did not get to open   *)
(* the drive, but in the three cases OfflineKept names.                    *)
THEOREM CatalogCorrect == Spec => CatalogKept
<1> DEFINE Inv == TypeInv /\ ScansInv /\ ReadInv /\ LabelInv
<1>1. Inv /\ [Next]_vars =>
        [\A s \in Scanners, g \in Games :
           g \in scan[s].steady /\ Commit(s) /\ catalog[g] = TRUE => catalog'[g] = TRUE]_vars
  BY SteadyStep
<1>2. Inv /\ [Next]_vars =>
        [\A s \in Scanners, g \in Games :
           Commit(s) /\ scan[s].opened # Drive /\ catalog[g] = TRUE /\ catalog'[g] = FALSE
           => scan[s].device = Drive \/ scan[s].overtaken \/ mislabelled]_vars
  BY OfflineStep
<1>3. Init => Inv
  BY InitTypeInv, InitScansInv, InitReadInv
<1>4. Inv /\ [Next]_vars => Inv'
  BY NextTypeInv, NextScansInv, NextReadInv, NextLabelInv
<1>5. Spec => SteadyKept
  BY <1>1, <1>3, <1>4, PTL DEF Spec, SteadyKept
<1>6. Spec => OfflineKept
  BY <1>2, <1>3, <1>4, PTL DEF Spec, OfflineKept
<1> QED
  BY <1>5, <1>6, PTL DEF CatalogKept

(* "A ROM absent from a successfully scanned root is treated as deleted":  *)
(* after a commit that gives the root the state ok, only games that were   *)
(* at the root at some time during the scan are present.                   *)
THEOREM DeletedCorrect == Spec => DeletedForgotten
<1>1. ASSUME TypeInv, ScansInv, NEW s \in Scanners, NEW g \in Games,
             Commit(s), row'.status = "ok", catalog'[g] = TRUE
      PROVE  g \in scan[s].ever
  <2>1. g \in scan[s].seen
    BY <1>1, CommitLemma, LibraryAssumption
  <2> QED
    BY <1>1, <2>1, CommitLemma DEF ScanInv
<1>2. TypeInv /\ ScansInv /\ [Next]_vars =>
        [\A s \in Scanners, g \in Games :
           Commit(s) /\ row'.status = "ok" /\ catalog'[g] = TRUE => g \in scan[s].ever]_vars
  BY <1>1
<1> QED
  BY <1>2, ScansCorrect, PTL DEF Spec, DeletedForgotten
=============================================================================
