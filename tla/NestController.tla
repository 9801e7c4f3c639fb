---------------------------- MODULE NestController ----------------------------
(***************************************************************************)
(* The Nest screen: NestController::Impl, the buttons of the player, the   *)
(* polling by the shell's main loop and one worker thread that runs one    *)
(* job at a time against the Nest service.  A job that is started while    *)
(* another runs waits in the one place `pending`, where a later one        *)
(* replaces it.  Leaving Nest and starting a game relock the parental PIN: *)
(* the lock epoch outdates the running job, and required_lock makes the    *)
(* next worker lock the service first.                                     *)
(*                                                                         *)
(* The UI thread's fields are one record, `ui`, because its functions call *)
(* each other (Tick filters, starts and fetches in one step); they are     *)
(* operators from such a record to the next.  Selections, scrolling, texts *)
(* and pages are left out, and with them the views that change nothing     *)
(* else: Artwork, Filters and Developer.                                   *)
(***************************************************************************)
EXTENDS FiniteSets

CONSTANTS
  Games,
  Mature,   \* games that the parental PIN hides
  Legacy,   \* installed games that no catalog describes
  None

Views == {"Home", "Catalog", "Installed", "Updates", "Detail", "Remove", "Transfer",
          "Rating", "Parental", "Pin"}
Kinds == {"Refresh", "Catalog", "Updates", "Manifest", "Image", "Install", "Uninstall",
          "Installed", "Rating", "Parental"}

Manifests == [game : Games, mature : BOOLEAN]
Jobs == [kind : Kinds, view : Views, game : Games \cup {None},
         what : {"open", "relock", "all", "tame", "set", "unlock", "lock", "remove", None}]
Runs == [job : Jobs, current : BOOLEAN, cancel : BOOLEAN, step : {"begin", "run", "done"},
         ok : BOOLEAN, changed : BOOLEAN, got : SUBSET (Games \cup Manifests)]

ASSUME ControllerAssumption ==
  /\ Mature \subseteq Games /\ Legacy \subseteq Games
  /\ None \notin Games \cup {"set", "unlock", "lock", "remove"}
  /\ None \notin Manifests /\ None \notin Jobs /\ None \notin Runs

VARIABLES
  ui,       \* NestController::Impl and the shell's screen
  service,  \* Nest service: PIN set, unlocked, installed and cached games
  granted   \* history: the PIN was given since the last relock

vars == <<ui, service, granted>>

Job(kind, view, game, what) ==
  [kind |-> kind, view |-> view, game |-> game, what |-> what]
Manifest(g, mature) == [game |-> g, mature |-> mature]

Init ==
  /\ ui = [inNest |-> FALSE, view |-> "Home", back |-> "Catalog",
           rateBack |-> "Detail", pinAction |-> None,
           catalog |-> {}, updates |-> {}, installed |-> {}, cached |-> {},
           manifest |-> None, rating |-> None,
           enabled |-> FALSE, locked |-> FALSE, force |-> TRUE,
           error |-> FALSE, external |-> FALSE,
           changed |-> FALSE, launch |-> None,
           run |-> None, pending |-> None, needLock |-> FALSE]
  /\ \E pin \in BOOLEAN, installed, cached \in SUBSET Games :
       /\ Legacy \subseteq installed /\ cached \cap Legacy = {}
       /\ installed \ Legacy \subseteq cached
       /\ service = [pin |-> pin, unlocked |-> FALSE,
                     installed |-> installed, cached |-> cached]
  /\ granted = FALSE

-----------------------------------------------------------------------------
(* The functions of the UI thread.                                         *)

Start(s, j) ==
  IF s.run # None THEN [s EXCEPT !.run.cancel = TRUE, !.pending = j]
  ELSE [s EXCEPT !.pending = None,
                 !.run = [job |-> j, current |-> TRUE, cancel |-> FALSE,
                          step |-> "begin", ok |-> FALSE, changed |-> FALSE,
                          got |-> {}]]

Active(s) == s.run # None \/ s.pending # None

Loading(s) ==
  IF s.pending # None /\ s.pending.view = s.view
    THEN s.pending.kind # "Image"
    ELSE /\ s.run # None /\ s.run.job.view = s.view
         /\ s.run.job.kind \notin {"Image", "Refresh", "Installed"}
         /\ s.view # "Transfer"

(* What the device knows of a game; what it does not know it hides.        *)
LooksMature(s, g) ==
  IF s.manifest # None /\ s.manifest.game = g THEN s.manifest.mature
  ELSE IF g \in s.catalog \cup s.cached THEN g \in Mature ELSE s.locked

VisibleInstalled(s) ==
  {g \in s.installed : ~s.locked \/ ~LooksMature(s, g)}

FilterMature(s) ==
  IF ~s.locked THEN s
  ELSE [s EXCEPT
          !.catalog = @ \ Mature,
          !.updates = {g \in @ : ~LooksMature(s, g)},
          !.manifest = IF @ # None /\ @.mature THEN None ELSE @]

Home(s) == [s EXCEPT !.view = "Home", !.error = FALSE, !.external = FALSE]

FetchCatalog(s) ==
  Start([s EXCEPT !.view = "Catalog", !.error = FALSE],
        Job("Catalog", "Catalog", None, IF s.locked THEN "tame" ELSE "all"))

(* The game whose picture the view shows: any in its list is selected.     *)
CurrentImage(s) ==
  CASE s.view = "Installed" -> VisibleInstalled(s)
    [] s.view = "Catalog" -> s.catalog
    [] s.view \in {"Detail", "Remove"} /\ s.manifest # None -> {s.manifest.game}
    [] OTHER -> {}

(* Unless the picture is there already, or something else is waiting.      *)
FetchImage(s) ==
  {s} \cup
  IF s.pending # None /\ s.pending.kind # "Image" THEN {}
  ELSE {Start(s, Job("Image", s.view, g, None)) : g \in CurrentImage(s)}

Details(s, g, back) ==
  Start([s EXCEPT !.back = back, !.view = "Detail", !.manifest = None,
                  !.error = FALSE],
        Job("Manifest", "Detail", g, None))

Installing(s) ==
  IF s.locked /\ s.manifest.mature THEN s
  ELSE Start([s EXCEPT !.view = "Transfer", !.error = FALSE],
             Job("Install", "Transfer", s.manifest.game, None))

Outdated(s) == IF s.run = None THEN s ELSE [s EXCEPT !.run.current = FALSE]

(* Mutant: only the job of the relock itself is to lock.                   *)
LockingByJob(s) == [Outdated(s) EXCEPT !.force = TRUE, !.locked = s.enabled]

Locking(s) == [Outdated(s) EXCEPT !.needLock = TRUE, !.force = TRUE,
                                  !.locked = s.enabled]

Relock(s) ==
  LET t == Locking(s)
      hidden == /\ t.locked
                /\ \/ /\ t.manifest # None /\ t.manifest.mature
                      /\ t.view \in {"Detail", "Remove"}
                   \/ t.view = "Rating" /\ LooksMature(t, t.rating)
      u == IF hidden THEN Home(FilterMature(t)) ELSE FilterMature(t)
  IN Start(u, Job("Refresh", "Home", None, "relock"))

-----------------------------------------------------------------------------
(* The shell opens Nest, and the buttons of the player.                    *)

Open ==
  /\ ~ui.inNest
  /\ ui' = Start([Home(FilterMature(Locking(ui))) EXCEPT !.inNest = TRUE],
                 Job("Refresh", "Home", None, "open"))
  /\ granted' = FALSE /\ UNCHANGED service

(* The shell polls between two buttons.                                    *)
Button == ui.inNest /\ ui.launch = None
InNest == Button /\ ~ui.external
Ready(view) == InNest /\ ui.view = view /\ ~Loading(ui)
Shows(next) == ui' = next /\ UNCHANGED <<service, granted>>

DismissError ==
  /\ Button /\ ui.external
  /\ Shows([ui EXCEPT !.error = FALSE, !.external = FALSE])

PressStart ==
  /\ InNest /\ ui.view # "Catalog"
  /\ ~(ui.view = "Transfer" /\ Active(ui))
  /\ Shows(Home(ui))

BackToShell ==
  /\ InNest /\ ui.view = "Home"
  /\ ui' = [Relock(ui) EXCEPT !.inNest = FALSE]
  /\ granted' = FALSE /\ UNCHANGED service

CancelTransfer ==
  /\ InNest /\ ui.view = "Transfer" /\ Active(ui)
  /\ Shows(IF ui.run = None THEN ui ELSE [ui EXCEPT !.run.cancel = TRUE])

ViewBehind(s) ==
  CASE s.view = "Detail" -> s.back
    [] s.view = "Rating" -> s.rateBack
    [] s.view \in {"Remove", "Transfer"} -> "Detail"
    [] s.view = "Pin" -> "Parental"
    [] OTHER -> "Home"

(* Mutant: B leaves the progress screen at any time.                       *)
GoBackFromTransfer ==
  /\ InNest /\ ui.view # "Home"
  /\ Shows([ui EXCEPT !.view = ViewBehind(ui), !.error = FALSE])

GoBack ==
  /\ InNest /\ ui.view # "Home"
  /\ ~(ui.view = "Transfer" /\ Active(ui))
  /\ Shows([ui EXCEPT !.view = ViewBehind(ui), !.error = FALSE])

(* From Home, to the same page again, and to the next.                     *)
Browse ==
  /\ Ready("Home") \/ Ready("Catalog")
  /\ Shows(FetchCatalog(ui))

OpenInstalled ==
  /\ Ready("Home")
  /\ Shows(Start([ui EXCEPT !.view = "Installed", !.error = FALSE],
                 Job("Installed", "Installed", None, None)))

OpenUpdates ==
  /\ Ready("Home") \/ Ready("Updates")
  /\ Shows(Start([ui EXCEPT !.view = "Updates", !.error = FALSE],
                 Job("Updates", "Updates", None, None)))

OpenParental ==
  /\ Ready("Home")
  /\ Shows([ui EXCEPT !.view = "Parental", !.error = FALSE])

(* Up, Down, Left and Right where there are pictures.                      *)
MoveSelection ==
  /\ \E v \in {"Catalog", "Installed", "Detail"} : Ready(v)
  /\ \E next \in FetchImage(ui) : Shows(next)

OpenDetails ==
  /\ \/ Ready("Catalog") /\ \E g \in ui.catalog : Shows(Details(ui, g, "Catalog"))
     \/ /\ Ready("Installed")
        /\ \E g \in VisibleInstalled(ui) : Shows(Details(ui, g, "Installed"))
     \/ Ready("Updates") /\ \E g \in ui.updates : Shows(Details(ui, g, "Updates"))

Rate(g, from) ==
  Shows([ui EXCEPT !.rating = g, !.rateBack = from, !.view = "Rating"])

(* A registration without a package or a launcher is not launched.         *)
Launch(g) ==
  \/ Shows([ui EXCEPT !.launch = g])
  \/ Shows(ui)

OnInstalled ==
  /\ Ready("Installed")
  /\ \E g \in VisibleInstalled(ui) : Rate(g, "Installed") \/ Launch(g)

(* The details of a game that is not installed, or has an update.          *)
InstallGame ==
  /\ Ready("Detail") /\ ui.manifest # None
  /\ Shows(Installing(ui))

OnInstalledDetail ==
  /\ Ready("Detail") /\ ui.manifest # None /\ ui.manifest.game \in ui.installed
  /\ \/ Launch(ui.manifest.game)
     \/ Shows([ui EXCEPT !.view = "Remove"])
     \/ Rate(ui.manifest.game, "Detail")

(* Without a manifest the service is asked to remove no game, and fails.   *)
RemoveGame ==
  /\ Ready("Remove")
  /\ Shows(Start([ui EXCEPT !.view = "Transfer", !.error = FALSE],
                 Job("Uninstall", "Transfer",
                     IF ui.manifest = None THEN None ELSE ui.manifest.game,
                     None)))

Continue ==
  /\ Ready("Transfer") /\ ~Active(ui)
  /\ Shows([ui EXCEPT !.view = "Detail"])

SaveRating ==
  /\ Ready("Rating")
  /\ Shows(Start([ui EXCEPT !.view = ui.rateBack],
                 Job("Rating", ui.rateBack, ui.rating, None)))

ParentalJob(s, action) == Start(s, Job("Parental", "Parental", None, action))

(* "Lock now", or the action that needs the digits of the PIN.             *)
ChooseParental ==
  /\ Ready("Parental")
  /\ \/ ui.enabled /\ ~ui.locked /\ Shows(ParentalJob([ui EXCEPT !.error = FALSE], "lock"))
     \/ Shows([ui EXCEPT !.view = "Pin", !.error = FALSE,
                         !.pinAction = IF ~ui.enabled THEN "set"
                                       ELSE IF ui.locked THEN "unlock"
                                       ELSE "remove"])

ConfirmPin ==
  /\ Ready("Pin")
  /\ \/ Shows(ParentalJob([ui EXCEPT !.view = "Parental"], ui.pinAction))
     \/ ui.pinAction = "set" /\ Shows([ui EXCEPT !.error = TRUE])

Player ==
  \/ Open \/ DismissError \/ PressStart \/ BackToShell \/ CancelTransfer
  \/ GoBack \/ Browse \/ OpenInstalled \/ OpenUpdates \/ OpenParental
  \/ MoveSelection \/ OpenDetails \/ OnInstalled \/ InstallGame
  \/ OnInstalledDetail \/ RemoveGame \/ Continue \/ SaveRating
  \/ ChooseParental \/ ConfirmPin

-----------------------------------------------------------------------------
(* The worker thread.                                                      *)

ServiceLocked == service.pin /\ ~service.unlocked

WorkerBegins ==
  /\ ui.run # None /\ ui.run.step = "begin"
  /\ ui' = [ui EXCEPT !.run.step = "run", !.needLock = FALSE]
  /\ service' = IF ui.needLock THEN [service EXCEPT !.unlocked = FALSE]
                ELSE service
  /\ UNCHANGED granted

Running(kind) == ui.run # None /\ ui.run.step = "run" /\ ui.run.job.kind = kind

Result(ok, got, changed) ==
  /\ ui' = [ui EXCEPT !.run.step = "done", !.run.ok = ok, !.run.got = got,
                      !.run.changed = changed]
  /\ UNCHANGED granted

(* Both kinds lock; that of Open also restores launchers, which may fail.  *)
RunRefresh ==
  /\ Running("Refresh")
  /\ service' = [service EXCEPT !.unlocked = FALSE]
  /\ IF ui.run.job.what = "relock" THEN Result(TRUE, {}, FALSE)
     ELSE \E changed \in BOOLEAN :
            Result(TRUE, {}, changed) \/ Result(FALSE, {}, FALSE)

(* What a request for the catalog gives: the store's games or, without an  *)
(* answer, the cached ones.                                                *)
Page(mature) ==
  LET tame == IF mature THEN {} ELSE Mature
      store == (Games \ Legacy) \ tame
  IN {[entries |-> store, cached |-> service.cached \cup store]} \cup
     (IF service.cached = {} THEN {}
      ELSE {[entries |-> service.cached \ tame, cached |-> service.cached]})

Fails == Result(FALSE, {}, FALSE) /\ UNCHANGED service

RunCatalog ==
  /\ Running("Catalog")
  /\ \/ \E page \in Page(ui.run.job.what = "all" /\ ~ServiceLocked) :
          /\ Result(TRUE, page.entries, FALSE)
          /\ service' = [service EXCEPT !.cached = page.cached]
     \/ service.cached = {} /\ Fails

RunUpdates ==
  /\ Running("Updates")
  /\ \/ \E page \in Page(~ServiceLocked) :
          /\ \E newer \in SUBSET (page.entries \cap service.installed) :
               Result(TRUE, newer, FALSE)
          /\ service' = [service EXCEPT !.cached = page.cached]
     \/ service.cached = {} /\ Fails

(* The store's manifest or the cached one; else, for an installed game,    *)
(* what the registry and the cached catalog say of it.                     *)
RunManifest ==
  LET g == ui.run.job.game
      classified == g \in service.cached
      mature == classified /\ g \in Mature
  IN /\ Running("Manifest")
     /\ \/ /\ g \notin Legacy /\ ~(ServiceLocked /\ g \in Mature)
           /\ Result(TRUE, {Manifest(g, g \in Mature)}, FALSE)
        \/ /\ g \in service.installed
           /\ ~(ServiceLocked /\ (~classified \/ mature))
           /\ Result(TRUE, {Manifest(g, mature)}, FALSE)
        \/ Result(FALSE, {}, FALSE)
     /\ UNCHANGED service

RunImage ==
  /\ Running("Image")
  /\ \E changed \in BOOLEAN : Result(TRUE, {}, changed)
  /\ UNCHANGED service

RunInstall ==
  LET g == ui.run.job.game
  IN /\ Running("Install")
     /\ \/ Fails
        \/ /\ ~(ServiceLocked /\ g \in Mature) /\ ~ui.run.cancel
           /\ g \notin Legacy
           /\ service' = [service EXCEPT !.installed = @ \cup {g}]
           /\ Result(TRUE, {}, TRUE)

RunUninstall ==
  /\ Running("Uninstall")
  /\ \/ Fails
     \/ /\ ui.run.job.game \in service.installed
        /\ service' = [service EXCEPT !.installed = @ \ {ui.run.job.game}]
        /\ Result(TRUE, {}, TRUE)

(* SyncRatings and SetRating: module NestRatings.                          *)
RunRatings ==
  /\ Running("Installed") \/ Running("Rating")
  /\ Result(TRUE, {}, FALSE) /\ UNCHANGED service

(* SetPin, Lock, and Unlock and RemovePin with the right digits or others. *)
RunParental ==
  LET done(pin, unlocked) ==
        /\ service' = [service EXCEPT !.pin = pin, !.unlocked = unlocked]
        /\ Result(TRUE, {}, FALSE)
  IN /\ Running("Parental")
     /\ \/ /\ ui.run.job.what = "set"
           /\ IF ServiceLocked THEN Fails ELSE done(TRUE, FALSE)
        \/ ui.run.job.what = "lock" /\ done(service.pin, FALSE)
        \/ /\ ui.run.job.what = "unlock"
           /\ Fails \/ (service.pin /\ done(TRUE, TRUE))
        \/ /\ ui.run.job.what = "remove"
           /\ Fails \/ (service.pin /\ done(FALSE, FALSE))

Worker ==
  \/ WorkerBegins \/ RunRefresh \/ RunCatalog \/ RunUpdates \/ RunManifest
  \/ RunImage \/ RunInstall \/ RunUninstall \/ RunRatings \/ RunParental

-----------------------------------------------------------------------------
(* PollNest, once in every iteration of the shell's loop.                  *)

Unlocks(r) == r.ok /\ r.job.what = "unlock" /\ r.current

LockedNow(force) == service.pin /\ (force \/ ~service.unlocked)

(* The result of the worker: what it says of the service, then what the    *)
(* view asked for.                                                         *)
Applied(s, r) ==
  LET force == s.force /\ ~Unlocks(r)
      visible == s.view = r.job.view /\ s.pending = None
      t == [s EXCEPT
              !.run = None,
              !.installed = service.installed, !.cached = service.cached,
              !.force = force, !.enabled = service.pin,
              !.locked = LockedNow(force),
              !.changed = @ \/ r.changed,
              !.error = IF visible /\ ~s.external THEN ~r.ok ELSE @]
      u == IF ~r.ok THEN t
           ELSE CASE r.job.kind = "Catalog" -> [t EXCEPT !.catalog = r.got]
                  [] r.job.kind = "Manifest" -> 
                           [t EXCEPT !.manifest = CHOOSE m \in r.got : TRUE]
                  [] r.job.kind = "Updates" -> [t EXCEPT !.updates = r.got]
                  [] OTHER -> t
      blocked == /\ u.locked /\ u.manifest # None /\ u.manifest.mature
                 /\ u.view = "Detail"
  IN [FilterMature(u) EXCEPT !.error = @ \/ blocked]

(* Mutant: a job that waits is forgotten.                                  *)
AfterResultAlone(s, r) == FetchImage(s)

AfterResult(s, r) ==
  IF s.pending # None THEN {Start(s, s.pending)}
  ELSE IF r.ok /\ r.job.kind \in {"Catalog", "Manifest", "Installed"}
    THEN FetchImage(s) ELSE {s}

Tick ==
  /\ ui.run # None /\ ui.run.step = "done"
  /\ ui' \in AfterResult(Applied(ui, ui.run), ui.run)
  /\ granted' = IF ui.run.ok /\ ui.run.job.kind = "Parental"
                  THEN ui.run.job.what = "unlock" /\ ui.run.current
                  ELSE granted
  /\ UNCHANGED service

ReportStatus(s, failed) ==
  [s EXCEPT !.external = failed, !.error = failed]

(* The shell scans the library for what was installed or removed.          *)
TakeLibraryChanged ==
  /\ ui.changed /\ ~Active(ui)
  /\ \E s \in {[ui EXCEPT !.changed = FALSE]} :
       Shows(s) \/ Shows(ReportStatus(s, TRUE))

(* The game is started, relocking Nest, and its end is reported to Nest;   *)
(* or the library does not know it.                                        *)
TakeLaunchPath ==
  /\ ui.launch # None
  /\ LET s == [Relock(ui) EXCEPT !.launch = None]
     IN \E failed \in BOOLEAN : ui' = ReportStatus(s, failed)
  /\ granted' = FALSE /\ UNCHANGED service

Poll == Tick \/ TakeLibraryChanged \/ TakeLaunchPath

Next == Player \/ Worker \/ Poll

Spec == Init /\ [][Next]_vars

(* The thread of a started job is scheduled, and requests time out; the    *)
(* shell polls Nest in every iteration of its loop.                        *)
Fairness == WF_vars(Worker) /\ WF_vars(Tick) /\
            WF_vars(TakeLibraryChanged) /\ WF_vars(TakeLaunchPath)

FairSpec == Spec /\ Fairness

-----------------------------------------------------------------------------
(* The games whose names or pictures Draw shows.                           *)
Shown ==
  IF ~ui.inNest \/ ui.external \/ Loading(ui)
     \/ (ui.error /\ ui.view \notin {"Parental", "Pin", "Transfer"}) THEN {}
  ELSE CASE ui.view = "Catalog" -> ui.catalog
         [] ui.view = "Installed" -> VisibleInstalled(ui)
         [] ui.view = "Updates" -> ui.updates
         [] ui.view = "Rating" -> {ui.rating}
         [] ui.view \in {"Detail", "Remove", "Transfer"} /\ ui.manifest # None
              -> {ui.manifest.game}
         [] OTHER -> {}

(* "Mature games stay hidden until you enter the PIN. Leaving Nest locks   *)
(* it."  Whatever results arrive late, for whatever view they were asked,  *)
(* no mature game is on the screen unless the PIN was given after the last *)
(* relock.                                                                 *)
MatureNeedsPin ==
  ui.enabled /\ ~granted => Shown \cap Mature = {}

(* "A queued catalog task must never be able to discard the session        *)
(* relock": a job started since the last relock, other than the one that   *)
(* locks, finds the service locked unless the PIN was given in between.    *)
RelockKept ==
  ui.run # None /\ ui.run.step = "run" /\ ui.run.current
      /\ ui.run.job.kind # "Refresh" /\ service.pin
    => granted \/ ~service.unlocked

(* Neither the screen nor the service forgets the lock.                    *)
LockHolds == MatureNeedsPin /\ RelockKept

Gone(kinds) ==
  /\ ui.pending # None /\ ui.pending.kind \in kinds
  /\ ui'.pending # ui.pending
  /\ ui'.run = None \/ ui'.run.job # ui.pending

(* An installation or a removal that waits for the worker is carried out:  *)
(* no other job takes its place.                                           *)
TransfersKept == [][~Gone({"Install", "Uninstall"})]_vars

(* When the player leaves the buttons alone, the worker comes to rest, the *)
(* library is refreshed and the game that was asked for is started.        *)
Settles ==
  <>[][Worker \/ Poll]_vars
    => <>[](~Active(ui) /\ ~ui.changed /\ ui.launch = None)
=============================================================================
