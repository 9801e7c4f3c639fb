# GameBird Shell: TLA+ models and proofs

GameBird Shell is the launcher of a handheld console: a C++ program on a
Raspberry Pi with a 240x240 panel, a few helper programs it runs, and the
scripts that update the device. This directory models the parts of it whose
correctness depends on order, failure and interruption, checks them with TLC on
small instances and proves the central ones with TLAPS for every value of their
constants. Paths below are relative to the root of the repository.

## 1. The system

| Part | State it keeps | Operations | Talks to |
|---|---|---|---|
| Shell (`src/main.cpp`, `src/ui`) | `LibraryState`, `UIState`: the open screen, the game menu, pending actions | one event loop; slow actions are deferred flags, one performed per iteration | helper programs (blocking), scripts (polled), Nest (a worker thread) |
| Continue saves (`src/core/play_session.cpp`, `services/gblaunch`) | `continue/<game>-<identity>/{current.auto, previous.auto, state-name, manual/, run-*}`, `continue/result-<game>` | Prepare, run the game, Finish, report | the shell (argv, receipt file, exit status), RetroArch (argv, files) |
| Catalog (`src/db`) | SQLite: systems, roots, games, artwork, jobs | incremental scan, queries, favourites | gblibd and the shell, both through the same file |
| Library daemon (`services/gblibd`, `src/scrape`) | a snapshot of the ROM trees, the jobs table | poll, rescan, claim and run a job | catalog, providers |
| Nest service (`src/nest`) | `installed.json`, game directories, launchers, ratings, pending ratings, page cache, parental PIN | install, uninstall, update, rate, sync, lock, unlock | the store server, the catalog (launchers are ROMs of a system) |
| Nest screen (`src/ui/screens/nest.cpp`) | one running job, one pending job, view, lock epoch | buttons, Tick, Relock | Nest service on a worker thread |
| Updater (`scripts/gamebird-updater.sh`) | status file, installed/previous receipts, pending install | check, update, resume after reboot | apt, git, systemd; the update screen polls its status file |
| Input (`src/platform/input_evdev.cpp`) | open devices, grabs, held buttons, captures | poll, hotplug, release and acquire grabs | the shell, RetroArch's configuration |
| Presenters, rendering, battery, HUD, boot splash, TV mode | device handles, caches | drawing, sampling, install | hardware |

What makes the system hard to test is not its algorithms but its seams. The
device is switched off at any moment, most state is a handful of files that are
replaced one rename at a time, helpers die, servers do not answer, and one
worker thread serves a screen that the player has left. What has to hold in each
part:

* Continue saves: a save once promised is there, under a name the emulator
  finds, for the ROM and core it was made with, whatever dies when; and the menu
  tells the truth about it.
* Nest packages: a registered game has its payload and its launcher; a failed
  or interrupted install leaves the previous one.
* Ratings: stars given offline reach the server and are never overwritten by it.
* Nest screen: what is locked is not shown, an asked-for action is carried out
  or visibly refused, the screen never waits for nothing.
* Library: only a complete scan of a healthy root makes games disappear; a file
  that stays is found in the end; a job is carried out.
* Updater: a device is never left between two versions, and the screen shows a
  running update as running and a dead one as dead.
* Jobs: a queued job is run once and ends, and a picture that is shown exists.
* Screens: a list keeps its selection while it changes, nothing drawn is out of
  date, what is queued is done, B leads Home.
* Wi-Fi and Bluetooth: an action meets the network or device it was meant for,
  though it runs seconds after its button.
* Input: a game gets the controls and the shell gets them back; what was pressed
  for one does nothing to the other.

## 2. Modules, runs and plan

| Module | Models | Run | Proofs |
|---|---|---|---|
| `ContinueStore`, `PlaySession` | saves, launch helper, the shell's launch | `PlaySession`, `PlaySessionKeys` | `PlaySessionProofs` |
| `NestInstall` | packages on disk | `NestInstall` | `NestInstallProofs` |
| `NestRatings` | stars, queue, store | `NestRatings` | `NestRatingsProofs` |
| `NestController` | the Nest screen, its worker, the PIN | `NestController` | `NestControllerProofs` |
| `Library` | scans of drives that come and go, the daemon | `Library` | `LibraryProofs` |
| `LibraryJobs` | the job queue, artwork and metadata | `LibraryJobs` | `LibraryJobsProofs` |
| `Updater` | updater script, receipts, update screen | `Updater` | `UpdaterProofs` |
| `Shell` | screens, deferred actions, lists that change behind them | `Shell` | `ScreensProofs` |
| `Wireless` | Wi-Fi and Bluetooth screens | `Wireless` | `ScreensProofs` |
| `EvdevInput` | event devices, grabs, remapping, battery panel | `EvdevInput`, `EvdevInputPanel` | `ScreensProofs` |

`PlaySession` implements `ContinueStore`. The other modules meet where one
stands for another by a few actions: `Shell` has a scan of `Library`, a job of
`NestController` and a launch of `PlaySession` as one step each, `NestController`
has an installation of `NestInstall` as one result, `LibraryJobs` has a scan of
`Library` as one step, and `EvdevInput` has a game as two. `MC*` modules give
TLC functions and tuples that a configuration cannot. `Screens` has what the last
three modules share, the value that is nothing and the filtering of a list;
their definitions have different names, so that one module can prove about all.

Every run but `EvdevInputPanel` passes. History variables (`before`, `unsure`,
`torn`, `delayed`, `mislabelled`, `wanted`, `granted`, `missed`, `spoilt`, `sure`,
`asked`, `last`, `requested`, `aimed`, `steered`, `starter`, `gamePress`, the fields `steady`,
`ever` and `overtaken` of a scan, `gen` of a state, `new` of a hold, `refused` of an input
device) are read by properties only.

What the plan has left: an abstract version of the device that `Updater`
implements; a composition of two processes' scans with the lists of `Shell`; the
boot-splash installer and the HDMI monitor. No safety or action property of a
passing run is left without a theorem.

## 3. Continue saves: `ContinueStore`, `PlaySession`

`PlaySession` is one game on one device: the shell's menu and launch step
(`src/main.cpp` 1092-1143, 4901-4933, 5431-5463), `gblaunch`'s main, and
`PlaySession::Prepare` and `Finish`. Files are functions of the key (the hash of
ROM and core path, size and mtime that names the directory); a saved state is
the launch that wrote it, the basename it was written under and the ROM and core
that were running. Every `rename(2)` of `Finish` is an action of its own:

    FinishBegins  CopySlot*  SelectOutput  RotateBackup  WriteStateName  PromoteState

with a failing alternative beside each (`CopySlotsFails`, `SelectNothing`,
`SaveFails`), and `HelperKilled` and `PowerLoss` between any two. `Discard` is
the end of the helper's memory and of its staging directory: the staging
directory of a killed helper stays on disk in the program, but it has a fresh
name that nothing ever reads, so the model forgets it. `ReplaceFiles` is the
rest of the world putting other bytes under the same path.

Assumptions. A rename is durable and ordered with other renames: the code never
calls fsync, so on a file system that reorders them a power loss can do more
than the model says; a crash of processes alone cannot. There is one helper at a
time because the shell blocks in `waitpid`. A copy is atomic because it is made
under another name and renamed.

`ContinueStore` is the promise: per identity, the current state gives way only
to a newer one, never to nothing, and only when the backup already holds it.
`PlaySession` implements it with the same variables (`StoreSpec`).

| Run | Instance | Question |
|---|---|---|
| `PlaySession` | 1 identity, 2 basenames, 2 slots, 3 launches; 1.6 million states | every property of one identity. Three launches are the least in which a rotation, a crash inside it and a resume after it all happen; two basenames let RetroArch write the wrong one or both |
| `PlaySessionKeys` | 2 identities, 1 basename, 2 launches, fairness; 23 thousand states | states do not cross identities; the shell gets its menu back |

CHECK_DEADLOCK is FALSE because a bounded number of launches is the only thing
that ends a behaviour. Fairness: weak fairness of the helper's own steps
(including the game's end: a player stops playing) and of the shell's wait.
Both are single-threaded code between blocking calls that return; no fairness is
assumed of failures, kills or power loss.

Properties. `StateNameMatches`: state-name names what both saved states are,
after every rename and crash. `ResumesWhatWasSaved`: what RetroArch finds in the
staging directory is exactly the state the menu entry stands for.
`OnlyCleanExitPromotes` (proved, and left out of the runs): saved states change in
a launch only after a clean exit. `StatusIsTrue`: "Progress saved" is shown only when this launch's state is
current and its predecessor is the backup; the other reports on saves only when
the current state is the old one. ("Returned to menu" and "KILLED" say nothing
about saves: a receipt can be lost after a promotion, and the run shows it.)
`ManualSlotsKept`: the slots are kept also when the resume state is refused.
`TiedToIdentity`: the state was made by the ROM and core that now run it.

A gap. The README of the repository (line 152) ties states to the identity of
ROM and core. `Prepare` computes that identity and stages the state before
RetroArch opens the files; a file replaced in between is started on the old
state. With `ReplaceMidLaunch = TRUE` TLC shows the four steps; the runs here
have it FALSE, and `TiedToIdentity` holds on that condition.

### Proofs: `PlaySessionProofs`

For all `Keys`, `Names`, `Slots` and any number of launches, from
`PlayAssumption` and `NoneAssumption` (None is no state, number or message):
`TypeCorrect`, `StateNameCorrect`, `ResumeCorrect`, `OnlyCleanExitCorrect`,
`StatusCorrect`, `SlotsCorrect`, the refinement `StoreImplemented`, and
`TiedCorrect`: `TiedToIdentity` for any number of identities if
`ReplaceMidLaunch = FALSE`. That hypothesis is the gap above; without it the
property is false.

The invariant they rest on, `IInv`, says what the helper's variables mean in
terms of the files while it is under way: the name it holds is the one on disk
until it rewrites it (`NameInv`), what is staged is the seed unchanged or was
written by this launch, and every state on disk is older than the one about to
be promoted (`GenInv`), and once the backup is taken it is equal to the current
state until the promotion (`GenInv`, which is what the refinement needs). None
of the properties is inductive alone: `StateNameMatches` for instance is kept by
`WriteStateName` only because `SelectOutput` refused another name while there
was a current state. `TiedToIdentity` needs `KeyInv`: what lies under a key, in
the directory and in a staging directory, was written by that key's ROM and
core, and the game that runs is the one whose directory is being used.

`ShellReturns` (liveness) is model-checked only.

## 4. Nest packages: `NestInstall`

The state is what `Service` finds on disk: the registry `installed.json`, the
game directories, the launcher records and icons in the library, and the
transaction directory `.nest-txn-*` of a running installation. Each rename,
write and removal of `Install` (`src/nest/service.cpp` 946-1089), `Uninstall`
(1093-1127) and `RefreshLaunchers` (883-905) is an action, with the throw beside
it; `InstallFails` enters the catch block, whose steps `RemoveNew`,
`RestoreOld`, `RestoreLauncher` and `RestoreIcon` are actions too. `Faults`
adds power loss between any two steps ("power") and failures inside the catch
block ("rollback").

Assumptions. Renames are durable and ordered, as in section 3. The Nest worker
is the only writer. A package is a version, and always has an icon. Old `.sh`
launchers are not modelled, nor is an `AtomicText` that throws after its rename.
The checks of metadata and of the parental lock at the head of `Install` are
`NestController`'s. The order in which `RefreshLaunchers` visits the registry is
left open.

| Run | Instance | Question |
|---|---|---|
| `NestInstall` | a game, its update, its update under another slug; power loss and a failing undo; 1.2 million states | registry, directories and library agree (`Consistent`); an error has changed nothing and a success is complete (`AllOrNothing`); the old package is never destroyed before the new one is in place (`OldPackageKept`); files of the user's are never touched (`ForeignKept`) |

Two slugs and two versions are the least in which an update, a rename and a
foreign file can meet; the number of operations is not bounded. `unsure` holds
the slugs that a power loss, a failed undo or a renaming has left in pieces;
`Consistent` makes no claim for them until they are installed again, and
`OldPackageKept` holds for them as well.

Known gaps, all of them behaviours of the model that `unsure` excepts.
`docs/nest-packages.md:130` says "cancellation or failure restores the previous
package and registration". That is a catch block: after a power loss between the
renames of an update (1056, 1059) the old package lies in a transaction
directory that nothing reads, or a first installation in a directory that every
later one refuses as "unowned files" (973). An update under a new slug
(1063) leaves directory, record and icon of the old one, so that the library
shows the game twice. A power loss between the removal of a record and of its
icon (1121) makes Nest take its own icon for a file of the user's.

### Proofs: `NestInstallProofs`

For all `Slugs`, `Versions`, `Manifests` and both kinds of `Faults`, from
`InstallAssumption` (a manifest names slugs and versions; None, Foreign and
Damaged are none of what they stand beside): `TypeCorrect`, `ConsistentCorrect`,
`AllOrNothingCorrect`, `OldPackageCorrect` and `ForeignCorrect`. Every property
the run checks is proved.

The properties speak of the idle moments and of ends, so the invariant has to
say what holds at each of some twenty steps: an operation works on one slug and
has left all others as they were (`OperationInv`), the old package is in its
place or in the transaction directory according to the step (`PackageInv`), how
far record and icon are (`RecordInv`), that the registry is replaced last and
then everything else is done (`DoneInv`), and what a refresh has been through
(`RefreshInv`). `AgreeInv` carries consistency over an operation through the
history variable `before`: the undoing restores what was there, so that it is
consistent if that was. `OwnInv` (what is registered is Nest's, also for slugs
that are `unsure`) makes it safe to move and remove the directory of a registered
slug, which `Install` and `Uninstall` do without looking at whose it is.

## 5. Ratings: `NestRatings`, `NestRatingsProofs`

`local` is `ratings.json`, `pending` is `ratings_pending.json`, `server` what the
store has for this device. `Rate, Queue, SubmitNow, Dequeue` are the steps of
`SetRating` (1232-1246; zero stars are `RemoveRating`), `BeginSync, Push,
SavePushed, Fetch, Merge` those of `SyncRatings` (1199-1230). A request or its
answer may be lost; with "late" in `Faults` it may arrive after it was given up;
with "stop" a write throws or the power goes between any two steps.

| Run | Instance | Question |
|---|---|---|
| `NestRatings` | 2 games, 2 stars, 3 changes, requests lost and late, stops, fairness; 357 thousand states | `RatingsTrue`: the player's stars stay, what the store lacks is queued, thanks are true, but for a game whose last rating is spoiled; no synchronization loses a rating, but for one that was torn (`ImportLosesNone`); stars arrive in the end (`StarsArrive`) |

Two changes are needed for a newer rating to overtake an older one, three for a
removal after that; a second game for a synchronization that gets one through and not the other.

Fairness: the steps of a running job; the player goes on opening the installed
games (`WF(BeginSync)`); and strong fairness of a confirmed submission per game:
a store that is asked over and over answers now and then. The last two are what
"in the end" means here: nothing retries a rating unless the player opens the list.

Known gaps. `SetRating` writes the stars before the queue (line 1237). A stop
between the two leaves them unqueued (`torn`), and the next synchronization replaces
them by the store's old ones, against the comment at line 1217; when what the queue
still holds is a removal, it takes them away again. A request that the store handles
after a newer one brings the older stars back, because requests carry no order
(`delayed`). Both cost the rating of that game only, and only until it is rated again
(`Spoiled`): the properties hold for every other game, and wherever else a job is
stopped. `torn` is the one exception of `ImportLosesNone`; late requests cannot
break it, since `Merged` keeps what the store does not know.

Proved for all `Games`, `MaxStars` and `MaxChanges` and all `Faults`:
`TypeCorrect`, `ImportCorrect` and `StarsCorrect` (`RatingsTrue`), from
`RatingsAssumption`. The invariant says what a job is about and what its copy of the
queue means at each of its steps (`JobInv`), that each step finds what it needs
(`ReadyInv`), what the store is known to have (`StoreInv`, for games without a late
request), that a rating on the device is queued or on the store, except between the
two writes of `SetRating` (`SentInv`), and that a removal in the queue is the
player's last word, except there or after a stop there (`RemovedInv`). `RatingsTrue`
alone is not inductive, because `Merge` copies the store's answer:
it needs that an unqueued rating is the same on the store, from `Fetch` until
`Merge`. `StarsArrive` is model-checked only, being liveness.

## 6. Nest screen: `NestController`

`ui` is `NestController::Impl` (`src/ui/screens/nest.cpp` 187-252) and whether
the shell shows it; its functions `Start`, `FilterMature`, `Home`, `Relock`,
`Details`, ... are operators from such a record to the next, because one button
or one `Tick` calls several. Every button in every view is an action of
`Player`; a disabled button (`Loading`) is a guard. `run` is the future: the
worker thread starts (`WorkerBegins`, which takes `required_lock`), runs the job
(`RunCatalog`, `RunInstall`, ...) and waits to be taken by `Tick`. What the worker
reads of the service at its end is read by `Tick` in the model: no other job can
change it in between. `pending` is the one waiting job. `Tick`,
`TakeLibraryChanged` and `TakeLaunchPath` are the parts of `PollNest`
(`src/main.cpp` 3444).

Abstractions. The lock epoch is a flag of the running job: it is only compared
for equality, and only the job started before the change can differ. Selections
are existential choices, a page of the catalog is the whole store, errors are
there or not. Whether a picture is already cached is left open. Artwork, Filters
and Developer are left out. Two buttons handled in one iteration of the loop
before the poll are not modelled: with them a launch can be taken after the
player has gone on to another view.

| Run | Instance | Question |
|---|---|---|
| `NestController` | a mild game that no catalog describes and a mature one; fairness; 611 thousand states | what is locked is not shown and a relock is never lost in the service (`LockHolds`); a waiting installation is not replaced (`TransfersKept`); the screen settles (`Settles`) |

The state space is finite without bounds. `VIEW LiveState` identifies states
that differ only in fields that are overwritten before they are read; these
never decide which action is possible, so the properties, which do not name
them, are not affected. Deadlock is checked: the player can always do something.

Fairness: weak, of the worker (a thread that was started; requests time out) and
of each part of the poll (once per iteration). Nothing is assumed of the player.

`RelockKept`, the half of `LockHolds` about the service, is subtle. A relock may find an unlocking job on its way; that job
consumes `required_lock` when its thread starts, and unlocks afterwards. What
saves the session is that the relock's own job waits on the Home view, which is
loading until then, so that no button but B and Start reaches it; and a launch
relocks only when nothing of the parental view can be running.

Known gaps. `Start` keeps one waiting job and lets the next replace it (261). A PIN
that was confirmed, a lock that was asked for or a rating that was saved while
another job ran is dropped without a message when the player goes Home and on,
or leaves Nest; opening Nest starts the job that is in the way. `TransfersKept`
states what does hold: an installation or a removal is never replaced. A mature
legacy game opened offline gets a manifest that says it is not mature, and
`Mature` asks the manifest first (313): `LockHolds` is checked with mature games
that the catalog describes. B on the progress screen cancels the job that runs
(578), which is another one while the installation still waits. The manifest of
a game the player left can arrive under the details of another whose request
failed (796).

### Proofs: `NestControllerProofs`

For all `Games`, `Mature` and `Legacy`, from `ControllerAssumption`:
`TypeCorrect`, `TransfersCorrect`, `RelockCorrect` (the half of `LockHolds` about
the service) and, if no legacy game is mature (`Described`), `LockCorrect`
(`LockHolds`). That hypothesis is the gap of the mature legacy game above; the
code does not ensure it, so that it is no assumption of the module.

Neither half of `LockHolds` is inductive. The invariant `IInv` says of the
service that it is unlocked without the PIN only while a locking is due
(`needLock`, or a Refresh that has not ended) or an accepted PIN is still to be
taken (`UnlockedInv`); that a relock forces the screen's lock until a PIN that
was not outdated is accepted (`ForceInv`); that an outdated PIN has the relock's
own job waiting behind it and the player at Home (`PinInv`, the argument of the
paragraph above); and that the screen agrees with the service except while a PIN
is on its way (`SyncInv`). For the pictures and names, that the device knows
every game it lists (`KnownInv`) and that lists, manifest and rating hold nothing
mature while locked (`MatureInv`). The proof of `TransfersKept` shows that while
a transfer waits, only the progress screen's own button, the worker and the poll
can do anything. `Settles` is liveness and model-checked only.

## 7. Library: `Library`

One library root is a mount point: the directory on the card, which stays empty,
a drive, or nothing (`mounted`); `roms` are the games on the drive. `row` is the
root's row in `library_roots`, `catalog` says of each game whether it is listed,
present or marked missing. `scan` holds, per process, how far
`RunIncrementalScan` (`src/db/queries.cpp` 312-558) is: `BeginScan`,
`CountGames`, `StatRoot`, `OpenRoot`, `ReadEntry`, `EndOfRoot` or
`TraversalFails`, and `Commit`, which decides with `Outcome` and writes in
one transaction. `ScanFails` is a database that is busy. The daemon
(`services/gblibd/main.cpp` 278-318) is `DaemonStarts`, `TakeSnapshot`,
`NoticeChange`, and `AfterScan` when its scan ends; `RunScanJob` is a scan job of
the queue, `ShellScans` the shell's after a change by Nest. Outside are
`MoveDrive` (plugged and unplugged, at every step), `WriteDrive` (files copied
and deleted, also while the drive is elsewhere) and `DaemonStops`.

Abstractions: one root; games lie in system folders; files that are no games are
left out. `Listing` is the daemon's snapshot, in which the time of a directory
tells every copy and deletion.

| Run | Instance | Question |
|---|---|---|
| `Library` | 1 game, 3 events, fairness; 332 thousand states | a game that stays is not marked missing, nor one by a scan that does not get to open the drive, three cases apart (`CatalogKept`); a deleted one is forgotten (`DeletedForgotten`); the catalog catches up (`CatalogCurrent`) |

A scan decides for all games of the root together, so one game suffices, and
three events are the least for a drive that goes and comes back around a change.
Fairness: the daemon's loop and a scan go on; of scans tried over and over one
finds the database free (strong fairness of `CountGames` and `Commit`).

`CatalogCurrent` excepts what `missed` marks, and these are gaps of the code: a
change between the daemon's first scan and its snapshot (`main.cpp:304`); a first
scan that failed, which is not repeated; a scan of a root that could not be read,
which returns 0 so that the new listing is kept; a drive that moved during a
scan; and two scans at once, of which the one with the older picture may be the
last.

`CatalogKept` holds for a game that stays at the root without exception
(`SteadyKept`). Of a drive that is away, README.md:303-307 of the repository says
that "existing catalog entries remain available"; `OfflineKept` names the cases in
which the code contradicts it, each of which the run reaches:

* the drive is unplugged between the stat of the root (`queries.cpp:402`) and the
  opening of the directory (416): the empty mount point passes for the drive;
* the drive is plugged between the two, for instance during the daemon's first
  scan: its games are stored with the device of the mount point and status ok. The
  snapshot taken afterwards agrees with the drive, so that nothing scans again, and
  when the drive is unplugged later the empty mount point is the known device and
  every game is marked missing (`mislabelled`);
* a scan of the bare mount point fails: its state is an error, but with the mount
  point's device (line 413, not reset as at 482 or 493). The next scan that can
  read it marks the games missing (`mislabelled`);
* the two scanners overlap: a scan that was overtaken decides on the row and the
  games it read before, and what it stores may be the mount point's device
  (`overtaken`, `mislabelled`).

### Proofs: `LibraryProofs`

For all `Games` and `MaxEvents`, from `LibraryAssumption` (card and drive are
two devices, None is neither): `TypeCorrect`, `ScansCorrect`, `CatalogCorrect`
and `DeletedCorrect`. The properties are about a commit and speak of what was
at the root while the scan ran, so the invariant is about the scan, for each of
the two (`ScanInv`): what stayed there (`steady`) is there still and what is
there was seen in time by `ever`; what the scan met was there, on the drive; what
stayed has been met or will be until the traversal ends, and an unbroken traversal
has met all of it. `OfflineKept` needs two more: what a scan read of the database
still stands unless it was overtaken (`ReadInv`), and the row of a root with a game
that is present holds the drive's device unless `mislabelled` says why not
(`LabelInv`). Then a scan that found nothing makes the root ok only if the row
has the device it was told (`EmptyLemma`), which is the drive's or mislabelled.

The proof found `Outcome` written as a CASE whose guards overlapped, which leaves
the choice between them open where the code's `else if` does not; it is a chain
of conditions now. `CatalogCurrent` is liveness and model-checked only.

## 8. Jobs and artwork: `LibraryJobs`

`jobs` are the rows of the queue; the two workers, gblibd and the shell, claim
(`ClaimNextQueuedJob`), run and end them (`Ends`, `MarkLost` when the end cannot
be written). A scan job is one step, since `Library` has its inside; identify,
artwork index and scrape go game by game (`src/scrape/jobs.cpp` 50-269), and the
scrape's download, rename, and record of the picture are actions with their
failures (`provider_libretro.cpp` 274-305). The shell scrapes also without a job
(`StartScrape`, `CancelScrape`). `Dies` ends a worker anywhere; `PutPicture` and
`DeletePicture` are the player over Samba; `RefreshNestLibrary` makes Nest's icon
the picture of its games. Games stay present; `--jobs-once` counts as a worker;
Nest games have icons.

| Run | Instance | Question |
|---|---|---|
| `LibraryJobs` | 1 game of Nest's, 2 jobs of any kind, 2 mishaps, fairness; 275 thousand states | a job is run by one worker (`ClaimedOnce`); a picture that is shown exists (`ShownArtExists`); a queued job ends or was left by a worker that died (`JobsEnd`) |

Two jobs are needed for both workers to be busy, and for one to be stuck behind
another. Fairness: a worker's steps, and strong fairness of the daemon's claim
(the database may be locked now and then).

Gaps that the model contains: a job left running is never queued again; a
picture that the player copied after the scrape listed its games, or that is not
indexed yet, is replaced, against the comment at `src/main.cpp:2330`; two scrapes
of one game share the temporary file, which the one renames and the other removes
when its own download fails (290): whoever comes to install then finds no file and removes
the picture that is there (`spoilt` excepts it); identification writes its guess over metadata scraped
meanwhile; when gblibd claims the job the shell has just queued, the shell
reports an empty result.

### Proofs: `LibraryJobsProofs`

For all `Games`, `NestGames`, `Types`, `MaxJobs` and `MaxEvents`, from
`LibraryJobsAssumption`: `TypeCorrect`, `ClaimCorrect` and `ShownArtCorrect`.
`ClaimedOnce` is inductive with the types. `ShownArtExists` is not: the record of
a picture is written a step after the file, and `BoxInv` says that a scrape
about to write it has its picture in place unless the player or another
scrape of the game has taken it (`spoilt`). `JobsEnd` is model-checked only.

## 9. Updater: `Updater`

`script` is a run of `scripts/gamebird-updater.sh`, started by the timer or the
screen (`StartUnit`: the units conflict, so that it stops the other). Checking is
`CheckBegins`, `CheckEnds`; installing is `InstallBegins`, `InstallPackages`,
`Build`, `InstallFile` for each file of `install_shell_payload`, `WriteReceipt`,
`Verify`, `RequestReboot`; `ScriptFails` is the error trap at any step. `disk`
says of which commit each file is, or that it was torn or altered (`Foreign`, with
the history whether files were being installed then); `receipt` and `pending` are
the two receipts, `status` the status file. `PayloadCommit` compares as
`payload_commit` does: what is on disk with what was summed, right or wrong.
`PowerLoss`, `Reboot`, `Alter` (another change of the
installed files) and `Publish` may come at any step. The screen
(`src/main.cpp` 1338-1501) asks (`StartUpdateAction`), starts
(`DispatchUpdateAction`), waits (`SystemctlEnds`, `NoResponse` after 30 seconds)
and reads (`ReadUpdateStatus`).

Abstractions: the phases BUILDING and DOWNLOADING are part of PREPARING and
INSTALLING, the inner and the outer ERROR are one write, time limits may pass at
any time, a status exists when an installation starts, the order in which a file
system writes its caches is not modelled, and files that the receipt does not
cover are left out.

| Run | Instance | Question |
|---|---|---|
| `Updater` | 2 commits, 2 restarts, 4 runs of the script, 1 accident, fairness; 545 thousand states | a version the receipts tell is that of every file, but for those altered before the receipt (`VersionTrue`); a lost installation is reported before anything is offered (`LossReported`); a busy screen becomes usable again (`ScreenFrees`) |

Two restarts separate the boot of an installation, the one after it and a later
check; four runs let the timer stop an installation and another begin.
Fairness: the script's process goes on or fails, systemctl returns or the time
limit passes, and the loop reads the status file.

Gaps that the model contains: the receipt certifies what it finds, so that a file
that something else alters between its installation and the sums of line 259 is
reported as the version, which `VersionTrue` excepts by name (`Foreign(TRUE)`);
the timer's check stops an installation that is running, at any file of it; an installation started in the second after a check
wrote CHECKING finds no offer and reports CURRENT; the screen does not know the
phase INSTALLING BOOT SPLASH (script line 213) and is usable while it lasts.

### Proofs: `UpdaterProofs`

For any `Commits` and any number of restarts, runs and accidents, from
`UpdaterAssumption`: `TypeCorrect`, `VersionCorrect` and `LossCorrect`.
`VersionTrue` compares receipt and files, and needs to know what a
receipt can look like (`ReceiptInv`: one version, but for files altered before
it was written) and how far an installation has come (`FilesInv`: the files it
has been through are of its version, or were altered while it ran). A file that is
torn or altered at any other time is like no file that was summed, so the receipts
do not match; and until a new receipt is written the first file an installation
replaced contradicts the old one. `LossReported` needs `SureInv`: what is not confirmed is on record
in `pending`, and no check is past its first step meanwhile. `ScreenFrees` is
liveness and model-checked only.

## 10. The shell: `Shell`

One pass of the loop of `RunUiLoop` (`src/main.cpp` 5137-5500) is a cycle of
`phase`: every button that has arrived (`ShellButtons`, an action per screen and
button), then at most one of the slow actions, each of which may end the pass
(`RunTool`, `BeginScrape`), the poll of Nest (`PollNest`), the periodic reload
(`RefreshLibrary`, or `NotDue`), a slice of a scrape (`ScrapeNext`), Wi-Fi and
Bluetooth (`ExecuteRadio`), a launch (`Launch`, `LaunchRetroArch`) and the
picture (`DrawScreen`). `catalog` is the database and the drive, changed by
`FileChanges`, `DaemonScans`, `SystemAppears` and Nest (`NestJobEnds`); `cards`,
`list`, `cont`, `menu` and `details` are the shell's copies of it. `Leave`
is a player who from then on presses nothing but B.

Abstractions: rows of fixed menus are chosen directly; the environment changes
between passes only; a database that cannot be read is modelled for the periodic
reload only; the options edited on their screens, provider and diagnostics
toggles, the saving of the browsing place on disk and busy updates are left out;
the art of the Details screen may be up to two seconds old after Hide.

| Run | Instance | Question |
|---|---|---|
| `Shell` | 2 games, 2 consoles, 5 buttons, 1 change, fairness; 818 thousand states | a selection stays on its game (`SelectionKept`), Browse returns (`BrowseReturns`), what changes is drawn (`NothingStale`), launches are as asked for (`LaunchAsAsked`), what is queued is done (`QueueEmpties`), B leads Home (`BackReachesHome`) |

Five buttons reach every screen and every pair of return screens; a second game
and a second console are the least with an order that can change. Fairness: the
loop goes on; for `BackReachesHome`, the player who leaves presses B again and
again (strong, since B counts only while buttons are handled).

Gaps that the model contains: when several buttons come in one pass and a launch
waits, `system_selected` and `current_system` can name different consoles; a
change reported by a Nest job after the player has left loads the details of the
list's game even when the Details screen shows another (3440).

A third gap was found by the proof of `LaunchAsAsked`. When a Nest job ends in a
launch, `PollNest` replaces the id of the menu's game and not its name (3472-3474),
also when the menu is open for another game and a Wi-Fi or Bluetooth action holds
the launch back. "Play" in that menu then starts Nest's game with the mode chosen
there (3644). It takes nine buttons, four more than the run: Tools, a radio
action, Tools again and back, Nest, play there, leave, the menu of the Continue
card, play. TLC finds it when those buttons are the only ones allowed. The
property therefore excepts it by name (`TakesAnothersMode`), and only it: a game
of Nest's, asked for, with a mode that was asked for.

### Proofs: the screens

For any games, consoles, catalogs, modes, buttons and changes, by three
inductive invariants of `ScreensProofs`:

- `ShellTypes`: the lists of the catalog and of the shell have no entry twice and
  the row selected is one of them (a list that was emptied keeps its row, and
  nothing reads it). With it `SelectionStays` is a fact about one reload: the row
  remembered by its game is found again, and the clamped one is used only when the
  game is gone. `PictureStaysTrue` needs no more: each step keeps what is drawn or
  asks for a picture, and a reload that asks for none has changed nothing visible.
- `ReturnInv`: on a browsing screen that screen is what was shown last; elsewhere
  what is remembered (`browse.screen`, the view and the key of the list) leads to
  it; and after the buttons of a pass the two agree, so that a launch from the list
  may leave it. `BrowseComesBack` follows from its second part.
- `AskInv`: the launch that waits was asked for, or is the exception; the menu's
  game differs from the one it shows only when Nest asked for it; and when the loop
  gets to the launches Nest has none left to hand over. `LaunchesAsAsked` follows
  from its last part.

The theorems are of `ShellSpec`, which `ShellFairSpec` implies.

## 11. Wi-Fi and Bluetooth: `Wireless`

`wifi` and `bt` are the shell's members for the two screens, `page` the open one,
`queued` the queued actions, `air` and `radio` the surroundings. Buttons are actions per view;
`ExecuteWifiAction` and `ExecuteBluetoothAction` (`src/main.cpp` 2577-3121) are what the loop
runs later, with a failure each; between two passes the surroundings may change.
A character of the password is the network it was typed for, `None` stands for the
zero byte that the last key of the third page adds.

Abstractions: pages and letters of the keyboards are counts, the signal order of
a scan is arbitrary, a country is a count of letters, texts and the flags shown
in lists are left out; Start and Select, which leave the screens, are in `Shell`.

| Run | Instance | Question |
|---|---|---|
| `Wireless` | 2 networks, 2 paired devices, 7 buttons, 1 change; 1.35 million states | the unchecked selection is in range on the overview and the two keyboards (`IndexInRange`); a password is sent and extended only for its network (`PasswordOwn`); a queued action meets the device it was queued for (`ActsOnSelected`); only the device whose dialog asked for it is forgotten, with one exception (`ForgetConfirmed`) |

Both devices are paired from the start, so that there are two to confuse. Seven buttons suffice to choose a network, type, fail, choose another and send;
and to open a dialog, cancel it, move and confirm another.

Gaps that the model contains: the third page of characters is one short (4056),
so that its last key adds a zero byte and the connection fails; a password sent
while another Wi-Fi action waits is refused, but the keyboard closes (4069); a
direction pressed in the same pass of the loop moves a queued Bluetooth action to
another device (`steered` excepts it); while a removal of one device waits, a dialog for
another that is confirmed sets `bluetooth_pending_address` (3512) before the queue
answers "Bluetooth busy" (3126), so that the second device is forgotten and the first is
not (`refused` in `requested` excepts it; without the exception TLC refutes
`ForgetConfirmed`); a `bluetoothctl` query that fails is read as one that found nothing
and empties the list (`Found`, 2777-2827). Outside the model: `ShellQuote`
(2526-2536) writes an apostrophe as `'\"'\"'`, so that a network or a password
with an apostrophe cannot be connected to.

### Proofs: the wireless screens

For any finite set of networks, any list of devices, keyboards of any size with
more keys than columns, and any number of buttons:

- `IndexStaysInRange` and `PasswordStaysOwn` by `WifiInv`: the shape of the
  screen's state, the two properties themselves for that state, and surroundings
  that are networks. A scan takes any order of the networks around it: all that is
  needed is that the result is a list.
- `ActionsMeetSelected` and `ForgottenConfirmed` by `BtInv`: the lists, selections
  and queue keep their shape, the address kept for a pending removal is the one that was
  asked for, or refused, last (`AddressRequested`), and what is queued meets what was
  aimed at. A step of the loop either leaves the lists and the filter or takes the queued
  action with it; a button that moves either is one that `steered` records.

What the filter keeps (`KeptList`: the elements in the set, none twice if none was)
is proved by induction over the length of the list. The library's induction rules
have an operator for a parameter; `Induction` is that rule for a set of numbers
instead, from the least number outside it.

## 12. Input: `EvdevInput`

`plugged` is what is at each path of `/dev/input`, `devs` what the shell has open
there, with its grab and the queue the kernel keeps for it; `PollDevices` is the
probe of every second (`src/platform/input_evdev.cpp` 435-512, 758-966), which opens,
grabs and removes; `RunGame` (which gives the grabs up) and `GameEnds` (which
takes them again) are a launch. Opening and grabbing may fail at any attempt (`Outcomes`): a path that
could not be opened is tried again by the next probe, a device that could not be grabbed stays
open and is tried again only after the next game (297-301, 347-352, 1006-1013). A held key of a
keyboard repeats (`RepeatKey`), which the shell takes for presses (851, 858). `HandleEvent` is the loop (`src/main.cpp` 4930-5290): the remapping
(`BeginCapture`, its arming, its steps), the profiles, the 1.2 seconds after a game in
which events are skipped, and Start held for the battery panel.

Abstractions: keys only (axes, hats and triggers become keys in the code); the
time a key is held is left open; the first poll after a game is within the 1.2
seconds; the kernel repeats the last key pressed, the model any that is held; a probe
sees what is plugged (one that cannot open its device would leave it out for a second);
RetroArch's bindings and files, the order of players, TV mode, Bluetooth off, ESC
and SDL are left out. The events of one poll are
handled device by device in the code, in the order the devices were opened in;
the model keeps the order of each device only.

| Run | Instance | Question |
|---|---|---|
| `EvdevInput` | a gamepad and a keyboard on two paths, 3 keys, repeats or unpluggings, 1 game, openings and grabs that fail, fairness; 749 thousand states | a game gets the controls (`GamesHaveControls`); what was pressed or repeated while it ran does nothing afterwards (`GameInputIgnored`); the release of the first button assigns nothing (`OwnReleaseFree`); the controls are in the end open and listed again, and grabbed if the grab did not fail (`ControlsReturn`) |
| `EvdevInputPanel` | the same, nothing can be unplugged | violation: see below |

Three moves are the least for a device replaced by another on its path, and for
a key held over a launch and released after it. Fairness: the loop handles what
it has read, and probes once a second; opening a device that stays plugged in does not
fail at every probe for ever. Nothing is assumed of grabs.

Finding. README.md:260-261 of the repository says "Releasing Start hides the held
panel." The loop skips every event, releases included, for 1.2 seconds after a game
(5170): Start held at a launch and let go in that time leaves the panel on
and Up and Down on the volume, until Start is pressed and released again
(`EvdevInputPanel`). A release during a remapping, or lost with an unplugged
device, does the same.

Other gaps that the model contains: while a remapping is on, events of other
devices are answered with "Use device" (4990); when its device is unplugged,
the screen cannot be left until it returns. The hold of Start is one for all
devices (5231): when two keys mean Start, the release of one that was pressed in
a game is taken for that of the other, pressed since, and may act as it would.
`GameInputIgnored` excepts that case by `hold.new`; without the exception TLC
refutes it with a second device that has a Start. A key of a keyboard that was pressed in a game
and is held past the 1.2 seconds repeats then, and the repeats act on the menu: the
property judges each press and repeat by the moment it is made in. A key that was pressed in a game
and is let go into a remapping of its device, begun since, is assigned as any other
(5022-5092), which takes four keys and so lies beyond the run's bound; the property
excepts it by `Remapping`. A device whose grab failed is open and ungrabbed, so
that others read it too, until the next game ends (`refused` in `Ours`; without it TLC
refutes `ControlsReturn`).

### Proofs: the input

For any ports, devices, keys, scores, capture order
and bounds (`ScreensProofs`): `InputTypesCorrect`, `ControlsCorrect`, `IgnoredCorrect` and
`OwnReleaseCorrect`. The inductive invariant adds to the properties and the types:

- `PlayInv`: input is ignored only between games, no launch waits while it is, and
  no game starts before all that was read is handled;
- `QueueInv`: a press made in a game is in a queue of the kernel only until the
  first poll after the game, and among the events read only while input is
  ignored, which is why no press of a game is ever handled otherwise;
- `HoldInv`: a hold of Start that may still be short began after the last game,
  because the ignored time is longer than a short press; a release handled later
  therefore does nothing;
- `ArmInv`: a remapping whose first button has not been answered yet waits for it,
  however often the button repeats.

The queues are functions of the paths, not one joined sequence, so that no fact
about a recursive function is needed. The assumptions used are that the ports are
a sequence, that the keys and the capture order name buttons, and that `None` is
neither a device nor a pair of a device and a button.

## 13. What is only model-checked, and what is not modelled

Proved are the theorems of sections 3 to 12, which state every safety and action
property of the passing runs, and the refinement of `ContinueStore`; each module's
types are proved too, as a theorem or as the first part of its inductive invariant. Two theorems have a
hypothesis besides the assumptions on constants: `TiedCorrect`
(`ReplaceMidLaunch = FALSE`) and `LockCorrect` (`Described`), both explained
there, both satisfied by the instance that TLC checks.

Model-checked only, on the instances above: liveness (`ShellReturns`, `StarsArrive`, `Settles`,
`CatalogCurrent`, `JobsEnd`, `ScreenFrees`, `QueueEmpties`, `BackReachesHome`,
`ControlsReturn`), which is out of the provers'
reach.

Not modelled, with the reasons in PROJECT.json: drawing, presenters, battery and
HUD (input and output without state that the properties depend on); HTTP, JSON
and the page cache of Nest; the matching of names to artwork and DAT files
(string work over outside data); settings and the merging of launch options
(sequential, without interleaving or failure halfway); the RetroArch files
written for input devices; the boot splash, TV mode and the scripts that set up
the read-only root (run once, by hand or by systemd, on hardware).
