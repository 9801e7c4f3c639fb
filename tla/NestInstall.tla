---------------------------- MODULE NestInstall ----------------------------
(***************************************************************************)
(* Nest packages on disk: Service::Install, Uninstall and RefreshLaunchers *)
(* over the game directories, the library records (launcher and icon) and  *)
(* the registry installed_games.json.                                      *)
(*                                                                         *)
(* One worker thread runs one of them at a time.  Each rename or remove is *)
(* an action; every one of them may throw, a cancellation being one way    *)
(* to, and then the catch block undoes what was done, a step at a time.    *)
(* With "power" in Faults the device may be switched off between any two   *)
(* steps, with "rollback" the undoing may fail as well.                    *)
(***************************************************************************)
EXTENDS Naturals, FiniteSets

CONSTANTS
  Slugs,      \* names of game directories and of library records
  Versions,   \* complete packages of a game
  Manifests,  \* what the store offers: [slug, id, version]
  Faults,     \* subset of {"power", "rollback"}
  Foreign,    \* content of a directory or record Nest did not make
  Damaged,    \* content of a package that is not what the store published
  None

ASSUME InstallAssumption ==
  /\ Manifests \subseteq [slug : Slugs, id : Slugs, version : Versions]
  /\ Faults \subseteq {"power", "rollback"}
  /\ Foreign \notin Versions \cup {Damaged, None}
  /\ Damaged \notin Versions \cup {None}
  /\ None \notin Versions \cup Slugs \cup {"ok", "error", "unrestored", "lost"}
  /\ None \notin [version : Versions, format : {0, 1}]

VARIABLES
  payload,      \* [Slugs -> games_dir/<slug>]
  launcher,     \* [Slugs -> nest-<slug>.gbgame, by the version it is titled for]
  icon,         \* [Slugs -> nest-<slug>.png]
  registry,     \* installed_games.json
  leftover,     \* the package in the transaction directory the last operation
                \* abandoned; nothing reads those directories again
  pc,           \* next step of the operation; "idle" when there is none
  op,           \* the operation: kind, slug, registry key before, version
  games,        \* the registry as the operation loaded it
  fresh,        \* txn/package.zip, then txn/new
  old,          \* txn/old, or txn/game of an uninstallation
  oldLauncher,  \* what the record and its icon were
  oldIcon,
  movedNew,     \* moved_new
  todo,         \* games RefreshLaunchers has still to do
  outcome,      \* how the last operation ended
  before,       \* history: the disk when the operation began
  unsure        \* history: slugs an interrupted operation, an undoing that
                \* failed or a renaming has left, until they are installed again

library == <<payload, launcher, icon, registry>>
txn     == <<fresh, old, movedNew>>
saved   == <<games, oldLauncher, oldIcon>>
context == <<leftover, op, saved, todo, outcome, before, unsure>>
vars    == <<library, pc, txn, context>>

Library == [payload |-> payload, launcher |-> launcher, icon |-> icon,
            registry |-> registry]

Managed(s) == registry[s] # None /\ registry[s].format = 1

(* ValidateLauncherDestination: the record is Nest's or absent, and an     *)
(* icon without a record is taken for a file outside Nest.                 *)
OwnRecord(s) ==
  /\ launcher[s] # Foreign
  /\ icon[s] # None => launcher[s] # None

(* Nest may find a directory and a record of the user's under a slug, and  *)
(* a registration of a script package of an older Nest, whose payload is   *)
(* elsewhere or in the way.                                                *)
Init ==
  /\ payload \in [Slugs -> {None, Foreign}]
  /\ launcher \in [Slugs -> {None, Foreign}]
  /\ icon = [s \in Slugs |-> None]
  /\ registry \in [Slugs -> {None} \cup [version : Versions, format : {0}]]
  /\ leftover = None
  /\ pc = "idle" /\ op = None /\ games = None
  /\ fresh = None /\ old = None /\ movedNew = FALSE
  /\ oldLauncher = None /\ oldIcon = None
  /\ todo = {} /\ outcome = None
  /\ before = Library /\ unsure = {}

Begin(operation, step) ==
  /\ pc = "idle" /\ pc' = step
  /\ op' = operation
  /\ games' = registry
  /\ outcome' = None
  /\ before' = Library /\ leftover' = None
  /\ UNCHANGED <<library, txn, unsure>>

Unsure(result) ==
  IF op.kind = "refresh" THEN unsure
  ELSE CASE result \in {"unrestored", "lost"} ->
              unsure \cup ({op.slug, op.prev} \ {None})
         [] result = "ok" /\ op.kind = "install" ->
              (unsure \cup ({op.prev} \ {None})) \ {op.slug}
         [] OTHER -> unsure

(* What the operation held goes with it.                                   *)
End(result) ==
  /\ pc' = "idle" /\ outcome' = result
  /\ fresh' = None /\ old' = None /\ movedNew' = FALSE
  /\ games' = None /\ oldLauncher' = None /\ oldIcon' = None /\ todo' = {}
  /\ unsure' = Unsure(result)
  /\ UNCHANGED <<op, before>>

-----------------------------------------------------------------------------
(* Install.                                                                *)

(* The registration an installation replaces: that of the slug, else that  *)
(* of the store's id, under which games without a slug were installed.     *)
Previous(m) ==
  IF registry[m.slug] # None THEN m.slug
  ELSE IF registry[m.id] # None THEN m.id ELSE None

(* Mutant: any registration is taken for ownership of the directory.       *)
OwnsDirectoryRegistered(m) == Previous(m) # None

OwnsDirectory(m) ==
  LET p == Previous(m) IN p = m.slug /\ registry[p].format = 1

(* Up to the transaction directory: user files under the slug, or a user's *)
(* library record, refuse the installation.                                *)
BeginInstall(m) ==
  /\ OwnRecord(m.slug)
  /\ payload[m.slug] = None \/ OwnsDirectory(m)
  /\ Begin([kind |-> "install", slug |-> m.slug, prev |-> Previous(m),
            version |-> m.version], "download")
  /\ oldLauncher' = launcher[m.slug] /\ oldIcon' = icon[m.slug]
  /\ UNCHANGED todo

Download ==
  /\ pc = "download"
  /\ fresh' \in {op.version, Damaged}
  /\ pc' = "verify"
  /\ UNCHANGED <<library, old, movedNew, context>>

(* Size, SHA-256, extraction to txn/new and ReadPackage.                   *)
VerifyAndExtract ==
  /\ pc = "verify" /\ fresh = op.version
  /\ pc' = "moveold"
  /\ UNCHANGED <<library, txn, context>>

(* Mutant: the old package is removed to make room.                        *)
RemoveOld ==
  /\ pc = "moveold"
  /\ payload' = [payload EXCEPT ![op.slug] = None]
  /\ pc' = "movenew"
  /\ UNCHANGED <<launcher, icon, registry, txn, context>>

MoveOld ==
  /\ pc = "moveold"
  /\ old' = payload[op.slug]
  /\ payload' = [payload EXCEPT ![op.slug] = None]
  /\ pc' = "movenew"
  /\ UNCHANGED <<launcher, icon, registry, fresh, movedNew, context>>

MoveNew ==
  /\ pc = "movenew"
  /\ payload' = [payload EXCEPT ![op.slug] = fresh]
  /\ fresh' = None /\ movedNew' = TRUE
  /\ pc' = "launcher"
  /\ UNCHANGED <<launcher, icon, registry, old, context>>

(* WriteLauncher: the record, then the icon of the package.                *)
WriteLauncher ==
  /\ pc = "launcher"
  /\ launcher' = [launcher EXCEPT ![op.slug] = op.version]
  /\ pc' = "icon"
  /\ UNCHANGED <<payload, icon, registry, txn, context>>

CopyIcon ==
  /\ pc = "icon"
  /\ icon' = [icon EXCEPT ![op.slug] = payload[op.slug]]
  /\ pc' = "register"
  /\ UNCHANGED <<payload, launcher, registry, txn, context>>

Register ==
  /\ pc = "register"
  /\ registry' = [s \in Slugs |->
                    IF s = op.slug THEN [version |-> op.version, format |-> 1]
                    ELSE IF s = op.prev THEN None ELSE games[s]]
  /\ pc' = "cleanup"
  /\ UNCHANGED <<payload, launcher, icon, txn, context>>

-----------------------------------------------------------------------------
(* Uninstall.                                                              *)

BeginUninstall(s) ==
  /\ Managed(s) /\ OwnRecord(s)
  /\ Begin([kind |-> "uninstall", slug |-> s, prev |-> s,
            version |-> registry[s].version], "take")
  /\ oldLauncher' = launcher[s] /\ oldIcon' = icon[s]
  /\ UNCHANGED todo

(* A script package of an older Nest is only forgotten.                    *)
Forget(s) ==
  /\ registry[s] # None /\ registry[s].format = 0
  /\ Begin([kind |-> "uninstall", slug |-> s, prev |-> s,
            version |-> registry[s].version], "forget")
  /\ UNCHANGED <<oldLauncher, oldIcon, todo>>

SaveForgotten ==
  /\ pc = "forget"
  /\ registry' = [games EXCEPT ![op.slug] = None]
  /\ End("ok")
  /\ UNCHANGED <<payload, launcher, icon, leftover>>

TakeGame ==
  /\ pc = "take"
  /\ old' = payload[op.slug]
  /\ payload' = [payload EXCEPT ![op.slug] = None]
  /\ pc' = "unlaunch"
  /\ UNCHANGED <<launcher, icon, registry, fresh, movedNew, context>>

RemoveLauncher ==
  /\ pc = "unlaunch"
  /\ launcher' = [launcher EXCEPT ![op.slug] = None]
  /\ pc' = "unicon"
  /\ UNCHANGED <<payload, icon, registry, txn, context>>

RemoveIcon ==
  /\ pc = "unicon"
  /\ icon' = [icon EXCEPT ![op.slug] = None]
  /\ pc' = "unregister"
  /\ UNCHANGED <<payload, launcher, registry, txn, context>>

Unregister ==
  /\ pc = "unregister"
  /\ registry' = [games EXCEPT ![op.slug] = None]
  /\ pc' = "cleanup"
  /\ UNCHANGED <<payload, launcher, icon, txn, context>>

-----------------------------------------------------------------------------
(* The end of both, and their catch blocks.                                *)

(* remove_all(txn, error): nobody asks what it leaves behind.              *)
CleanUp ==
  /\ pc = "cleanup"
  /\ End("ok")
  /\ UNCHANGED <<library, leftover>>

(* Something throws before the registry is replaced.                       *)
InstallFails ==
  /\ pc \in {"download", "verify", "moveold", "movenew", "launcher", "icon", "register"}
  /\ pc' = "rollback"
  /\ UNCHANGED <<library, txn, context>>

UninstallFails ==
  /\ pc \in {"take", "unlaunch", "unicon", "unregister"}
  /\ pc' = "restore"
  /\ UNCHANGED <<library, txn, context>>

ForgetFails ==
  /\ pc = "forget"
  /\ End("error")
  /\ UNCHANGED <<library, leftover>>

RemoveNew ==
  /\ pc = "rollback"
  /\ payload' = IF movedNew THEN [payload EXCEPT ![op.slug] = None] ELSE payload
  /\ movedNew' = FALSE
  /\ pc' = "restore"
  /\ UNCHANGED <<launcher, icon, registry, fresh, old, context>>

RestoreOld ==
  /\ pc = "restore"
  /\ payload' = IF old # None THEN [payload EXCEPT ![op.slug] = old] ELSE payload
  /\ old' = None
  /\ pc' = "relaunch"
  /\ UNCHANGED <<launcher, icon, registry, fresh, movedNew, context>>

(* Mutant: only a record that is gone is put back.                         *)
RestoreLauncherIfGone ==
  /\ pc = "relaunch"
  /\ launcher' = IF launcher[op.slug] = None
                   THEN [launcher EXCEPT ![op.slug] = oldLauncher] ELSE launcher
  /\ pc' = "reicon"
  /\ UNCHANGED <<payload, icon, registry, txn, context>>

RestoreLauncher ==
  /\ pc = "relaunch"
  /\ launcher' = [launcher EXCEPT ![op.slug] = oldLauncher]
  /\ pc' = "reicon"
  /\ UNCHANGED <<payload, icon, registry, txn, context>>

(* Mutant: an icon there was not before is not removed.                    *)
RestoreIconOnlyOld ==
  /\ pc = "reicon"
  /\ icon' = IF oldIcon # None THEN [icon EXCEPT ![op.slug] = oldIcon] ELSE icon
  /\ End("error")
  /\ UNCHANGED <<payload, launcher, registry, leftover>>

(* The icon; then the transaction directory goes, and the error is thrown. *)
RestoreIcon ==
  /\ pc = "reicon"
  /\ icon' = [icon EXCEPT ![op.slug] = oldIcon]
  /\ End("error")
  /\ UNCHANGED <<payload, launcher, registry, leftover>>

-----------------------------------------------------------------------------
(* RefreshLaunchers.                                                       *)

BeginRefresh ==
  /\ Begin([kind |-> "refresh"], "refresh")
  /\ todo' = {s \in Slugs : Managed(s)}
  /\ UNCHANGED <<oldLauncher, oldIcon>>

(* WriteLauncher throws when the package cannot be read or the record is   *)
(* the user's.                                                             *)
RefreshLauncher(s) ==
  /\ pc = "refresh" /\ s \in todo
  /\ payload[s] # None /\ OwnRecord(s)
  /\ launcher' = [launcher EXCEPT ![s] = games[s].version]
  /\ op' = [kind |-> "refresh", slug |-> s]
  /\ pc' = "refreshicon"
  /\ UNCHANGED <<payload, icon, registry, leftover, txn, saved, todo, outcome,
                 before, unsure>>

RefreshIcon ==
  /\ pc = "refreshicon"
  /\ icon' = [icon EXCEPT ![op.slug] = payload[op.slug]]
  /\ todo' = todo \ {op.slug}
  /\ pc' = "refresh"
  /\ UNCHANGED <<payload, launcher, registry, leftover, op, txn, saved,
                 outcome, before, unsure>>

RefreshEnds ==
  /\ pc = "refresh" /\ todo = {}
  /\ registry' = games
  /\ End("ok")
  /\ UNCHANGED <<payload, launcher, icon, leftover>>

(* One game that cannot be refreshed ends it for those after it.           *)
RefreshFails ==
  /\ pc \in {"refresh", "refreshicon"}
  /\ End("error")
  /\ UNCHANGED <<library, leftover>>

-----------------------------------------------------------------------------
(* Faults.                                                                 *)

(* remove_all of a package that is cut short leaves a part of it.          *)
HalfRemoved ==
  {payload} \cup IF pc = "rollback" /\ movedNew
                   THEN {[payload EXCEPT ![op.slug] = Damaged]} ELSE {}

(* "Could not roll back installation; backup retained", or "restore".      *)
RollbackFails ==
  /\ "rollback" \in Faults
  /\ \/ pc = "rollback" /\ movedNew
     \/ pc = "restore" /\ old # None
  /\ payload' \in HalfRemoved /\ leftover' = old
  /\ End("unrestored")
  /\ UNCHANGED <<launcher, icon, registry>>

(* A record or icon that cannot be put back is passed over.                *)
RestoreFails ==
  /\ "rollback" \in Faults
  /\ pc \in {"relaunch", "reicon"}
  /\ End("unrestored")
  /\ UNCHANGED <<library, leftover>>

(* The transaction directory stays, and nothing looks for it.              *)
PowerLoss ==
  /\ "power" \in Faults
  /\ pc # "idle"
  /\ payload' \in HalfRemoved /\ leftover' = old
  /\ End("lost")
  /\ UNCHANGED <<launcher, icon, registry>>

-----------------------------------------------------------------------------
Install   == \/ \E m \in Manifests : BeginInstall(m)
             \/ Download \/ VerifyAndExtract \/ MoveOld \/ MoveNew
             \/ WriteLauncher \/ CopyIcon \/ Register \/ InstallFails
Uninstall == \/ \E s \in Slugs : BeginUninstall(s) \/ Forget(s)
             \/ SaveForgotten \/ TakeGame \/ RemoveLauncher \/ RemoveIcon
             \/ Unregister \/ UninstallFails \/ ForgetFails
Undo      == RemoveNew \/ RestoreOld \/ RestoreLauncher \/ RestoreIcon
Refresh   == \/ BeginRefresh \/ RefreshIcon \/ RefreshEnds \/ RefreshFails
             \/ \E s \in Slugs : RefreshLauncher(s)

Next == \/ Install \/ Uninstall \/ CleanUp \/ Undo \/ Refresh
        \/ RollbackFails \/ RestoreFails \/ PowerLoss

Spec == Init /\ [][Next]_vars

-----------------------------------------------------------------------------
(* Between operations the registry, the game directories and the library   *)
(* agree: a registered package has its payload, its record and its icon,   *)
(* all of the registered version, and what is not registered has none.     *)
(* Only a slug that an operation was cut off on, could not be put back, or *)
(* was renamed away from may differ, until it is installed again.          *)
Consistent ==
  pc = "idle" =>
    \A s \in Slugs \ unsure :
      LET content == {payload[s], launcher[s], icon[s]}
      IN IF Managed(s) THEN content = {registry[s].version}
         ELSE content \subseteq {None, Foreign}

(* "Cancellation or failure restores the previous package and              *)
(* registration": an operation that reports an error has changed nothing.  *)
FailureRestores ==
  pc = "idle" /\ outcome = "error" /\ op.kind # "refresh" => Library = before

(* An operation that reports success has done all it is for, whatever      *)
(* state earlier crashes and failures had left: an installed game is       *)
(* complete and registered in place of its predecessor, a removed one is   *)
(* gone, and after a refresh every registered game has its record.         *)
SuccessCompletes ==
  pc = "idle" /\ outcome = "ok" =>
    CASE op.kind = "install" ->
           /\ payload[op.slug] = op.version /\ launcher[op.slug] = op.version
           /\ icon[op.slug] = op.version
           /\ registry[op.slug] = [version |-> op.version, format |-> 1]
           /\ op.prev \notin {op.slug, None} => registry[op.prev] = None
      [] op.kind = "uninstall" ->
           /\ registry[op.slug] = None
           /\ before.registry[op.slug].format = 1 =>
                {payload[op.slug], launcher[op.slug], icon[op.slug]} = {None}
      [] op.kind = "refresh" ->
           \A s \in Slugs : Managed(s) =>
             launcher[s] = registry[s].version /\ icon[s] = payload[s]

(* No operation is half done, whatever it reports: everything or nothing.  *)
AllOrNothing == FailureRestores /\ SuccessCompletes

(* Until an operation has succeeded, the package it replaces or removes    *)
(* exists complete in the game directory or in a transaction directory:    *)
(* the "backup retained" of the error messages.                            *)
OldPackageKept ==
  op # None /\ op.kind # "refresh" /\ outcome # "ok" /\ pc # "cleanup" =>
    LET p == before.payload[op.slug]
    IN p \in Versions => p \in {payload[op.slug], old, leftover}

(* No operation touches a directory or a library record of the user's.     *)
ForeignKept ==
  [][\A s \in Slugs : /\ payload[s] = Foreign => payload'[s] = Foreign
                      /\ launcher[s] = Foreign => launcher'[s] = Foreign]_vars

=============================================================================
