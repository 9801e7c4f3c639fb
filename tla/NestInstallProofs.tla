------------------------- MODULE NestInstallProofs -------------------------
(***************************************************************************)
(* The packages of NestInstall, proved for every set of slugs, versions    *)
(* and offers of the store, with failures, cancellations, power losses and *)
(* undoings that fail at every step: what an operation leaves behind.      *)
(***************************************************************************)
EXTENDS NestInstall, TLAPS

Contents == Versions \cup {Foreign, Damaged, None}
Records == Versions \cup {Foreign, None}
Registrations == [version : Versions, format : {0, 1}]
Libraries ==
  [payload : [Slugs -> Contents], launcher : [Slugs -> Records], icon : [Slugs -> Contents],
   registry : [Slugs -> Registrations \cup {None}]]
Operations ==
  [kind : {"install", "uninstall"}, slug : Slugs, prev : Slugs \cup {None}, version : Versions]

InstallSteps == {"download", "verify", "moveold", "movenew", "launcher", "icon", "register"}
UninstallSteps == {"take", "unlaunch", "unicon", "unregister"}
UndoSteps == {"rollback", "restore", "relaunch", "reicon"}
Busy == InstallSteps \cup UninstallSteps \cup UndoSteps \cup {"forget", "cleanup"}
Refreshing == {"refresh", "refreshicon"}

TypeInv ==
  /\ Library \in Libraries /\ before \in Libraries
  /\ pc \in {"idle"} \cup Busy \cup Refreshing
  /\ fresh \in Contents /\ old \in Contents /\ leftover \in Contents /\ movedNew \in BOOLEAN
  /\ pc \in Busy => op \in Operations
  /\ pc \in Busy \ {"forget"} => oldLauncher = before.launcher[op.slug] /\
                                 oldIcon = before.icon[op.slug]
  /\ outcome \in {None, "ok", "error", "unrestored", "lost"} /\ unsure \subseteq Slugs

(* What holds of an operation at any of its steps: it has loaded the       *)
(* registry and not replaced it, it works on one slug, and that slug's     *)
(* directory and record are Nest's, or absent.                             *)
OperationInv ==
  pc \in Busy =>
    /\ games = before.registry /\ outcome = None
    /\ pc # "cleanup" => registry = before.registry
    /\ \A s \in Slugs \ {op.slug} :
         payload[s] = before.payload[s] /\ launcher[s] = before.launcher[s] /\
         icon[s] = before.icon[s]
    /\ pc # "forget" => /\ before.payload[op.slug] # Foreign
                        /\ before.launcher[op.slug] # Foreign
                        /\ launcher[op.slug] \in {before.launcher[op.slug], op.version, None}
    /\ pc \in InstallSteps \cup {"rollback"} => op.kind = "install"
    /\ pc \in UninstallSteps \cup {"forget"} => op.kind = "uninstall"
    /\ pc = "forget" => before.registry[op.slug].format = 0

(* The old package is in its place or in the transaction directory.        *)
InPlace == payload[op.slug] = before.payload[op.slug] /\ old = None
Away == payload[op.slug] = None /\ old = before.payload[op.slug]
Replaced == payload[op.slug] = op.version /\ old = before.payload[op.slug]

PackageInv ==
  /\ pc \in {"idle"} \cup Refreshing => old = None /\ fresh = None /\ movedNew = FALSE
  /\ pc \in {"download", "verify", "moveold", "take", "forget"} => InPlace
  /\ pc \in {"movenew", "unlaunch", "unicon", "unregister"} => Away
  /\ pc \in {"launcher", "icon", "register"} => movedNew /\ Replaced
  /\ pc = "rollback" => IF movedNew THEN Replaced ELSE InPlace \/ Away
  /\ pc = "restore" => InPlace \/ Away
  /\ pc \in {"relaunch", "reicon"} => payload[op.slug] = before.payload[op.slug]
  /\ pc = "cleanup" => old = before.payload[op.slug]
  /\ pc \in {"download", "verify", "moveold", "movenew"} => ~movedNew
  /\ pc \in {"moveold", "movenew"} => fresh = op.version

(* How far the record and its icon are.                                    *)
RecordInv ==
  /\ pc \in {"download", "verify", "moveold", "movenew", "launcher", "take", "unlaunch", "forget"} =>
       launcher[op.slug] = before.launcher[op.slug] /\ icon[op.slug] = before.icon[op.slug]
  /\ pc = "icon" => launcher[op.slug] = op.version
  /\ pc = "register" => launcher[op.slug] = op.version /\ icon[op.slug] = op.version
  /\ pc = "unicon" => launcher[op.slug] = None
  /\ pc = "unregister" => launcher[op.slug] = None /\ icon[op.slug] = None
  /\ pc = "reicon" => launcher[op.slug] = before.launcher[op.slug]

(* An operation that has replaced the registry is complete.                *)
DoneInv ==
  pc = "cleanup" =>
    \/ /\ op.kind = "install"
       /\ payload[op.slug] = op.version /\ launcher[op.slug] = op.version
       /\ icon[op.slug] = op.version
       /\ registry = [s \in Slugs |->
                        IF s = op.slug THEN [version |-> op.version, format |-> 1]
                        ELSE IF s = op.prev THEN None ELSE before.registry[s]]
    \/ /\ op.kind = "uninstall"
       /\ payload[op.slug] = None /\ launcher[op.slug] = None /\ icon[op.slug] = None
       /\ registry = [before.registry EXCEPT ![op.slug] = None]

(* What a refresh has been through has its record.                         *)
RefreshInv ==
  /\ pc \in Refreshing =>
       /\ op.kind = "refresh" /\ games = registry /\ outcome = None
       /\ todo \subseteq Slugs /\ \A s \in todo : Managed(s)
       /\ \A s \in Slugs \ todo :
            Managed(s) => launcher[s] = registry[s].version /\ icon[s] = payload[s]
  /\ pc = "refreshicon" => op.slug \in todo /\ launcher[op.slug] = registry[op.slug].version

(* A package, its record and its registration in the library lib agree.    *)
Agrees(lib, s) ==
  LET content == {lib.payload[s], lib.launcher[s], lib.icon[s]}
  IN IF lib.registry[s] # None /\ lib.registry[s].format = 1
       THEN content = {lib.registry[s].version}
     ELSE content \subseteq {None, Foreign}

(* They agree between operations, and agreed before the one that is under  *)
(* way; a refresh keeps them.                                              *)
AgreeInv ==
  /\ pc \in {"idle"} \cup Refreshing => \A s \in Slugs \ unsure : Agrees(Library, s)
  /\ pc \in Busy => \A s \in Slugs \ unsure : Agrees(before, s)

(* What is registered is Nest's, also where an operation was cut off.      *)
OwnInv == \A s \in Slugs : Managed(s) => payload[s] # Foreign

(* What the last operation has left behind.                                *)
IdleInv ==
  pc = "idle" =>
    /\ outcome = None => op = None
    /\ FailureRestores /\ SuccessCompletes /\ OldPackageKept

IInv ==
  /\ TypeInv /\ OperationInv /\ PackageInv /\ RecordInv /\ DoneInv /\ RefreshInv
  /\ AgreeInv /\ OwnInv /\ IdleInv

-----------------------------------------------------------------------------
(* Shapes.                                                                 *)

LEMMA LibraryTyped ==
  Library \in Libraries <=>
    /\ payload \in [Slugs -> Contents] /\ launcher \in [Slugs -> Records]
    /\ icon \in [Slugs -> Contents] /\ registry \in [Slugs -> Registrations \cup {None}]
BY DEF Library, Libraries

(* What the proofs take from TypeInv.                                      *)
LEMMA ShapesLemma ==
  ASSUME TypeInv
  PROVE  /\ payload \in [Slugs -> Contents] /\ launcher \in [Slugs -> Records]
         /\ icon \in [Slugs -> Contents] /\ registry \in [Slugs -> Registrations \cup {None}]
         /\ before.payload \in [Slugs -> Contents] /\ before.launcher \in [Slugs -> Records]
         /\ before.icon \in [Slugs -> Contents]
         /\ before.registry \in [Slugs -> Registrations \cup {None}]
         /\ fresh \in Contents /\ old \in Contents /\ None \in Contents
         /\ Versions \subseteq Contents /\ Damaged \in Contents
         /\ None \in Records /\ Versions \subseteq Records /\ Records \subseteq Contents
         /\ pc \in Busy => /\ op \in Operations /\ op.slug \in Slugs /\ op.version \in Versions
                           /\ op.prev \in Slugs \cup {None} /\ op.kind \in {"install", "uninstall"}
                           /\ op.kind # "refresh"
<1>1. before \in Libraries /\ Library \in Libraries
  BY DEF TypeInv
<1>2. /\ before.payload \in [Slugs -> Contents] /\ before.launcher \in [Slugs -> Records]
      /\ before.icon \in [Slugs -> Contents]
      /\ before.registry \in [Slugs -> Registrations \cup {None}]
  BY <1>1 DEF Libraries
<1> QED
  BY <1>1, <1>2, LibraryTyped DEF TypeInv, Operations, Contents, Records

LEMMA InitIInv == Init => IInv
<1> SUFFICES ASSUME Init PROVE IInv
  OBVIOUS
<1>1. Library \in Libraries
  BY LibraryTyped DEF Init, Contents, Records, Registrations
<1>2. TypeInv
  BY <1>1 DEF Init, TypeInv, Contents, Busy, InstallSteps, UninstallSteps, UndoSteps
<1>3. OperationInv /\ PackageInv /\ RecordInv /\ DoneInv /\ RefreshInv
  BY DEF Init, OperationInv, PackageInv, RecordInv, DoneInv, RefreshInv, Refreshing, Busy,
     InstallSteps, UninstallSteps, UndoSteps
<1>4. \A s \in Slugs : registry[s] # None => registry[s].format = 0
  BY DEF Init
<1>5. AgreeInv
  BY <1>4 DEF Init, AgreeInv, Agrees, Library, Busy, InstallSteps, UninstallSteps, UndoSteps
<1>6. OwnInv
  BY <1>4 DEF OwnInv, Managed
<1>7. IdleInv
  BY InstallAssumption DEF Init, IdleInv, FailureRestores, SuccessCompletes, OldPackageKept
<1> QED
  BY <1>2, <1>3, <1>5, <1>6, <1>7 DEF IInv

-----------------------------------------------------------------------------
(* The steps of an installation, of an uninstallation and of their undoing.*)

(* What is left to show of a step that does not end the operation.         *)
LEMMA WorkStep ==
  ASSUME IInv, pc \in Busy \ {"forget", "cleanup"}, pc' \in Busy \ {"forget"},
         UNCHANGED context,
         payload' \in [Slugs -> Contents], launcher' \in [Slugs -> Records],
         icon' \in [Slugs -> Contents], registry' \in [Slugs -> Registrations \cup {None}],
         fresh' \in Contents, old' \in Contents, movedNew' \in BOOLEAN,
         \A s \in Slugs \ {op.slug} :
           payload'[s] = payload[s] /\ launcher'[s] = launcher[s] /\ icon'[s] = icon[s],
         pc' # "cleanup" => registry' = registry,
         payload'[op.slug] # Foreign,
         launcher'[op.slug] \in {before.launcher[op.slug], op.version, None},
         pc' \in InstallSteps \cup {"rollback"} => op.kind = "install",
         pc' \in UninstallSteps => op.kind = "uninstall",
         PackageInv', RecordInv', DoneInv'
  PROVE  IInv'
<1> USE DEF IInv
<1>1. /\ UNCHANGED <<leftover, op, games, oldLauncher, oldIcon, todo, outcome, before, unsure>>
      /\ registry = before.registry
  BY DEF context, saved, OperationInv
<1>2. /\ op \in Operations /\ op.slug \in Slugs /\ op.prev \in Slugs \cup {None}
      /\ before.registry \in [Slugs -> Registrations \cup {None}]
  BY ShapesLemma
<1>3. pc' \notin {"idle"} \cup Refreshing
  BY DEF Refreshing, Busy, InstallSteps, UninstallSteps, UndoSteps
<1>4. TypeInv'
  <2>1. (Library \in Libraries)'
    BY DEF Library, Libraries
  <2> QED
    BY <1>1, <2>1 DEF TypeInv
<1>5. OperationInv'
  BY <1>1 DEF OperationInv
<1>6. RefreshInv' /\ IdleInv'
  BY <1>3 DEF RefreshInv, IdleInv, Refreshing
<1>7. AgreeInv'
  BY <1>1, <1>3 DEF AgreeInv, Agrees
<1>8. OwnInv'
  <2> SUFFICES ASSUME NEW s \in Slugs, Managed(s)' PROVE payload'[s] # Foreign
    BY DEF OwnInv
  <2>1. CASE s # op.slug
    <3>1. registry'[s] = registry[s] \/ registry'[s] = None
      BY <1>1, <1>2, <2>1 DEF DoneInv
    <3> QED
      BY <2>1, <3>1 DEF OwnInv, Managed
  <2> QED
    BY <2>1
<1> QED
  BY <1>4, <1>5, <1>6, <1>7, <1>8

LEMMA InstallStepIInv ==
  ASSUME IInv, \/ Download \/ VerifyAndExtract \/ MoveOld \/ MoveNew
               \/ WriteLauncher \/ CopyIcon \/ Register \/ InstallFails
  PROVE  IInv'
<1> DEFINE s == op.slug
<1>1. TypeInv /\ OperationInv /\ PackageInv /\ RecordInv
  BY DEF IInv
<1>2. pc \in InstallSteps /\ pc \in Busy \ {"forget", "cleanup"}
  BY DEF Download, VerifyAndExtract, MoveOld, MoveNew, WriteLauncher, CopyIcon, Register,
     InstallFails, InstallSteps, Busy
<1>3. /\ op.kind = "install" /\ s \in Slugs /\ op.version \in Versions
      /\ registry = before.registry /\ games = before.registry
      /\ before.payload[s] # Foreign /\ before.launcher[s] # Foreign
      /\ launcher[s] \in {before.launcher[s], op.version, None}
  BY <1>1, <1>2, ShapesLemma DEF OperationInv
<1>4. /\ payload \in [Slugs -> Contents] /\ launcher \in [Slugs -> Records]
      /\ icon \in [Slugs -> Contents] /\ registry \in [Slugs -> Registrations \cup {None}]
      /\ fresh \in Contents /\ old \in Contents /\ movedNew \in BOOLEAN
      /\ Versions \subseteq Contents /\ Damaged \in Contents /\ None \in Contents
      /\ Versions \subseteq Records
  BY <1>1, ShapesLemma DEF TypeInv
<1>5. op.version # Foreign /\ None # Foreign
  BY <1>3, InstallAssumption
<1>6. payload[s] # Foreign
  BY <1>1, <1>2, <1>3, <1>5 DEF PackageInv, InPlace, Away, Replaced, InstallSteps
<1> HIDE DEF s
<1>7. UNCHANGED context => UNCHANGED <<op, before, s>>
  BY DEF context, s
<1>8. ASSUME UNCHANGED context, pc' \in InstallSteps \cup {"rollback", "cleanup"},
             payload' \in [Slugs -> Contents], launcher' \in [Slugs -> Records],
             icon' \in [Slugs -> Contents], registry' \in [Slugs -> Registrations \cup {None}],
             fresh' \in Contents, old' \in Contents, movedNew' \in BOOLEAN,
             \A t \in Slugs \ {s} :
               payload'[t] = payload[t] /\ launcher'[t] = launcher[t] /\ icon'[t] = icon[t],
             pc' # "cleanup" => registry' = registry,
             payload'[s] # Foreign,
             launcher'[s] \in {before.launcher[s], op.version, None},
             PackageInv', RecordInv', DoneInv'
      PROVE  IInv'
  <2>1. pc' \in Busy \ {"forget"} /\ pc' \notin UninstallSteps
    BY <1>8 DEF Busy, InstallSteps, UninstallSteps, UndoSteps
  <2> QED
    BY <1>2, <1>3, <1>8, <2>1, WorkStep DEF s
<1>9. CASE Download
  <2>1. /\ pc = "download" /\ pc' = "verify" /\ fresh' \in {op.version, Damaged}
        /\ UNCHANGED <<payload, launcher, icon, registry, old, movedNew, context>>
    BY <1>9 DEF Download, library
  <2>2. PackageInv' /\ RecordInv' /\ DoneInv'
    BY <1>1, <1>7, <2>1 DEF PackageInv, RecordInv, DoneInv, InPlace, Refreshing, s
  <2>3. fresh' \in Contents /\ pc' \in InstallSteps
    BY <1>3, <1>4, <2>1 DEF InstallSteps
  <2> QED
    BY <1>3, <1>4, <1>6, <1>8, <2>1, <2>2, <2>3
<1>10. CASE VerifyAndExtract
  <2>1. /\ pc = "verify" /\ pc' = "moveold" /\ fresh = op.version
        /\ UNCHANGED <<payload, launcher, icon, registry, fresh, old, movedNew, context>>
    BY <1>10 DEF VerifyAndExtract, library, txn
  <2>2. PackageInv' /\ RecordInv' /\ DoneInv'
    BY <1>1, <1>7, <2>1 DEF PackageInv, RecordInv, DoneInv, InPlace, Refreshing, s
  <2>3. pc' \in InstallSteps
    BY <2>1 DEF InstallSteps
  <2> QED
    BY <1>3, <1>4, <1>6, <1>8, <2>1, <2>2, <2>3
<1>11. CASE MoveOld
  <2>1. /\ pc = "moveold" /\ pc' = "movenew" /\ old' = payload[s]
        /\ payload' = [payload EXCEPT ![s] = None]
        /\ UNCHANGED <<launcher, icon, registry, fresh, movedNew, context>>
    BY <1>11 DEF MoveOld, s
  <2>2. payload' \in [Slugs -> Contents] /\ payload'[s] = None /\ old' \in Contents
        /\ \A t \in Slugs \ {s} : payload'[t] = payload[t]
    BY <1>3, <1>4, <2>1
  <2>3. payload[s] = before.payload[s] /\ ~movedNew /\ fresh = op.version
    BY <1>1, <2>1 DEF PackageInv, InPlace, s
  <2>4. PackageInv'
    BY <1>7, <2>1, <2>2, <2>3 DEF PackageInv, Away, Refreshing, s
  <2>5. RecordInv' /\ DoneInv'
    BY <1>1, <1>7, <2>1 DEF RecordInv, DoneInv, s
  <2>6. pc' \in InstallSteps
    BY <2>1 DEF InstallSteps
  <2> QED
    BY <1>3, <1>4, <1>5, <1>8, <2>1, <2>2, <2>4, <2>5, <2>6
<1>12. CASE MoveNew
  <2>1. /\ pc = "movenew" /\ pc' = "launcher" /\ fresh' = None /\ movedNew' = TRUE
        /\ payload' = [payload EXCEPT ![s] = fresh]
        /\ UNCHANGED <<launcher, icon, registry, old, context>>
    BY <1>12 DEF MoveNew, s
  <2>2. fresh = op.version /\ old = before.payload[s]
    BY <1>1, <2>1 DEF PackageInv, Away, s
  <2>3. /\ payload' \in [Slugs -> Contents] /\ payload'[s] = op.version
        /\ \A t \in Slugs \ {s} : payload'[t] = payload[t]
    BY <1>3, <1>4, <2>1, <2>2
  <2>4. PackageInv'
    BY <1>7, <2>1, <2>2, <2>3 DEF PackageInv, Replaced, Refreshing, s
  <2>5. RecordInv' /\ DoneInv'
    BY <1>1, <1>7, <2>1 DEF RecordInv, DoneInv, s
  <2>6. pc' \in InstallSteps
    BY <2>1 DEF InstallSteps
  <2> QED
    BY <1>3, <1>4, <1>5, <1>8, <2>1, <2>3, <2>4, <2>5, <2>6
<1>13. CASE WriteLauncher
  <2>1. /\ pc = "launcher" /\ pc' = "icon"
        /\ launcher' = [launcher EXCEPT ![s] = op.version]
        /\ UNCHANGED <<payload, icon, registry, fresh, old, movedNew, context>>
    BY <1>13 DEF WriteLauncher, txn, s
  <2>2. /\ launcher' \in [Slugs -> Records] /\ launcher'[s] = op.version
        /\ \A t \in Slugs \ {s} : launcher'[t] = launcher[t]
    BY <1>3, <1>4, <2>1
  <2>3. PackageInv'
    BY <1>1, <1>7, <2>1 DEF PackageInv, Replaced, Refreshing, s
  <2>4. RecordInv' /\ DoneInv'
    BY <1>7, <2>1, <2>2 DEF RecordInv, DoneInv, s
  <2>5. pc' \in InstallSteps
    BY <2>1 DEF InstallSteps
  <2> QED
    BY <1>3, <1>4, <1>6, <1>8, <2>1, <2>2, <2>3, <2>4, <2>5
<1>14. CASE CopyIcon
  <2>1. /\ pc = "icon" /\ pc' = "register"
        /\ icon' = [icon EXCEPT ![s] = payload[s]]
        /\ UNCHANGED <<payload, launcher, registry, fresh, old, movedNew, context>>
    BY <1>14 DEF CopyIcon, txn, s
  <2>2. payload[s] = op.version /\ launcher[s] = op.version
    BY <1>1, <2>1 DEF PackageInv, RecordInv, Replaced, s
  <2>3. /\ icon' \in [Slugs -> Contents] /\ icon'[s] = op.version
        /\ \A t \in Slugs \ {s} : icon'[t] = icon[t]
    BY <1>3, <1>4, <2>1, <2>2
  <2>4. PackageInv'
    BY <1>1, <1>7, <2>1 DEF PackageInv, Replaced, Refreshing, s
  <2>5. RecordInv' /\ DoneInv'
    BY <1>7, <2>1, <2>2, <2>3 DEF RecordInv, DoneInv, s
  <2>6. pc' \in InstallSteps
    BY <2>1 DEF InstallSteps
  <2> QED
    BY <1>3, <1>4, <1>6, <1>8, <2>1, <2>3, <2>4, <2>5, <2>6
<1>15. CASE Register
  <2> DEFINE new == [t \in Slugs |-> IF t = s THEN [version |-> op.version, format |-> 1]
                                     ELSE IF t = op.prev THEN None ELSE games[t]]
  <2>1. /\ pc = "register" /\ pc' = "cleanup"
        /\ registry' = new
        /\ UNCHANGED <<payload, launcher, icon, fresh, old, movedNew, context>>
    BY <1>15 DEF Register, txn, s
  <2>2. new \in [Slugs -> Registrations \cup {None}]
    BY <1>3, <1>4 DEF Registrations
  <2>3. /\ payload[s] = op.version /\ launcher[s] = op.version /\ icon[s] = op.version
        /\ old = before.payload[s]
    BY <1>1, <2>1 DEF PackageInv, RecordInv, Replaced, s
  <2>4. PackageInv' /\ RecordInv'
    BY <1>7, <2>1, <2>3 DEF PackageInv, RecordInv, Refreshing, s
  <2>5. DoneInv'
    BY <1>3, <1>7, <2>1, <2>3 DEF DoneInv, s
  <2> QED
    BY <1>3, <1>4, <1>6, <1>8, <2>1, <2>2, <2>4, <2>5
<1>16. CASE InstallFails
  <2>1. /\ pc' = "rollback"
        /\ UNCHANGED <<payload, launcher, icon, registry, fresh, old, movedNew, context>>
    BY <1>16 DEF InstallFails, library, txn
  <2>2. IF movedNew THEN Replaced ELSE InPlace \/ Away
    BY <1>1, <1>2 DEF PackageInv, InstallSteps
  <2>3. (IF movedNew THEN Replaced ELSE InPlace \/ Away)'
    BY <1>7, <2>1, <2>2 DEF InPlace, Away, Replaced, s
  <2>4. PackageInv' /\ RecordInv' /\ DoneInv'
    BY <2>1, <2>3 DEF PackageInv, RecordInv, DoneInv, Refreshing
  <2> QED
    BY <1>3, <1>4, <1>6, <1>8, <2>1, <2>4
<1> QED
  BY <1>9, <1>10, <1>11, <1>12, <1>13, <1>14, <1>15, <1>16

LEMMA UninstallStepIInv ==
  ASSUME IInv, TakeGame \/ RemoveLauncher \/ RemoveIcon \/ Unregister \/ UninstallFails
  PROVE  IInv'
<1> DEFINE s == op.slug
<1>1. TypeInv /\ OperationInv /\ PackageInv /\ RecordInv
  BY DEF IInv
<1>2. pc \in UninstallSteps /\ pc \in Busy \ {"forget", "cleanup"}
  BY DEF TakeGame, RemoveLauncher, RemoveIcon, Unregister, UninstallFails, UninstallSteps, Busy
<1>3. /\ op.kind = "uninstall" /\ s \in Slugs
      /\ registry = before.registry /\ games = before.registry
      /\ before.payload[s] # Foreign
      /\ launcher[s] \in {before.launcher[s], op.version, None}
  BY <1>1, <1>2, ShapesLemma DEF OperationInv
<1>4. /\ payload \in [Slugs -> Contents] /\ launcher \in [Slugs -> Records]
      /\ icon \in [Slugs -> Contents] /\ registry \in [Slugs -> Registrations \cup {None}]
      /\ fresh \in Contents /\ old \in Contents /\ movedNew \in BOOLEAN
      /\ None \in Contents /\ None \in Records
  BY <1>1, ShapesLemma DEF TypeInv
<1>5. None # Foreign
  BY InstallAssumption
<1>6. payload[s] # Foreign
  BY <1>1, <1>2, <1>3, <1>5 DEF PackageInv, InPlace, Away, UninstallSteps
<1> HIDE DEF s
<1>7. UNCHANGED context => UNCHANGED <<op, before, s>>
  BY DEF context, s
<1>8. ASSUME UNCHANGED context, pc' \in UninstallSteps \cup {"restore", "cleanup"},
             payload' \in [Slugs -> Contents], launcher' \in [Slugs -> Records],
             icon' \in [Slugs -> Contents], registry' \in [Slugs -> Registrations \cup {None}],
             old' \in Contents, UNCHANGED <<fresh, movedNew>>,
             \A t \in Slugs \ {s} :
               payload'[t] = payload[t] /\ launcher'[t] = launcher[t] /\ icon'[t] = icon[t],
             pc' # "cleanup" => registry' = registry,
             payload'[s] # Foreign, launcher'[s] \in {launcher[s], None},
             PackageInv', RecordInv', DoneInv'
      PROVE  IInv'
  <2>1. pc' \in Busy \ {"forget"} /\ pc' \notin InstallSteps \cup {"rollback"}
    BY <1>8 DEF Busy, InstallSteps, UninstallSteps, UndoSteps
  <2> QED
    BY <1>2, <1>3, <1>4, <1>8, <2>1, WorkStep DEF s
<1>9. CASE TakeGame
  <2>1. /\ pc = "take" /\ pc' = "unlaunch" /\ old' = payload[s]
        /\ payload' = [payload EXCEPT ![s] = None]
        /\ UNCHANGED <<launcher, icon, registry, fresh, movedNew, context>>
    BY <1>9 DEF TakeGame, s
  <2>2. payload' \in [Slugs -> Contents] /\ payload'[s] = None /\ old' \in Contents
        /\ \A t \in Slugs \ {s} : payload'[t] = payload[t]
    BY <1>3, <1>4, <2>1
  <2>3. payload[s] = before.payload[s]
    BY <1>1, <2>1 DEF PackageInv, InPlace, s
  <2>4. PackageInv'
    BY <1>7, <2>1, <2>2, <2>3 DEF PackageInv, Away, Refreshing, s
  <2>5. RecordInv' /\ DoneInv'
    BY <1>1, <1>7, <2>1 DEF RecordInv, DoneInv, s
  <2>6. pc' \in UninstallSteps
    BY <2>1 DEF UninstallSteps
  <2> QED
    BY <1>3, <1>4, <1>5, <1>8, <2>1, <2>2, <2>4, <2>5, <2>6
<1>10. CASE RemoveLauncher
  <2>1. /\ pc = "unlaunch" /\ pc' = "unicon"
        /\ launcher' = [launcher EXCEPT ![s] = None]
        /\ UNCHANGED <<payload, icon, registry, fresh, old, movedNew, context>>
    BY <1>10 DEF RemoveLauncher, txn, s
  <2>2. /\ launcher' \in [Slugs -> Records] /\ launcher'[s] = None
        /\ \A t \in Slugs \ {s} : launcher'[t] = launcher[t]
    BY <1>3, <1>4, <2>1
  <2>3. PackageInv'
    BY <1>1, <1>7, <2>1 DEF PackageInv, Away, Refreshing, s
  <2>4. RecordInv' /\ DoneInv'
    BY <1>7, <2>1, <2>2 DEF RecordInv, DoneInv, s
  <2>5. pc' \in UninstallSteps
    BY <2>1 DEF UninstallSteps
  <2> QED
    BY <1>3, <1>4, <1>6, <1>8, <2>1, <2>2, <2>3, <2>4, <2>5
<1>11. CASE RemoveIcon
  <2>1. /\ pc = "unicon" /\ pc' = "unregister"
        /\ icon' = [icon EXCEPT ![s] = None]
        /\ UNCHANGED <<payload, launcher, registry, fresh, old, movedNew, context>>
    BY <1>11 DEF RemoveIcon, txn, s
  <2>2. /\ icon' \in [Slugs -> Contents] /\ icon'[s] = None
        /\ \A t \in Slugs \ {s} : icon'[t] = icon[t]
    BY <1>3, <1>4, <2>1
  <2>3. PackageInv'
    BY <1>1, <1>7, <2>1 DEF PackageInv, Away, Refreshing, s
  <2>4. RecordInv' /\ DoneInv'
    BY <1>1, <1>7, <2>1, <2>2 DEF RecordInv, DoneInv, s
  <2>5. pc' \in UninstallSteps
    BY <2>1 DEF UninstallSteps
  <2> QED
    BY <1>3, <1>4, <1>6, <1>8, <2>1, <2>2, <2>3, <2>4, <2>5
<1>12. CASE Unregister
  <2>1. /\ pc = "unregister" /\ pc' = "cleanup"
        /\ registry' = [games EXCEPT ![s] = None]
        /\ UNCHANGED <<payload, launcher, icon, fresh, old, movedNew, context>>
    BY <1>12 DEF Unregister, txn, s
  <2>2. registry' \in [Slugs -> Registrations \cup {None}]
    BY <1>3, <1>4, <2>1
  <2>3. /\ payload[s] = None /\ old = before.payload[s]
        /\ launcher[s] = None /\ icon[s] = None
    BY <1>1, <2>1 DEF PackageInv, RecordInv, Away, s
  <2>4. PackageInv' /\ RecordInv'
    BY <1>7, <2>1, <2>3 DEF PackageInv, RecordInv, Refreshing, s
  <2>5. DoneInv'
    BY <1>3, <1>7, <2>1, <2>3 DEF DoneInv, s
  <2> QED
    BY <1>3, <1>4, <1>6, <1>8, <2>1, <2>2, <2>4, <2>5
<1>13. CASE UninstallFails
  <2>1. /\ pc' = "restore"
        /\ UNCHANGED <<payload, launcher, icon, registry, fresh, old, movedNew, context>>
    BY <1>13 DEF UninstallFails, library, txn
  <2>2. InPlace \/ Away
    BY <1>1, <1>2 DEF PackageInv, UninstallSteps
  <2>3. (InPlace \/ Away)'
    BY <1>7, <2>1, <2>2 DEF InPlace, Away, s
  <2>4. PackageInv' /\ RecordInv' /\ DoneInv'
    BY <2>1, <2>3 DEF PackageInv, RecordInv, DoneInv, Refreshing
  <2> QED
    BY <1>3, <1>4, <1>6, <1>8, <2>1, <2>4
<1> QED
  BY <1>9, <1>10, <1>11, <1>12, <1>13

(* The old package goes back, then its record.                             *)
LEMMA UndoStepIInv ==
  ASSUME IInv, RemoveNew \/ RestoreOld \/ RestoreLauncher
  PROVE  IInv'
<1> DEFINE s == op.slug
<1>1. TypeInv /\ OperationInv /\ PackageInv /\ RecordInv
  BY DEF IInv
<1>2. pc \in UndoSteps /\ pc \in Busy \ {"forget", "cleanup"}
  BY DEF RemoveNew, RestoreOld, RestoreLauncher, UndoSteps, Busy
<1>3. /\ s \in Slugs /\ op.version \in Versions
      /\ registry = before.registry
      /\ before.payload[s] # Foreign /\ before.launcher[s] \in Records
      /\ launcher[s] \in {before.launcher[s], op.version, None}
  BY <1>1, <1>2, ShapesLemma DEF OperationInv
<1>4. /\ payload \in [Slugs -> Contents] /\ launcher \in [Slugs -> Records]
      /\ icon \in [Slugs -> Contents] /\ registry \in [Slugs -> Registrations \cup {None}]
      /\ fresh \in Contents /\ old \in Contents /\ movedNew \in BOOLEAN
      /\ None \in Contents
  BY <1>1, ShapesLemma DEF TypeInv
<1>5. None # Foreign /\ op.version # Foreign
  BY <1>3, InstallAssumption
<1>6. payload[s] # Foreign
  BY <1>1, <1>2, <1>3, <1>5 DEF PackageInv, InPlace, Away, Replaced, UndoSteps
<1> HIDE DEF s
<1>7. UNCHANGED context => UNCHANGED <<op, before, oldLauncher, oldIcon, s>>
  BY DEF context, saved, s
<1>8. ASSUME UNCHANGED <<icon, registry, fresh, context>>, pc' \in {"restore", "relaunch", "reicon"},
             payload' \in [Slugs -> Contents], launcher' \in [Slugs -> Records],
             old' \in Contents, movedNew' \in BOOLEAN,
             \A t \in Slugs \ {s} : payload'[t] = payload[t] /\ launcher'[t] = launcher[t],
             payload'[s] # Foreign, launcher'[s] \in {launcher[s], before.launcher[s]},
             PackageInv', RecordInv'
      PROVE  IInv'
  <2>1. pc' \in Busy \ {"forget"} /\ pc' \notin InstallSteps \cup UninstallSteps \cup {"rollback"}
    BY <1>8 DEF Busy, InstallSteps, UninstallSteps, UndoSteps
  <2>2. DoneInv'
    BY <1>8 DEF DoneInv
  <2> QED
    BY <1>2, <1>3, <1>4, <1>8, <2>1, <2>2, WorkStep DEF s
<1>9. CASE RemoveNew
  <2>1. /\ pc = "rollback" /\ pc' = "restore" /\ movedNew' = FALSE
        /\ payload' = IF movedNew THEN [payload EXCEPT ![s] = None] ELSE payload
        /\ UNCHANGED <<launcher, icon, registry, fresh, old, context>>
    BY <1>9 DEF RemoveNew, s
  <2>2. IF movedNew THEN Replaced ELSE InPlace \/ Away
    BY <1>1, <2>1 DEF PackageInv
  <2>3. /\ payload' \in [Slugs -> Contents]
        /\ \A t \in Slugs \ {s} : payload'[t] = payload[t]
        /\ payload'[s] = IF movedNew THEN None ELSE payload[s]
    BY <1>3, <1>4, <2>1
  <2>4. (InPlace \/ Away)'
    BY <1>7, <2>1, <2>2, <2>3 DEF InPlace, Away, Replaced, s
  <2>5. PackageInv' /\ RecordInv'
    BY <2>1, <2>4 DEF PackageInv, RecordInv, Refreshing
  <2> QED
    BY <1>3, <1>4, <1>5, <1>6, <1>8, <2>1, <2>3, <2>5
<1>10. CASE RestoreOld
  <2>1. /\ pc = "restore" /\ pc' = "relaunch" /\ old' = None
        /\ payload' = IF old # None THEN [payload EXCEPT ![s] = old] ELSE payload
        /\ UNCHANGED <<launcher, icon, registry, fresh, movedNew, context>>
    BY <1>10 DEF RestoreOld, s
  <2>2. InPlace \/ Away
    BY <1>1, <2>1 DEF PackageInv
  <2>3. /\ payload' \in [Slugs -> Contents]
        /\ \A t \in Slugs \ {s} : payload'[t] = payload[t]
        /\ payload'[s] = IF old # None THEN old ELSE payload[s]
    BY <1>3, <1>4, <2>1
  <2>4. payload'[s] = before.payload[s]
    BY <2>2, <2>3 DEF InPlace, Away, s
  <2>5. PackageInv' /\ RecordInv'
    BY <1>7, <2>1, <2>4 DEF PackageInv, RecordInv, Refreshing, s
  <2> QED
    BY <1>3, <1>4, <1>8, <2>1, <2>3, <2>4, <2>5
<1>11. CASE RestoreLauncher
  <2>1. /\ pc = "relaunch" /\ pc' = "reicon"
        /\ launcher' = [launcher EXCEPT ![s] = oldLauncher]
        /\ UNCHANGED <<payload, icon, registry, fresh, old, movedNew, context>>
    BY <1>11 DEF RestoreLauncher, txn, s
  <2>2. oldLauncher = before.launcher[s]
    BY <1>1, <1>2 DEF TypeInv, s
  <2>3. /\ launcher' \in [Slugs -> Records] /\ launcher'[s] = before.launcher[s]
        /\ \A t \in Slugs \ {s} : launcher'[t] = launcher[t]
    BY <1>3, <1>4, <2>1, <2>2
  <2>4. PackageInv' /\ RecordInv'
    BY <1>1, <1>7, <2>1, <2>3 DEF PackageInv, RecordInv, Refreshing, s
  <2> QED
    BY <1>3, <1>4, <1>6, <1>8, <2>1, <2>3, <2>4
<1> QED
  BY <1>9, <1>10, <1>11

-----------------------------------------------------------------------------
(* The beginnings.                                                         *)

(* An operation begins with Nest's directory and record, or none, under    *)
(* its slug.                                                               *)
LEMMA BeginWork ==
  ASSUME IInv, NEW operation \in Operations, NEW step \in {"download", "take", "forget"},
         Begin(operation, step), oldLauncher' \in Records \cup {oldLauncher},
         step = "download" <=> operation.kind = "install",
         step = "forget" => registry[operation.slug].format = 0,
         step # "forget" => /\ oldLauncher' = launcher[operation.slug]
                            /\ oldIcon' = icon[operation.slug]
                            /\ payload[operation.slug] # Foreign
                            /\ launcher[operation.slug] # Foreign
  PROVE  IInv'
<1> DEFINE s == operation.slug
<1>1. /\ pc = "idle" /\ pc' = step /\ op' = operation /\ games' = registry /\ outcome' = None
      /\ before' = Library /\ leftover' = None
      /\ UNCHANGED <<payload, launcher, icon, registry, fresh, old, movedNew, unsure>>
  BY DEF Begin, library, txn
<1>2. TypeInv /\ PackageInv /\ AgreeInv /\ OwnInv
  BY DEF IInv
<1>3. /\ before'.payload = payload /\ before'.launcher = launcher /\ before'.icon = icon
      /\ before'.registry = registry
  BY <1>1 DEF Library
<1>4. /\ s \in Slugs /\ operation.kind \in {"install", "uninstall"}
      /\ pc' \in Busy /\ pc' \notin {"idle"} \cup Refreshing
  BY <1>1 DEF Operations, Busy, Refreshing, InstallSteps, UninstallSteps, UndoSteps
<1> HIDE DEF s
<1>5. old = None /\ movedNew = FALSE
  BY <1>1, <1>2 DEF PackageInv
<1>6. TypeInv'
  <2>1. (Library \in Libraries)'
    BY <1>1, <1>2, LibraryTyped DEF TypeInv, Library
  <2>2. before' \in Libraries /\ leftover' \in Contents
    BY <1>1, <1>2 DEF TypeInv, Contents
  <2> QED
    BY <1>1, <1>2, <1>3, <1>4, <2>1, <2>2 DEF TypeInv, s
<1>7. OperationInv'
  BY <1>1, <1>3, <1>4 DEF OperationInv, InstallSteps, UninstallSteps, s
<1>8. PackageInv'
  <2>1. InPlace'
    BY <1>1, <1>3, <1>5 DEF InPlace
  <2> QED
    BY <1>1, <1>4, <1>5, <2>1 DEF PackageInv
<1>9. RecordInv' /\ DoneInv'
  BY <1>1, <1>3 DEF RecordInv, DoneInv
<1>10. RefreshInv' /\ IdleInv'
  BY <1>4 DEF RefreshInv, IdleInv, Refreshing
<1>11. AgreeInv'
  BY <1>1, <1>2, <1>3, <1>4 DEF AgreeInv, Agrees, Library
<1>12. OwnInv'
  BY <1>1, <1>2 DEF OwnInv, Managed
<1> QED
  BY <1>6, <1>7, <1>8, <1>9, <1>10, <1>11, <1>12 DEF IInv

LEMMA BeginIInv ==
  ASSUME IInv, \/ \E m \in Manifests : BeginInstall(m)
               \/ \E s \in Slugs : BeginUninstall(s) \/ Forget(s)
  PROVE  IInv'
<1>1. TypeInv /\ OwnInv
  BY DEF IInv
<1>2. /\ launcher \in [Slugs -> Records] /\ registry \in [Slugs -> Registrations \cup {None}]
  BY <1>1, ShapesLemma
<1>3. ASSUME NEW m \in Manifests, BeginInstall(m) PROVE IInv'
  <2> DEFINE operation == [kind |-> "install", slug |-> m.slug, prev |-> Previous(m),
                           version |-> m.version]
  <2>1. m.slug \in Slugs /\ m.id \in Slugs /\ m.version \in Versions
    BY InstallAssumption
  <2>2. operation \in Operations
    BY <2>1 DEF Previous, Operations
  <2>3. OwnsDirectory(m) => Managed(m.slug)
    BY <2>1, InstallAssumption DEF OwnsDirectory, Previous, Managed
  <2>4. payload[m.slug] # Foreign /\ launcher[m.slug] # Foreign
    BY <1>1, <1>3, <2>1, <2>3, InstallAssumption DEF BeginInstall, OwnRecord, OwnInv
  <2>5. /\ Begin(operation, "download")
        /\ oldLauncher' = launcher[m.slug] /\ oldIcon' = icon[m.slug]
    BY <1>3 DEF BeginInstall
  <2>6. operation.slug = m.slug /\ operation.kind = "install"
    OBVIOUS
  <2> HIDE DEF operation
  <2> QED
    BY <1>2, <2>1, <2>2, <2>4, <2>5, <2>6, BeginWork
<1>4. ASSUME NEW s \in Slugs, registry[s] # None, NEW step \in {"take", "forget"},
             Begin([kind |-> "uninstall", slug |-> s, prev |-> s,
                    version |-> registry[s].version], step),
             step = "forget" => registry[s].format = 0 /\ oldLauncher' = oldLauncher,
             step = "take" => /\ oldLauncher' = launcher[s] /\ oldIcon' = icon[s]
                              /\ Managed(s) /\ OwnRecord(s)
      PROVE  IInv'
  <2> DEFINE operation == [kind |-> "uninstall", slug |-> s, prev |-> s,
                           version |-> registry[s].version]
  <2>1. operation \in Operations
    BY <1>2, <1>4 DEF Operations, Registrations
  <2>2. operation.slug = s /\ operation.kind = "uninstall"
    OBVIOUS
  <2>3. Begin(operation, step)
    BY <1>4
  <2> HIDE DEF operation
  <2>4. step = "take" => payload[s] # Foreign /\ launcher[s] # Foreign
    BY <1>1, <1>4 DEF OwnInv, OwnRecord
  <2> QED
    BY <1>2, <1>4, <2>1, <2>2, <2>3, <2>4, BeginWork
<1>5. ASSUME NEW s \in Slugs, BeginUninstall(s) PROVE IInv'
  BY <1>4, <1>5 DEF BeginUninstall, Managed
<1>6. ASSUME NEW s \in Slugs, Forget(s) PROVE IInv'
  BY <1>4, <1>6 DEF Forget
<1> QED
  BY <1>3, <1>5, <1>6

-----------------------------------------------------------------------------
(* The ends.                                                               *)

LEMMA UnsureTyped ==
  ASSUME IInv, pc \in Busy \cup Refreshing, NEW result
  PROVE  /\ Unsure(result) \subseteq Slugs
         /\ op.kind = "refresh" => Unsure(result) = unsure
         /\ pc \in Busy =>
              /\ result \in {"unrestored", "lost"} =>
                   Unsure(result) = unsure \cup ({op.slug, op.prev} \ {None})
              /\ result = "error" => Unsure(result) = unsure
              /\ result = "ok" =>
                   Unsure(result) = IF op.kind = "install"
                                      THEN (unsure \cup ({op.prev} \ {None})) \ {op.slug}
                                    ELSE unsure
<1>1. TypeInv /\ RefreshInv /\ unsure \subseteq Slugs
  BY DEF IInv, TypeInv
<1>2. CASE pc \in Refreshing
  <2>1. op.kind = "refresh" /\ pc \notin Busy
    BY <1>1, <1>2 DEF RefreshInv, Refreshing, Busy, InstallSteps, UninstallSteps, UndoSteps
  <2> QED
    BY <1>1, <2>1 DEF Unsure
<1>3. CASE pc \in Busy
  <2>1. /\ op.slug \in Slugs /\ op.prev \in Slugs \cup {None} /\ op.kind # "refresh"
    BY <1>1, <1>3, ShapesLemma
  <2>2. CASE result \in {"unrestored", "lost"}
    BY <1>1, <2>1, <2>2 DEF Unsure
  <2>3. CASE result = "ok" /\ op.kind = "install"
    BY <1>1, <2>1, <2>3 DEF Unsure
  <2>4. CASE ~(result \in {"unrestored", "lost"}) /\ ~(result = "ok" /\ op.kind = "install")
    BY <1>1, <2>1, <2>4 DEF Unsure
  <2> QED
    BY <2>1, <2>2, <2>3, <2>4
<1> QED
  BY <1>2, <1>3

(* What is left to show of a step that ends an operation.                  *)
LEMMA EndStep ==
  ASSUME IInv, pc \in Busy \cup Refreshing, NEW result \in {"ok", "error", "unrestored", "lost"},
         End(result), (Library \in Libraries)', leftover' \in Contents,
         \A s \in Slugs \ unsure' : Agrees(Library, s)',
         \A s \in Slugs : Managed(s)' => payload'[s] # Foreign,
         FailureRestores', SuccessCompletes', OldPackageKept'
  PROVE  IInv'
<1>1. /\ pc' = "idle" /\ outcome' = result /\ fresh' = None /\ old' = None /\ movedNew' = FALSE
      /\ unsure' = Unsure(result) /\ UNCHANGED <<op, before>>
  BY DEF End
<1>2. pc' \notin Busy /\ pc' \notin Refreshing
  BY <1>1 DEF Busy, Refreshing, InstallSteps, UninstallSteps, UndoSteps
<1>3. TypeInv'
  BY <1>1, <1>2, UnsureTyped DEF TypeInv, IInv, Contents
<1>4. OperationInv' /\ PackageInv' /\ RecordInv' /\ DoneInv'
  BY <1>1, <1>2 DEF OperationInv, PackageInv, RecordInv, DoneInv
<1>5. RefreshInv'
  BY <1>1, <1>2 DEF RefreshInv
<1>6. AgreeInv' /\ OwnInv'
  BY <1>2 DEF AgreeInv, OwnInv
<1>7. IdleInv'
  BY <1>1, InstallAssumption DEF IdleInv
<1> QED
  BY <1>3, <1>4, <1>5, <1>6, <1>7 DEF IInv

(* Success.                                                                *)
LEMMA SuccessIInv == ASSUME IInv, SaveForgotten \/ CleanUp PROVE IInv'
<1> DEFINE s == op.slug
<1>1. TypeInv /\ OperationInv /\ PackageInv /\ RecordInv /\ DoneInv /\ AgreeInv /\ OwnInv
  BY DEF IInv
<1>2. /\ pc \in {"forget", "cleanup"} /\ pc \in Busy
      /\ End("ok") /\ UNCHANGED <<payload, launcher, icon, leftover, op, before>>
      /\ outcome' = "ok" /\ pc' = "idle" /\ unsure' = Unsure("ok")
  BY DEF SaveForgotten, CleanUp, End, library, Busy
<1>3. /\ s \in Slugs /\ op.prev \in Slugs \cup {None} /\ op.version \in Versions
      /\ op.kind \in {"install", "uninstall"} /\ op.kind # "refresh"
      /\ before.registry \in [Slugs -> Registrations \cup {None}]
      /\ payload \in [Slugs -> Contents] /\ launcher \in [Slugs -> Records]
      /\ icon \in [Slugs -> Contents] /\ registry \in [Slugs -> Registrations \cup {None}]
  BY <1>1, <1>2, ShapesLemma
<1>4. /\ \A t \in Slugs \ {s} : /\ payload[t] = before.payload[t]
                                /\ launcher[t] = before.launcher[t]
                                /\ icon[t] = before.icon[t]
      /\ \A t \in Slugs \ unsure : Agrees(before, t)
  BY <1>1, <1>2 DEF OperationInv, AgreeInv
<1>5. unsure' = IF op.kind = "install" THEN (unsure \cup ({op.prev} \ {None})) \ {s} ELSE unsure
  BY <1>2, UnsureTyped
<1> HIDE DEF s
<1>6. /\ op'.kind = op.kind /\ op'.slug = s /\ op'.prev = op.prev /\ op'.version = op.version
  BY <1>2 DEF s
<1>7. ASSUME op.kind = "install",
             payload[s] = op.version, launcher[s] = op.version, icon[s] = op.version,
             registry' = [t \in Slugs |-> IF t = s THEN [version |-> op.version, format |-> 1]
                                          ELSE IF t = op.prev THEN None ELSE before.registry[t]]
      PROVE  IInv'
  <2>1. [version |-> op.version, format |-> 1] \in Registrations
    BY <1>3 DEF Registrations
  <2>2. registry' \in [Slugs -> Registrations \cup {None}]
    BY <1>3, <1>7, <2>1
  <2>3. (Library \in Libraries)'
    BY <1>2, <1>3, <2>2 DEF Library, Libraries
  <2>4. /\ registry'[s] = [version |-> op.version, format |-> 1]
        /\ registry'[s] # None /\ registry'[s].format = 1 /\ registry'[s].version = op.version
    <3> DEFINE new == [version |-> op.version, format |-> 1]
    <3>1. registry'[s] = new
      BY <1>3, <1>7
    <3>2. new # None
      BY <2>1, InstallAssumption DEF Registrations
    <3>3. new.format = 1 /\ new.version = op.version
      OBVIOUS
    <3> QED
      BY <3>1, <3>2, <3>3
  <2>5. ASSUME NEW t \in Slugs \ unsure' PROVE Agrees(Library, t)'
    <3>1. CASE t = s
      BY <1>2, <1>7, <2>4, <3>1 DEF Agrees, Library
    <3>2. CASE t # s
      <4>1. t \in Slugs \ unsure /\ t # op.prev
        BY <1>3, <1>5, <1>7, <2>5, <3>2, InstallAssumption
      <4>2. registry'[t] = before.registry[t]
        BY <1>7, <3>2, <4>1
      <4> QED
        BY <1>2, <1>4, <3>2, <4>1, <4>2 DEF Agrees, Library
    <3> QED
      BY <3>1, <3>2
  <2>6. ASSUME NEW t \in Slugs, Managed(t)' PROVE payload'[t] # Foreign
    <3>1. CASE t = s
      BY <1>2, <1>3, <1>7, <3>1, InstallAssumption
    <3>2. CASE t # s /\ pc = "cleanup"
      <4>1. registry = registry'
        BY <1>1, <1>7, <3>2 DEF DoneInv, s
      <4> QED
        BY <1>1, <1>2, <2>6, <4>1 DEF OwnInv, Managed
    <3>3. CASE pc = "forget"
      BY <1>1, <1>2, <1>7, <3>3 DEF OperationInv
    <3> QED
      BY <1>2, <3>1, <3>2, <3>3
  <2>7. FailureRestores' /\ OldPackageKept'
    BY <1>2 DEF FailureRestores, OldPackageKept
  <2>8. SuccessCompletes'
    BY <1>2, <1>3, <1>6, <1>7, <2>4 DEF SuccessCompletes
  <2>9. leftover' \in Contents
    BY <1>1, <1>2 DEF TypeInv
  <2> QED
    BY <1>2, <2>3, <2>5, <2>6, <2>7, <2>8, <2>9, EndStep
<1>8. ASSUME op.kind = "uninstall", registry' = [before.registry EXCEPT ![s] = None],
             \/ payload[s] = None /\ launcher[s] = None /\ icon[s] = None
             \/ /\ payload[s] = before.payload[s] /\ launcher[s] = before.launcher[s]
                /\ icon[s] = before.icon[s] /\ before.registry[s].format = 0
      PROVE  IInv'
  <2>1. /\ registry' \in [Slugs -> Registrations \cup {None}] /\ registry'[s] = None
        /\ \A t \in Slugs \ {s} : registry'[t] = before.registry[t]
    BY <1>3, <1>8
  <2>2. (Library \in Libraries)'
    BY <1>2, <1>3, <2>1 DEF Library, Libraries
  <2>3. ASSUME NEW t \in Slugs \ unsure' PROVE Agrees(Library, t)'
    <3>1. CASE t = s
      <4>1. {payload[s], launcher[s], icon[s]} \subseteq {None, Foreign}
        <5>1. Agrees(before, s)
          BY <1>4, <1>5, <1>8, <2>3, <3>1
        <5> QED
          BY <1>8, <5>1 DEF Agrees
      <4> QED
        BY <1>2, <2>1, <3>1, <4>1 DEF Agrees, Library
    <3>2. CASE t # s
      BY <1>2, <1>4, <1>5, <1>8, <2>1, <2>3, <3>2 DEF Agrees, Library
    <3> QED
      BY <3>1, <3>2
  <2>4. ASSUME NEW t \in Slugs, Managed(t)' PROVE payload'[t] # Foreign
    <3>1. t # s /\ registry'[t] = before.registry[t]
      BY <2>1, <2>4 DEF Managed
    <3>2. CASE pc = "cleanup"
      <4>1. registry = registry'
        BY <1>1, <1>8, <3>2 DEF DoneInv, s
      <4> QED
        BY <1>1, <1>2, <2>4, <4>1 DEF OwnInv, Managed
    <3>3. CASE pc = "forget"
      <4>1. registry[t] = registry'[t]
        BY <1>1, <1>2, <3>1, <3>3 DEF OperationInv
      <4> QED
        BY <1>1, <1>2, <2>4, <4>1 DEF OwnInv, Managed
    <3> QED
      BY <1>2, <3>2, <3>3
  <2>5. FailureRestores' /\ OldPackageKept'
    BY <1>2 DEF FailureRestores, OldPackageKept
  <2>6. SuccessCompletes'
    BY <1>2, <1>6, <1>8, <2>1 DEF SuccessCompletes
  <2>7. leftover' \in Contents
    BY <1>1, <1>2 DEF TypeInv
  <2> QED
    BY <1>2, <2>2, <2>3, <2>4, <2>5, <2>6, <2>7, EndStep
<1>9. CASE SaveForgotten
  <2>1. pc = "forget" /\ registry' = [games EXCEPT ![s] = None]
    BY <1>9 DEF SaveForgotten, s
  <2>2. /\ op.kind = "uninstall" /\ games = before.registry
        /\ payload[s] = before.payload[s] /\ launcher[s] = before.launcher[s]
        /\ icon[s] = before.icon[s] /\ before.registry[s].format = 0
    BY <1>1, <1>2, <2>1 DEF OperationInv, PackageInv, RecordInv, InPlace, s
  <2> QED
    BY <1>8, <2>1, <2>2
<1>10. CASE CleanUp
  <2>1. pc = "cleanup" /\ UNCHANGED registry
    BY <1>10 DEF CleanUp, library
  <2> QED
    BY <1>1, <1>7, <1>8, <2>1 DEF DoneInv, s
<1> QED
  BY <1>9, <1>10

(* An error that is reported when all is as it was.                        *)
LEMMA ErrorIInv == ASSUME IInv, ForgetFails \/ RestoreIcon PROVE IInv'
<1> DEFINE s == op.slug
<1>1. TypeInv /\ OperationInv /\ PackageInv /\ RecordInv /\ AgreeInv /\ OwnInv
  BY DEF IInv
<1>2. /\ pc \in {"forget", "reicon"} /\ pc \in Busy
      /\ End("error") /\ UNCHANGED <<payload, launcher, registry, leftover, op, before>>
      /\ outcome' = "error" /\ pc' = "idle" /\ unsure' = Unsure("error")
  BY DEF ForgetFails, RestoreIcon, End, library, Busy, UndoSteps
<1>3. s \in Slugs /\ before \in Libraries /\ icon \in [Slugs -> Contents]
  BY <1>1, <1>2, ShapesLemma DEF TypeInv
<1>4. /\ payload \in [Slugs -> Contents] /\ launcher \in [Slugs -> Records]
      /\ before.payload \in [Slugs -> Contents] /\ before.launcher \in [Slugs -> Records]
      /\ before.icon \in [Slugs -> Contents]
  BY <1>1, ShapesLemma
<1>5. unsure' = unsure
  BY <1>2, UnsureTyped
<1>6. /\ registry = before.registry
      /\ \A t \in Slugs \ {s} : /\ payload[t] = before.payload[t]
                                /\ launcher[t] = before.launcher[t]
                                /\ icon[t] = before.icon[t]
      /\ payload[s] = before.payload[s] /\ launcher[s] = before.launcher[s]
  BY <1>1, <1>2 DEF OperationInv, PackageInv, RecordInv, InPlace, s
<1> HIDE DEF s
<1>7. payload = before.payload /\ launcher = before.launcher
  BY <1>3, <1>4, <1>6
<1>8. icon' = before.icon
  <2>1. CASE ForgetFails
    <3>1. icon' = icon /\ icon[s] = before.icon[s]
      BY <1>1, <2>1 DEF ForgetFails, library, RecordInv, s
    <3> QED
      BY <1>3, <1>4, <1>6, <3>1
  <2>2. CASE RestoreIcon
    <3>1. icon' = [icon EXCEPT ![s] = before.icon[s]]
      BY <1>1, <1>2, <2>2 DEF RestoreIcon, TypeInv, s
    <3> QED
      BY <1>3, <1>4, <1>6, <3>1
  <2> QED
    BY <2>1, <2>2
<1>9. Library' = before
  <2>1. before = [payload |-> before.payload, launcher |-> before.launcher,
                  icon |-> before.icon, registry |-> before.registry]
    BY <1>3 DEF Libraries
  <2> QED
    BY <1>2, <1>6, <1>7, <1>8, <2>1, Zenon DEF Library
<1>10. \A t \in Slugs \ unsure' : Agrees(Library, t)'
  <2>1. \A t \in Slugs \ unsure : Agrees(before, t)
    BY <1>1, <1>2 DEF AgreeInv
  <2> QED
    BY <1>2, <1>5, <1>6, <1>7, <1>8, <2>1 DEF Agrees, Library
<1>11. \A t \in Slugs : Managed(t)' => payload'[t] # Foreign
  BY <1>1, <1>2 DEF OwnInv, Managed
<1>12. FailureRestores'
  BY <1>2, <1>9 DEF FailureRestores
<1>13. SuccessCompletes'
  BY <1>2 DEF SuccessCompletes
<1>14. OldPackageKept'
  BY <1>2, <1>7 DEF OldPackageKept
<1> QED
  BY <1>1, <1>2, <1>3, <1>9, <1>10, <1>11, <1>12, <1>13, <1>14, EndStep DEF TypeInv

(* An operation that is cut off, or whose undoing fails: what may differ   *)
(* then is its slug's, and the old package is kept somewhere.              *)
LEMMA CutOffIInv ==
  ASSUME IInv, pc \in Busy, RollbackFails \/ RestoreFails \/ PowerLoss
  PROVE  IInv'
<1> DEFINE s == op.slug
           backup == before.payload[s]
<1>1. TypeInv /\ OperationInv /\ PackageInv /\ DoneInv /\ AgreeInv /\ OwnInv
  BY DEF IInv
<1>2. PICK result \in {"unrestored", "lost"} : End(result)
  BY DEF RollbackFails, RestoreFails, PowerLoss
<1>3. /\ UNCHANGED <<launcher, icon, registry, op, before>>
      /\ outcome' = result /\ pc' = "idle" /\ unsure' = Unsure(result) /\ old' = None
  BY <1>2 DEF RollbackFails, RestoreFails, PowerLoss, End, library
<1>4. /\ s \in Slugs /\ op.prev \in Slugs \cup {None} /\ op.version \in Versions
      /\ payload \in [Slugs -> Contents] /\ launcher \in [Slugs -> Records]
      /\ icon \in [Slugs -> Contents] /\ registry \in [Slugs -> Registrations \cup {None}]
      /\ old \in Contents /\ leftover \in Contents /\ Damaged \in Contents
      /\ before.registry \in [Slugs -> Registrations \cup {None}]
  BY <1>1, ShapesLemma DEF TypeInv
<1>5. \/ payload' = payload
      \/ pc = "rollback" /\ movedNew /\ payload' = [payload EXCEPT ![s] = Damaged]
  BY DEF RollbackFails, RestoreFails, PowerLoss, HalfRemoved, library, s
<1>6. \/ leftover' = old
      \/ leftover' = leftover /\ payload' = payload /\ pc \in {"relaunch", "reicon"}
  BY DEF RollbackFails, RestoreFails, PowerLoss, library
<1>7. unsure' = unsure \cup ({s, op.prev} \ {None})
  BY <1>2, <1>3, UnsureTyped
<1>8. \/ payload[s] = backup /\ (old = None \/ payload' = payload)
      \/ old = backup
  BY <1>1, <1>5 DEF PackageInv, InPlace, Away, Replaced, Busy, InstallSteps, UninstallSteps,
     UndoSteps
<1>9. pc = "rollback" /\ movedNew => old = backup
  BY <1>1 DEF PackageInv, Replaced
<1> HIDE DEF s, backup
<1>10. /\ payload' \in [Slugs -> Contents] /\ payload'[s] \in {payload[s], Damaged}
       /\ \A t \in Slugs \ {s} : payload'[t] = payload[t]
  BY <1>4, <1>5
<1>11. (Library \in Libraries)' /\ leftover' \in Contents
  BY <1>3, <1>4, <1>6, <1>10 DEF Library, Libraries
<1>12. ASSUME NEW t \in Slugs \ unsure' PROVE Agrees(Library, t)'
  <2>1. t # s /\ t # op.prev /\ t \in Slugs \ unsure
    BY <1>4, <1>7, <1>12, InstallAssumption
  <2>2. /\ payload'[t] = before.payload[t] /\ launcher[t] = before.launcher[t]
        /\ icon[t] = before.icon[t]
    BY <1>1, <1>10, <2>1 DEF OperationInv, s
  <2>3. registry[t] = before.registry[t]
    BY <1>1, <1>4, <2>1 DEF OperationInv, DoneInv, s
  <2>4. Agrees(before, t)
    BY <1>1, <2>1 DEF AgreeInv
  <2> QED
    BY <1>3, <2>2, <2>3, <2>4 DEF Agrees, Library
<1>13. \A t \in Slugs : Managed(t)' => payload'[t] # Foreign
  BY <1>1, <1>3, <1>10, InstallAssumption DEF OwnInv, Managed
<1>14. FailureRestores' /\ SuccessCompletes'
  BY <1>3 DEF FailureRestores, SuccessCompletes
<1>15. OldPackageKept'
  <2>1. backup \in {payload'[s], leftover'} \/ backup = None
    BY <1>5, <1>6, <1>8, <1>9, <1>1 DEF PackageInv, s, backup
  <2>2. before'.payload[op'.slug] = backup /\ op'.slug = s
    BY <1>3 DEF s, backup
  <2> QED
    BY <2>1, <2>2, InstallAssumption DEF OldPackageKept
<1> QED
  BY <1>2, <1>11, <1>12, <1>13, <1>14, <1>15, EndStep

-----------------------------------------------------------------------------
(* The refresh of the records.                                             *)

(* What is left to show of a step of a refresh that does not end it.       *)
LEMMA RefreshStep ==
  ASSUME IInv, UNCHANGED <<payload, registry, leftover, fresh, old, movedNew, before, unsure>>,
         pc \in {"idle"} \cup Refreshing, pc' \in Refreshing,
         launcher' \in [Slugs -> Records], icon' \in [Slugs -> Contents],
         outcome' = None, RefreshInv',
         \A s \in Slugs \ unsure : Agrees(Library, s) => Agrees(Library, s)'
  PROVE  IInv'
<1>1. TypeInv /\ PackageInv /\ AgreeInv /\ OwnInv
  BY DEF IInv
<1>2. pc' \notin Busy /\ pc' # "idle" /\ pc' \in {"refresh", "refreshicon"}
  BY DEF Busy, Refreshing, InstallSteps, UninstallSteps, UndoSteps
<1>3. TypeInv'
  <2>1. (Library \in Libraries)'
    BY <1>1, ShapesLemma DEF Library, Libraries
  <2>2. before' \in Libraries
    BY <1>1 DEF TypeInv
  <2> QED
    BY <1>1, <1>2, <2>1, <2>2 DEF TypeInv
<1>4. OperationInv' /\ RecordInv' /\ DoneInv' /\ IdleInv'
  BY <1>2 DEF OperationInv, RecordInv, DoneInv, IdleInv
<1>5. PackageInv'
  BY <1>1, <1>2 DEF PackageInv
<1>6. AgreeInv'
  BY <1>1, <1>2 DEF AgreeInv
<1>7. OwnInv'
  BY <1>1 DEF OwnInv, Managed
<1> QED
  BY <1>3, <1>4, <1>5, <1>6, <1>7 DEF IInv

LEMMA RefreshIInv ==
  ASSUME IInv, BeginRefresh \/ RefreshIcon \/ \E s \in Slugs : RefreshLauncher(s)
  PROVE  IInv'
<1>1. TypeInv /\ PackageInv /\ RefreshInv /\ AgreeInv
  BY DEF IInv
<1>2. /\ payload \in [Slugs -> Contents] /\ launcher \in [Slugs -> Records]
      /\ icon \in [Slugs -> Contents] /\ registry \in [Slugs -> Registrations \cup {None}]
      /\ before \in Libraries
      /\ Versions \subseteq Records
  BY <1>1, ShapesLemma DEF TypeInv
<1>3. CASE BeginRefresh
  <2>1. /\ pc = "idle" /\ pc' = "refresh" /\ op' = [kind |-> "refresh"] /\ games' = registry
        /\ outcome' = None /\ before' = Library /\ leftover' = None
        /\ todo' = {s \in Slugs : Managed(s)}
        /\ UNCHANGED <<payload, launcher, icon, registry, fresh, old, movedNew, unsure>>
    BY <1>3 DEF BeginRefresh, Begin, library, txn
  <2>2. pc' \notin Busy /\ pc' # "idle" /\ pc' \in {"idle"} \cup Busy \cup Refreshing
    BY <2>1 DEF Busy, Refreshing, InstallSteps, UninstallSteps, UndoSteps
  <2>3. TypeInv'
    <3>1. (Library \in Libraries)' /\ before' \in Libraries
      BY <1>2, <2>1, LibraryTyped DEF Library
    <3> QED
      BY <1>1, <2>1, <2>2, <3>1 DEF TypeInv, Contents
  <2>4. RefreshInv'
    <3>1. op'.kind = "refresh"
      BY <2>1
    <3>2. \A s \in Slugs : Managed(s)' <=> Managed(s)
      BY <2>1 DEF Managed
    <3> QED
      BY <2>1, <3>1, <3>2 DEF RefreshInv
  <2>5. OperationInv' /\ RecordInv' /\ DoneInv' /\ IdleInv'
    BY <2>1, <2>2 DEF OperationInv, RecordInv, DoneInv, IdleInv
  <2>6. PackageInv'
    BY <1>1, <2>1, <2>2 DEF PackageInv
  <2>7. AgreeInv'
    BY <1>1, <2>1, <2>2 DEF AgreeInv, Agrees, Library
  <2>8. OwnInv'
    BY <2>1 DEF OwnInv, Managed, IInv
  <2> QED
    BY <2>3, <2>4, <2>5, <2>6, <2>7, <2>8 DEF IInv
<1>4. ASSUME NEW s \in Slugs, RefreshLauncher(s) PROVE IInv'
  <2>1. /\ pc = "refresh" /\ pc' = "refreshicon" /\ s \in todo
        /\ launcher' = [launcher EXCEPT ![s] = games[s].version]
        /\ op' = [kind |-> "refresh", slug |-> s]
        /\ UNCHANGED <<payload, icon, registry, leftover, fresh, old, movedNew, games, todo,
                       outcome, before, unsure>>
    BY <1>4 DEF RefreshLauncher, txn, saved
  <2>2. games = registry /\ outcome = None /\ Managed(s) /\ pc \in Refreshing
    BY <1>1, <2>1 DEF RefreshInv, Refreshing
  <2>3. registry[s].version \in Versions
    BY <1>2, <2>2 DEF Managed, Registrations
  <2>4. /\ launcher' \in [Slugs -> Records] /\ launcher'[s] = registry[s].version
        /\ \A t \in Slugs \ {s} : launcher'[t] = launcher[t]
    BY <1>2, <2>1, <2>2, <2>3
  <2>5. RefreshInv'
    <3>1. op'.kind = "refresh" /\ op'.slug = s
      BY <2>1
    <3>2. \A t \in Slugs : Managed(t)' <=> Managed(t)
      BY <2>1 DEF Managed
    <3>3. /\ todo' \subseteq Slugs /\ \A t \in todo' : Managed(t)'
      BY <1>1, <2>1, <2>2, <3>2 DEF RefreshInv
    <3>4. \A t \in Slugs \ todo' : Managed(t)' => launcher'[t] = registry'[t].version /\
                                                  icon'[t] = payload'[t]
      BY <1>1, <2>1, <2>2, <2>4, <3>2 DEF RefreshInv
    <3> QED
      BY <2>1, <2>2, <2>4, <3>1, <3>3, <3>4 DEF RefreshInv
  <2>6. ASSUME NEW t \in Slugs, Agrees(Library, t) PROVE Agrees(Library, t)'
    <3>1. CASE t = s
      BY <2>1, <2>2, <2>4, <2>6, <3>1 DEF Agrees, Library, Managed
    <3>2. CASE t # s
      BY <2>1, <2>4, <2>6, <3>2 DEF Agrees, Library
    <3> QED
      BY <3>1, <3>2
  <2>7. pc' \in Refreshing
    BY <2>1 DEF Refreshing
  <2> QED
    BY <1>2, <2>1, <2>2, <2>4, <2>5, <2>6, <2>7, RefreshStep
<1>5. CASE RefreshIcon
  <2> DEFINE s == op.slug
  <2>1. /\ pc = "refreshicon" /\ pc' = "refresh"
        /\ icon' = [icon EXCEPT ![s] = payload[s]]
        /\ todo' = todo \ {s}
        /\ UNCHANGED <<payload, launcher, registry, leftover, op, fresh, old, movedNew, games,
                       outcome, before, unsure>>
    BY <1>5 DEF RefreshIcon, txn, saved
  <2>2. /\ games = registry /\ outcome = None /\ op.kind = "refresh" /\ pc \in Refreshing
        /\ todo \subseteq Slugs /\ s \in todo /\ launcher[s] = registry[s].version /\ Managed(s)
        /\ \A t \in todo : Managed(t)
        /\ \A t \in Slugs \ todo : Managed(t) => launcher[t] = registry[t].version /\
                                                icon[t] = payload[t]
    BY <1>1, <2>1 DEF RefreshInv, Refreshing
  <2> HIDE DEF s
  <2>3. /\ icon' \in [Slugs -> Contents] /\ icon'[s] = payload[s]
        /\ \A t \in Slugs \ {s} : icon'[t] = icon[t]
    BY <1>2, <2>1, <2>2
  <2>4. RefreshInv'
    <3>1. \A t \in Slugs : Managed(t)' <=> Managed(t)
      BY <2>1 DEF Managed
    <3>2. todo' \subseteq Slugs /\ \A t \in todo' : Managed(t)'
      BY <2>1, <2>2, <3>1
    <3>3. \A t \in Slugs \ todo' : Managed(t)' => launcher'[t] = registry'[t].version /\
                                                  icon'[t] = payload'[t]
      BY <2>1, <2>2, <2>3, <3>1
    <3> QED
      BY <2>1, <2>2, <3>2, <3>3 DEF RefreshInv
  <2>5. ASSUME NEW t \in Slugs, Agrees(Library, t) PROVE Agrees(Library, t)'
    <3>1. CASE t = s
      BY <2>1, <2>2, <2>3, <2>5, <3>1 DEF Agrees, Library, Managed
    <3>2. CASE t # s
      BY <2>1, <2>3, <2>5, <3>2 DEF Agrees, Library
    <3> QED
      BY <3>1, <3>2
  <2>6. pc' \in Refreshing
    BY <2>1 DEF Refreshing
  <2> QED
    BY <1>2, <2>1, <2>2, <2>3, <2>4, <2>5, <2>6, RefreshStep
<1> QED
  BY <1>3, <1>4, <1>5

(* A refresh that ends, is cut short or cut off.                           *)
LEMMA RefreshEndsIInv ==
  ASSUME IInv, \/ RefreshEnds
               \/ RefreshFails
               \/ PowerLoss /\ pc \in Refreshing
  PROVE  IInv'
<1>1. TypeInv /\ RefreshInv /\ AgreeInv /\ OwnInv
  BY DEF IInv
<1>2. pc \in {"refresh", "refreshicon"} /\ pc \in Refreshing
  BY DEF RefreshEnds, RefreshFails, Refreshing
<1>3. op.kind = "refresh" /\ games = registry
  BY <1>1, <1>2 DEF RefreshInv
<1>4. PICK result \in {"ok", "error", "lost"} :
        End(result) /\ (result = "ok" => RefreshEnds)
  BY DEF RefreshEnds, RefreshFails, PowerLoss
<1>5. /\ UNCHANGED <<payload, launcher, icon, registry, op, before>>
      /\ outcome' = result /\ pc' = "idle" /\ unsure' = Unsure(result)
  BY <1>2, <1>3, <1>4 DEF RefreshEnds, RefreshFails, PowerLoss, HalfRemoved, End, library
<1>6. unsure' = unsure
  BY <1>2, <1>3, <1>5, UnsureTyped
<1>7. leftover' \in Contents
  BY <1>1 DEF RefreshEnds, RefreshFails, PowerLoss, TypeInv, Contents
<1>8. (Library \in Libraries)'
  BY <1>1, <1>5 DEF TypeInv, Library
<1>9. \A s \in Slugs \ unsure' : Agrees(Library, s)'
  BY <1>1, <1>2, <1>5, <1>6 DEF AgreeInv, Agrees, Library
<1>10. \A s \in Slugs : Managed(s)' => payload'[s] # Foreign
  BY <1>1, <1>5 DEF OwnInv, Managed
<1>11. op'.kind = "refresh"
  BY <1>3, <1>5
<1>12. FailureRestores' /\ OldPackageKept'
  BY <1>11 DEF FailureRestores, OldPackageKept
<1>13. SuccessCompletes'
  <2>1. SUFFICES ASSUME result = "ok"
        PROVE  \A s \in Slugs : Managed(s)' => launcher'[s] = registry'[s].version /\
                                               icon'[s] = payload'[s]
    BY <1>5, <1>11 DEF SuccessCompletes
  <2>2. todo = {} /\ pc = "refresh"
    BY <1>4, <2>1 DEF RefreshEnds
  <2> QED
    BY <1>1, <1>2, <1>5, <2>2 DEF RefreshInv, Refreshing, Managed
<1> QED
  BY <1>2, <1>4, <1>7, <1>8, <1>9, <1>10, <1>12, <1>13, EndStep

-----------------------------------------------------------------------------
LEMMA NextIInv == IInv /\ [Next]_vars => IInv'
<1> SUFFICES ASSUME IInv, [Next]_vars PROVE IInv'
  OBVIOUS
<1>1. CASE Install
  BY <1>1, BeginIInv, InstallStepIInv DEF Install
<1>2. CASE Uninstall
  BY <1>2, BeginIInv, UninstallStepIInv, SuccessIInv, ErrorIInv DEF Uninstall
<1>3. CASE CleanUp \/ Undo
  BY <1>3, SuccessIInv, UndoStepIInv, ErrorIInv DEF Undo
<1>4. CASE Refresh
  BY <1>4, RefreshIInv, RefreshEndsIInv DEF Refresh
<1>5. CASE RollbackFails \/ RestoreFails
  <2>1. pc \in Busy
    BY <1>5 DEF RollbackFails, RestoreFails, Busy, UndoSteps
  <2> QED
    BY <1>5, <2>1, CutOffIInv
<1>6. CASE PowerLoss
  <2>1. pc \in Busy \cup Refreshing
    BY <1>6 DEF PowerLoss, IInv, TypeInv
  <2> QED
    BY <1>6, <2>1, CutOffIInv, RefreshEndsIInv
<1>7. CASE UNCHANGED vars
  <2>1. UNCHANGED <<payload, launcher, icon, registry, pc, fresh, old, movedNew, leftover, op,
                    games, oldLauncher, oldIcon, todo, outcome, before, unsure>>
    BY <1>7 DEF vars, library, txn, context, saved
  <2>2. TypeInv' /\ OperationInv' /\ PackageInv' /\ RecordInv' /\ DoneInv'
    BY <2>1 DEF IInv, TypeInv, Library, OperationInv, PackageInv, InPlace, Away, Replaced,
       RecordInv, DoneInv
  <2>3. RefreshInv' /\ AgreeInv' /\ OwnInv'
    BY <2>1 DEF IInv, RefreshInv, AgreeInv, Agrees, Library, OwnInv, Managed
  <2>4. IdleInv'
    BY <2>1 DEF IInv, IdleInv, FailureRestores, SuccessCompletes, OldPackageKept, Library, Managed
  <2> QED
    BY <2>2, <2>3, <2>4 DEF IInv
<1> QED
  BY <1>1, <1>2, <1>3, <1>4, <1>5, <1>6, <1>7 DEF Next

-----------------------------------------------------------------------------
(* What the invariant is for.                                              *)

LEMMA InvariantLemma == Spec => []IInv
BY InitIInv, NextIInv, PTL DEF Spec

(* Every directory, record and registration is one the code can write, and *)
(* an operation holds what its undoing will need.                          *)
THEOREM TypeCorrect == Spec => []TypeInv
<1>1. IInv => TypeInv
  BY DEF IInv
<1> QED
  BY <1>1, InvariantLemma, PTL

(* Between operations the registry, the directories and the library agree  *)
(* on every slug no operation was cut off on.                              *)
THEOREM ConsistentCorrect == Spec => []Consistent
<1>1. ASSUME IInv PROVE Consistent
  <2> SUFFICES ASSUME pc = "idle", NEW s \in Slugs \ unsure
               PROVE  LET content == {payload[s], launcher[s], icon[s]}
                      IN IF Managed(s) THEN content = {registry[s].version}
                         ELSE content \subseteq {None, Foreign}
    BY DEF Consistent
  <2>1. Agrees(Library, s)
    BY <1>1 DEF IInv, AgreeInv
  <2> QED
    BY <2>1 DEF Agrees, Library, Managed
<1> QED
  BY <1>1, InvariantLemma, PTL

(* An operation that fails has changed nothing, one that succeeds has done *)
(* everything.                                                             *)
THEOREM AllOrNothingCorrect == Spec => []AllOrNothing
<1>1. ASSUME IInv PROVE AllOrNothing
  <2>1. CASE pc = "idle"
    BY <1>1, <2>1 DEF IInv, IdleInv, AllOrNothing
  <2>2. CASE pc # "idle"
    BY <2>2 DEF AllOrNothing, FailureRestores, SuccessCompletes
  <2> QED
    BY <2>1, <2>2
<1> QED
  BY <1>1, InvariantLemma, PTL

(* The package an operation replaces or removes is on the disk, complete,  *)
(* until the operation has succeeded, whatever fails and whenever the      *)
(* power goes.                                                             *)
THEOREM OldPackageCorrect == Spec => []OldPackageKept
<1>1. ASSUME IInv PROVE OldPackageKept
  <2>1. CASE pc = "idle"
    BY <1>1, <2>1 DEF IInv, IdleInv
  <2>2. CASE pc \in Refreshing
    BY <1>1, <2>2 DEF IInv, RefreshInv, OldPackageKept
  <2>3. CASE pc \in Busy /\ pc # "cleanup"
    <3>1. \/ pc \in {"relaunch", "reicon"} /\ payload[op.slug] = before.payload[op.slug]
          \/ InPlace \/ Away \/ Replaced
      BY <1>1, <2>3 DEF IInv, PackageInv, Busy, InstallSteps, UninstallSteps, UndoSteps
    <3> QED
      BY <3>1 DEF InPlace, Away, Replaced, OldPackageKept
  <2>4. CASE pc = "cleanup"
    BY <2>4 DEF OldPackageKept
  <2> QED
    BY <1>1, <2>1, <2>2, <2>3, <2>4 DEF IInv, TypeInv
<1> QED
  BY <1>1, InvariantLemma, PTL

-----------------------------------------------------------------------------
(* The files of the user.                                                  *)

(* While an operation is at work, nothing under its slug is the user's.    *)
LEMMA OwnSlug ==
  ASSUME IInv, pc \in Busy \ {"forget", "cleanup"}
  PROVE  op.slug \in Slugs /\ payload[op.slug] # Foreign /\ launcher[op.slug] # Foreign
<1>1. op.slug \in Slugs /\ op.version \in Versions /\ TypeInv
  BY ShapesLemma DEF IInv
<1>2. /\ before.payload[op.slug] # Foreign /\ before.launcher[op.slug] # Foreign
      /\ launcher[op.slug] \in {before.launcher[op.slug], op.version, None}
  BY DEF IInv, OperationInv
<1>3. payload[op.slug] \in {before.payload[op.slug], op.version, None}
  BY DEF IInv, PackageInv, Busy, InstallSteps, UninstallSteps, UndoSteps, InPlace, Away, Replaced
<1> QED
  BY <1>1, <1>2, <1>3, InstallAssumption

(* A step that writes under the slug of the operation alone keeps them.    *)
LEMMA SlugStep ==
  ASSUME IInv, pc \in Busy \ {"forget", "cleanup"}, NEW p, NEW r,
         payload' = payload \/ payload' = [payload EXCEPT ![op.slug] = p],
         launcher' = launcher \/ launcher' = [launcher EXCEPT ![op.slug] = r],
         NEW s \in Slugs
  PROVE  /\ payload[s] = Foreign => payload'[s] = Foreign
         /\ launcher[s] = Foreign => launcher'[s] = Foreign
<1>1. payload \in [Slugs -> Contents] /\ launcher \in [Slugs -> Records]
  BY ShapesLemma DEF IInv
<1> QED
  BY <1>1, OwnSlug

(* No operation touches a directory or a library record of the user's.     *)
THEOREM ForeignCorrect == Spec => ForeignKept
<1> DEFINE Kept(s) == /\ payload[s] = Foreign => payload'[s] = Foreign
                      /\ launcher[s] = Foreign => launcher'[s] = Foreign
           Same == payload' = payload /\ launcher' = launcher
<1>1. ASSUME IInv, [Next]_vars, NEW s \in Slugs PROVE Kept(s)
  <2>1. CASE Install
    <3>1. CASE Same
      BY <3>1
    <3>2. CASE MoveOld \/ MoveNew \/ WriteLauncher
      <4>1. pc \in Busy \ {"forget", "cleanup"}
        BY <3>2 DEF MoveOld, MoveNew, WriteLauncher, Busy, InstallSteps
      <4>2. CASE MoveOld
        BY <1>1, <4>1, <4>2, SlugStep DEF MoveOld
      <4>3. CASE MoveNew
        BY <1>1, <4>1, <4>3, SlugStep DEF MoveNew
      <4>4. CASE WriteLauncher
        BY <1>1, <4>1, <4>4, SlugStep DEF WriteLauncher
      <4> QED
        BY <3>2, <4>2, <4>3, <4>4
    <3> QED
      BY <2>1, <3>1, <3>2 DEF Install, BeginInstall, Begin, Download, VerifyAndExtract,
         CopyIcon, Register, InstallFails, library
  <2>2. CASE Uninstall
    <3>1. CASE Same
      BY <3>1
    <3>2. CASE TakeGame \/ RemoveLauncher
      <4>1. pc \in Busy \ {"forget", "cleanup"}
        BY <3>2 DEF TakeGame, RemoveLauncher, Busy, UninstallSteps
      <4>2. CASE TakeGame
        BY <1>1, <4>1, <4>2, SlugStep DEF TakeGame
      <4>3. CASE RemoveLauncher
        BY <1>1, <4>1, <4>3, SlugStep DEF RemoveLauncher
      <4> QED
        BY <3>2, <4>2, <4>3
    <3> QED
      BY <2>2, <3>1, <3>2 DEF Uninstall, BeginUninstall, Begin, Forget, SaveForgotten,
         RemoveIcon, Unregister, UninstallFails, ForgetFails, library
  <2>3. CASE Undo
    <3>1. pc \in Busy \ {"forget", "cleanup"}
      BY <2>3 DEF Undo, RemoveNew, RestoreOld, RestoreLauncher, RestoreIcon, Busy, UndoSteps
    <3>2. CASE RemoveNew
      BY <1>1, <3>1, <3>2, SlugStep DEF RemoveNew
    <3>3. CASE RestoreOld
      BY <1>1, <3>1, <3>3, SlugStep DEF RestoreOld
    <3>4. CASE RestoreLauncher
      BY <1>1, <3>1, <3>4, SlugStep DEF RestoreLauncher
    <3>5. CASE RestoreIcon
      BY <3>5 DEF RestoreIcon
    <3> QED
      BY <2>3, <3>2, <3>3, <3>4, <3>5 DEF Undo
  <2>4. CASE Refresh
    <3>1. CASE Same
      BY <3>1
    <3>2. ASSUME NEW t \in Slugs, RefreshLauncher(t) PROVE Kept(s)
      <4>1. launcher \in [Slugs -> Records]
        BY <1>1, ShapesLemma DEF IInv
      <4> QED
        BY <3>2, <4>1 DEF RefreshLauncher, OwnRecord
    <3> QED
      BY <2>4, <3>1, <3>2 DEF Refresh, BeginRefresh, Begin, RefreshIcon, RefreshEnds,
         RefreshFails, library
  <2>5. CASE RollbackFails \/ PowerLoss
    <3>1. launcher' = launcher /\ payload' \in HalfRemoved
      BY <2>5 DEF RollbackFails, PowerLoss
    <3>2. CASE payload' = payload
      BY <3>1, <3>2
    <3>3. CASE pc = "rollback" /\ payload' = [payload EXCEPT ![op.slug] = Damaged]
      <4>1. pc \in Busy \ {"forget", "cleanup"}
        BY <3>3 DEF Busy, UndoSteps
      <4> QED
        BY <1>1, <3>1, <3>3, <4>1, SlugStep
    <3> QED
      BY <3>1, <3>2, <3>3 DEF HalfRemoved
  <2>6. CASE CleanUp \/ RestoreFails \/ UNCHANGED vars
    BY <2>6 DEF CleanUp, RestoreFails, vars, library
  <2> QED
    BY <1>1, <2>1, <2>2, <2>3, <2>4, <2>5, <2>6 DEF Next
<1>2. IInv /\ [Next]_vars =>
        [\A s \in Slugs : /\ payload[s] = Foreign => payload'[s] = Foreign
                          /\ launcher[s] = Foreign => launcher'[s] = Foreign]_vars
  BY <1>1
<1> QED
  BY <1>2, InvariantLemma, PTL DEF Spec, ForeignKept
=============================================================================
