--------------------------- MODULE UpdaterProofs ---------------------------
(***************************************************************************)
(* The updater of Updater, proved for every set of commits and every       *)
(* number of restarts, runs of the script and accidents: whatever stops an *)
(* installation, and wherever, the version the receipts tell is the        *)
(* version of every installed file that nothing else altered before the    *)
(* receipt was written, and an installation that is lost in a restart is   *)
(* reported before anything else is.                                       *)
(***************************************************************************)
EXTENDS Updater, TLAPS

Phases ==
  {"READY", "STARTING", "CHECKING", "CURRENT", "UPDATE AVAILABLE", "PREPARING",
   "UPDATING PI OS", "INSTALLING GAMEBIRD", "INSTALLING BOOT SPLASH",
   "VERIFYING GAMEBIRD", "RESTART REQUIRED", "REBOOTING", "ERROR"}
Contents == Commits \cup {None}
OnDisk   == Contents \cup Foreign(TRUE) \cup Foreign(FALSE)
Statuses ==
  [phase : Phases, os : BOOLEAN, shell : BOOLEAN, reboot : BOOLEAN, remote : Contents,
   op : Nat, boot : Nat]
Starts ==
  [pending : BOOLEAN, install : BOOLEAN, starting : BOOLEAN, waiting : BOOLEAN,
   guard : BOOLEAN, previous : Nat]
Scripts ==
  [kind : {"check", "install"},
   step : {"begin", "check", "prepare", "build", "files", "verify", "finish", "reboot"},
   at : Nat \ {0}, os : BOOLEAN, shell : BOOLEAN, remote : Contents, installed : Contents]
Records == [commit : Contents, boot : Nat]

(* What an installation and its receipt are.                               *)
InstallTypes ==
  /\ disk \in [Files -> OnDisk]
  /\ receipt = None \/ receipt \in [Covered -> OnDisk]
  /\ pending = None \/ pending \in Records
  /\ script = None \/ script \in Scripts
  /\ channel \in Commits /\ os \in BOOLEAN /\ sure \in Contents
  /\ runs \in Nat /\ boot \in Nat /\ events \in Nat

(* What is written to the status file, and what the screen makes of it.    *)
ReportTypes ==
  /\ status = None \/ status \in Statuses
  /\ screen \in Statuses
  /\ start \in Starts

TypeInv == InstallTypes /\ ReportTypes

(* A receipt names one version, but for the files that were altered before *)
(* it was written.                                                         *)
ReceiptInv ==
  receipt # None =>
    \A f, g \in Covered :
      receipt[f] \notin Foreign(TRUE) /\ receipt[g] \notin Foreign(TRUE) => receipt[f] = receipt[g]

(* The files an installation has been through are of its version, or       *)
(* altered since.                                                          *)
FilesInv ==
  /\ script # None /\ script.step \in {"begin", "prepare", "build"} => script.at = 1
  /\ In("install", "files") =>
       \A i \in 1..5 : i < script.at => disk[InstallOrder[i]] \in {script.remote} \cup Foreign(TRUE)

(* What is not confirmed is on record, and no check is past its beginning. *)
SureInv ==
  /\ sure # None => pending # None
  /\ In("check", "check") => sure = None

-----------------------------------------------------------------------------
(* Files and words.                                                        *)

(* What an installation goes through, in its order.                        *)
LEMMA OrderLemma ==
  /\ DOMAIN InstallOrder = 1..5 /\ Len(InstallOrder) = 5
  /\ Files = {InstallOrder[i] : i \in 1..5}
  /\ InstallOrder[3] = "boot" /\ InstallOrder[4] = "boot-splash.sha256"
  /\ InstallOrder[5] = "shell-commit"
<1>1. DOMAIN InstallOrder = 1..5 /\ Len(InstallOrder) = 5
  BY SMT DEF InstallOrder
<1>2. /\ InstallOrder[3] = "boot" /\ InstallOrder[4] = "boot-splash.sha256"
      /\ InstallOrder[5] = "shell-commit"
  BY Zenon DEF InstallOrder
<1> QED
  BY <1>1, <1>2, Zenon DEF Files

(* The receipt of the boot files is the fourth, and only that.             *)
LEMMA FourthLemma ==
  \A i \in 1..5 : InstallOrder[i] = InstallOrder[4] => i = 4
<1>1. /\ InstallOrder[1] # InstallOrder[4] /\ InstallOrder[2] # InstallOrder[4]
      /\ InstallOrder[3] # InstallOrder[4] /\ InstallOrder[5] # InstallOrder[4]
  BY Zenon DEF InstallOrder
<1> QED
  BY <1>1

(* The files a receipt is told from.                                       *)
LEMMA FilesLemma ==
  /\ \A i \in 1..5 : InstallOrder[i] \in Files
  /\ \A f \in Files : \E i \in 1..5 : f = InstallOrder[i]
  /\ "boot" \in Files
  /\ "boot-splash.sha256" \in Covered /\ "shell-commit" \in Covered
  /\ \A f \in Files : f \in Covered \/ f = "boot"
  /\ Covered \subseteq Files
<1>1. /\ \A i \in 1..5 : InstallOrder[i] \in Files
      /\ \A f \in Files : \E i \in 1..5 : f = InstallOrder[i]
  BY OrderLemma, Zenon
<1>2. 3 \in 1..5 /\ 4 \in 1..5 /\ 5 \in 1..5
  BY SMT
<1>3. "boot" \in Files /\ "boot-splash.sha256" \in Files /\ "shell-commit" \in Files
  BY <1>1, <1>2, OrderLemma, Zenon
<1>4. "boot-splash.sha256" \in Covered /\ "shell-commit" \in Covered
  BY <1>3, Zenon DEF Covered
<1> QED
  BY <1>1, <1>3, <1>4, Zenon DEF Covered

(* The words the script and the screen use are those of Phases.            *)
LEMMA PhasesLemma ==
  /\ "READY" \in Phases /\ "STARTING" \in Phases /\ "CHECKING" \in Phases
  /\ "CURRENT" \in Phases /\ "UPDATE AVAILABLE" \in Phases /\ "PREPARING" \in Phases
  /\ "UPDATING PI OS" \in Phases /\ "INSTALLING GAMEBIRD" \in Phases
  /\ "INSTALLING BOOT SPLASH" \in Phases /\ "VERIFYING GAMEBIRD" \in Phases
  /\ "RESTART REQUIRED" \in Phases /\ "REBOOTING" \in Phases /\ "ERROR" \in Phases
BY Zenon DEF Phases

(* What the script says is a status.                                       *)
LEMMA SaysTyped ==
  ASSUME NEW phase \in Phases, NEW osNew \in BOOLEAN, NEW shellNew \in BOOLEAN,
         NEW reboot \in BOOLEAN, NEW remote \in Contents, NEW inner \in BOOLEAN,
         runs \in Nat, boot \in Nat,
         Says(phase, osNew, shellNew, reboot, remote, inner)
  PROVE  status' \in Statuses
<1>1. Op(inner) \in Nat
  BY DEF Op
<1> QED
  BY <1>1 DEF Says, Status, Statuses

(* The version the receipts tell is a commit, or none.                     *)
LEMMA PayloadTyped ==
  PayloadCommit \in Contents
BY Zenon DEF PayloadCommit, Contents

-----------------------------------------------------------------------------
(* Type correctness.                                                       *)

(* Most steps leave what is installed alone.                               *)
LEMMA SameInstall ==
  ASSUME InstallTypes,
         UNCHANGED <<disk, receipt, pending, os, runs, boot, channel, sure, events>>,
         script' = None \/ script' \in Scripts
  PROVE  InstallTypes'
BY DEF InstallTypes

(* And the script does not touch the screen.                               *)
LEMMA SameScreen ==
  ASSUME ReportTypes, UNCHANGED shell, UNCHANGED status \/ status' \in Statuses
  PROVE  ReportTypes'
BY DEF ReportTypes, shell

LEMMA InitTypeInv == Init => TypeInv
<1> SUFFICES ASSUME Init PROVE TypeInv
  OBVIOUS
<1>1. InstallTypes
  <2>1. disk \in [Files -> OnDisk] /\ (receipt = None \/ receipt \in [Covered -> OnDisk])
    BY FilesLemma, UpdaterAssumption DEF Init, OnDisk, Contents
  <2>2. script = None /\ channel \in Commits /\ os \in BOOLEAN /\ sure = None /\ pending = None
    BY Zenon DEF Init
  <2>3. runs \in Nat /\ boot \in Nat /\ events \in Nat
    BY DEF Init
  <2> QED
    BY <2>1, <2>2, <2>3 DEF InstallTypes, Contents
<1>2. ReportTypes
  BY PhasesLemma, UpdaterAssumption
     DEF Init, ReportTypes, Statuses, Starts, Ready, NotStarted, Contents
<1> QED
  BY <1>1, <1>2 DEF TypeInv

(* A unit that starts begins with what is installed.                       *)
LEMMA StartUnitTyped ==
  ASSUME InstallTypes, NEW kind \in {"check", "install"}, StartUnit(kind)
  PROVE  (script' = None \/ script' \in Scripts) /\ runs' \in Nat
<1>1. CASE UNCHANGED <<script, runs>>
  BY <1>1 DEF InstallTypes
<1>2. CASE script' = Run(kind) /\ runs' = runs + 1
  <2>1. PayloadCommit \in Contents
    BY PayloadTyped
  <2> QED
    BY <1>2, <2>1 DEF InstallTypes, Run, Scripts, Contents
<1> QED
  BY <1>1, <1>2 DEF StartUnit

LEMMA ScriptStepTypeInv == TypeInv /\ (ScriptStep \/ ScriptFails) => TypeInv'
<1> SUFFICES ASSUME TypeInv, ScriptStep \/ ScriptFails PROVE TypeInv'
  OBVIOUS
<1>1. /\ script # None
      /\ script \in Scripts
  BY Zenon DEF TypeInv, InstallTypes, ScriptStep, ScriptFails, In, CheckReports, CheckBegins,
     CheckEnds, InstallRestarts, NothingToInstall, InstallBegins, InstallPackages, Build,
     InstallFile, WriteReceipt, Verify, RequestReboot
<1>2. /\ script.remote \in Contents /\ script.at \in Nat
      /\ script.os \in BOOLEAN /\ script.shell \in BOOLEAN
  BY <1>1 DEF Scripts
<1>3. /\ pending # None => pending.commit \in Contents
      /\ status # None => /\ status.os \in BOOLEAN /\ status.shell \in BOOLEAN
                          /\ status.remote \in Contents
      /\ channel \in Contents /\ None \in Contents /\ os \in BOOLEAN
      /\ runs \in Nat /\ boot \in Nat
  BY DEF TypeInv, InstallTypes, ReportTypes, Records, Statuses, Contents
<1>4. InstallTypes /\ ReportTypes
  BY DEF TypeInv
<1>5. CASE CheckReports
  <2>1. status' \in Statuses
    BY <1>3, <1>5, SaysTyped, PhasesLemma, Zenon DEF CheckReports
  <2> QED
    BY <1>4, <1>5, <2>1, SameInstall, SameScreen, Zenon DEF CheckReports, TypeInv, protected
<1>6. CASE CheckBegins
  <2>1. status' \in Statuses
    BY <1>3, <1>6, SaysTyped, PhasesLemma, Zenon DEF CheckBegins
  <2>2. /\ pending' = None /\ (sure' = sure \/ sure' = None) /\ script' = [script EXCEPT !.step = "check"]
        /\ UNCHANGED <<disk, receipt, os, runs, boot, channel, shell, events>>
    BY <1>6, Zenon DEF CheckBegins, Goes
  <2>3. InstallTypes'
    BY <1>1, <1>3, <1>4, <2>2 DEF InstallTypes, Scripts
  <2> QED
    BY <1>4, <2>1, <2>2, <2>3, SameScreen, Zenon DEF TypeInv
<1>7. CASE CheckEnds
  <2>1. (channel # script.installed) \in BOOLEAN
    OBVIOUS
  <2>2. status' \in Statuses
    BY <1>3, <1>7, <2>1, SaysTyped, PhasesLemma, Zenon DEF CheckEnds
  <2> QED
    BY <1>4, <1>7, <2>2, SameInstall, SameScreen, Zenon DEF CheckEnds, TypeInv, protected
<1>8. CASE InstallRestarts
  <2>1. status' \in Statuses
    BY <1>3, <1>8, SaysTyped, PhasesLemma, Zenon DEF InstallRestarts, RestartOnly, AwaitsRestart
  <2>2. \/ script' = None
        \/ pending # None /\ script' = [script EXCEPT !.step = "reboot", !.remote = pending.commit]
    BY <1>8, Zenon DEF InstallRestarts, RestartOnly, AwaitsRestart
  <2>3. script' = None \/ script' \in Scripts
    BY <1>1, <1>3, <2>2 DEF Scripts
  <2> QED
    BY <1>4, <1>8, <2>1, <2>3, SameInstall, SameScreen, Zenon DEF InstallRestarts, TypeInv, protected
<1>9. CASE NothingToInstall
  <2>1. status' \in Statuses
    BY <1>3, <1>9, SaysTyped, PhasesLemma, Zenon DEF NothingToInstall
  <2> QED
    BY <1>4, <1>9, <2>1, SameInstall, SameScreen, Zenon DEF NothingToInstall, TypeInv, protected
<1>10. CASE InstallBegins
  <2>1. status # None
    BY <1>10, Zenon DEF InstallBegins, Offered
  <2>2. status' \in Statuses
    BY <1>3, <1>10, <2>1, SaysTyped, PhasesLemma, Zenon DEF InstallBegins
  <2>3. script' = [script EXCEPT !.step = "prepare", !.os = status.os, !.shell = status.shell,
                                 !.remote = status.remote]
    BY <1>10, Zenon DEF InstallBegins
  <2>4. script' \in Scripts
    BY <1>1, <1>3, <2>1, <2>3 DEF Scripts
  <2> QED
    BY <1>4, <1>10, <2>2, <2>4, SameInstall, SameScreen, Zenon DEF InstallBegins, TypeInv, protected
<1>11. CASE InstallPackages
  <2>1. UNCHANGED status \/ status' \in Statuses
    BY <1>2, <1>3, <1>11, SaysTyped, PhasesLemma, Zenon DEF InstallPackages
  <2>2. /\ os' = (os /\ ~script.os)
        /\ \/ script' = [script EXCEPT !.step = "build"]
           \/ script' = [script EXCEPT !.step = "finish"]
        /\ UNCHANGED <<disk, receipt, pending, runs, boot, channel, shell, sure, events>>
    BY <1>11, Zenon DEF InstallPackages, Goes
  <2>3. os' \in BOOLEAN
    BY <2>2, Zenon
  <2>4. script' \in Scripts
    BY <1>1, <2>2 DEF Scripts
  <2>5. InstallTypes'
    BY <1>4, <2>2, <2>3, <2>4 DEF InstallTypes
  <2> QED
    BY <1>4, <2>1, <2>2, <2>5, SameScreen, Zenon DEF TypeInv
<1>12. CASE Build
  <2>1. status' \in Statuses
    BY <1>2, <1>3, <1>12, SaysTyped, PhasesLemma, Zenon DEF Build
  <2>2. script' = [script EXCEPT !.step = "files"]
    BY <1>12, Zenon DEF Build, Goes
  <2>3. script' \in Scripts
    BY <1>1, <2>2 DEF Scripts
  <2> QED
    BY <1>4, <1>12, <2>1, <2>3, SameInstall, SameScreen, Zenon DEF Build, TypeInv, protected
<1>13. CASE InstallFile
  <2>1. UNCHANGED status \/ status' \in Statuses
    BY <1>2, <1>3, <1>13, SaysTyped, PhasesLemma, Zenon DEF InstallFile
  <2>2. /\ disk' = [disk EXCEPT ![InstallOrder[script.at]] = Installed(InstallOrder[script.at])]
        /\ script' = [script EXCEPT !.at = @ + 1]
        /\ UNCHANGED <<receipt, pending, os, runs, boot, channel, shell, sure, events>>
    BY <1>13, Zenon DEF InstallFile
  <2>6. Installed(InstallOrder[script.at]) \in OnDisk
    BY <1>2, <1>4, FilesLemma DEF InstallTypes, Installed, OnDisk
  <2>3. disk' \in [Files -> OnDisk]
    BY <1>4, <2>2, <2>6 DEF InstallTypes
  <2>4. script' \in Scripts
    BY <1>1, <2>2 DEF Scripts
  <2>5. InstallTypes'
    BY <1>4, <2>2, <2>3, <2>4 DEF InstallTypes
  <2> QED
    BY <1>4, <2>1, <2>2, <2>5, SameScreen, Zenon DEF TypeInv
<1>14. CASE WriteReceipt
  <2>1. status' \in Statuses
    BY <1>2, <1>3, <1>14, SaysTyped, PhasesLemma, Zenon DEF WriteReceipt
  <2>2. /\ receipt' = [f \in Covered |-> disk[f]]
        /\ script' = [script EXCEPT !.step = "verify"]
        /\ UNCHANGED <<disk, pending, os, runs, boot, channel, shell, sure, events>>
    BY <1>14, Zenon DEF WriteReceipt, Goes
  <2>3. receipt' \in [Covered -> OnDisk]
    BY <1>4, <2>2, FilesLemma DEF InstallTypes
  <2>4. script' \in Scripts
    BY <1>1, <2>2 DEF Scripts
  <2>5. InstallTypes'
    BY <1>4, <2>2, <2>3, <2>4 DEF InstallTypes
  <2> QED
    BY <1>4, <2>1, <2>2, <2>5, SameScreen, Zenon DEF TypeInv
<1>15. CASE Verify
  <2>1. /\ pending' = [commit |-> script.remote, boot |-> boot]
        /\ sure' = script.remote
        /\ script' = [script EXCEPT !.step = "finish"]
        /\ UNCHANGED <<disk, receipt, os, status, runs, boot, channel, shell, events>>
    BY <1>15, Zenon DEF Verify, Goes
  <2>2. pending' \in Records /\ script' \in Scripts
    BY <1>1, <1>2, <1>3, <2>1 DEF Records, Scripts
  <2>3. InstallTypes'
    BY <1>2, <1>4, <2>1, <2>2 DEF InstallTypes
  <2> QED
    BY <1>4, <2>1, <2>3, SameScreen, Zenon DEF TypeInv
<1>16. CASE RequestReboot
  <2>1. status' \in Statuses
    BY <1>2, <1>3, <1>16, SaysTyped, PhasesLemma, Zenon DEF RequestReboot
  <2>2. script' = [script EXCEPT !.step = "reboot"]
    BY <1>16, Zenon DEF RequestReboot, Goes
  <2>3. script' \in Scripts
    BY <1>1, <2>2 DEF Scripts
  <2> QED
    BY <1>4, <1>16, <2>1, <2>3, SameInstall, SameScreen, Zenon DEF RequestReboot, TypeInv, protected
<1>17. CASE ScriptFails
  <2>1. status' \in Statuses
    BY <1>2, <1>3, <1>17, SaysTyped, PhasesLemma, Zenon DEF ScriptFails
  <2> QED
    BY <1>4, <1>17, <2>1, SameInstall, SameScreen, Zenon DEF ScriptFails, TypeInv, protected
<1> QED
  BY <1>5, <1>6, <1>7, <1>8, <1>9, <1>10, <1>11, <1>12, <1>13, <1>14, <1>15, <1>16, <1>17, Zenon
     DEF ScriptStep

(* A status as the screen takes it is a status.                            *)
LEMMA ParseTyped == \A s \in Statuses : ParseUpdateStatus(s) \in Statuses
<1> SUFFICES ASSUME NEW s \in Statuses PROVE ParseUpdateStatus(s) \in Statuses
  OBVIOUS
<1>1. Ready \in Statuses
  BY PhasesLemma DEF Ready, Statuses, Contents
<1>2. [Ready EXCEPT !.op = s.op, !.remote = s.remote, !.boot = s.boot] \in Statuses
  BY <1>1 DEF Statuses
<1> QED
  BY <1>2, Zenon DEF ParseUpdateStatus

LEMMA ShellStepTypeInv ==
  TypeInv /\ (StartUpdateAction \/ ShellStep) => TypeInv'
<1> SUFFICES ASSUME TypeInv, StartUpdateAction \/ ShellStep PROVE TypeInv'
  OBVIOUS
<1>1. InstallTypes /\ ReportTypes
  BY DEF TypeInv
<1>2. screen \in Statuses /\ start \in Starts
  BY <1>1 DEF ReportTypes
<1>3. UNCHANGED <<disk, receipt, pending, os, runs, boot, channel, sure, events>> /\
      (script' = None \/ script' \in Scripts) => InstallTypes'
  BY <1>1, SameInstall
<1>4. CASE StartUpdateAction
  <2>1. InstallTypes' /\ UNCHANGED status
    BY <1>1, <1>3, <1>4, Zenon DEF StartUpdateAction, InstallTypes, protected
  <2>2. PICK install \in BOOLEAN :
          /\ start' = [start EXCEPT !.pending = TRUE, !.guard = TRUE, !.install = install,
                                    !.previous = screen.op]
          /\ \/ screen' = [screen EXCEPT !.phase = "STARTING"]
             \/ screen' = [screen EXCEPT !.phase = "CHECKING"]
    <3> DEFINE wanted == screen.os \/ screen.shell \/ UpdateNeedsRestart(screen)
    <3>1. wanted \in BOOLEAN
      OBVIOUS
    <3>2. /\ start' = [start EXCEPT !.pending = TRUE, !.guard = TRUE, !.install = wanted,
                                    !.previous = screen.op]
          /\ \/ screen' = [screen EXCEPT !.phase = "STARTING"]
             \/ screen' = [screen EXCEPT !.phase = "CHECKING"]
      BY <1>4, Zenon DEF StartUpdateAction
    <3> QED
      BY <3>1, <3>2, Zenon
  <2>3. screen' \in Statuses
    BY <1>2, <2>2, PhasesLemma DEF Statuses
  <2>4. start' \in Starts
    BY <1>2, <2>2 DEF Statuses, Starts
  <2> QED
    BY <1>1, <2>1, <2>3, <2>4 DEF TypeInv, ReportTypes
<1>5. CASE DispatchUpdateAction
  <2>1. InstallTypes' /\ UNCHANGED <<status, screen>>
    BY <1>1, <1>3, <1>5, Zenon DEF DispatchUpdateAction, InstallTypes, protected
  <2>2. start' \in Starts
    BY <1>2, <1>5 DEF DispatchUpdateAction, Starts
  <2> QED
    BY <1>1, <2>1, <2>2 DEF TypeInv, ReportTypes
<1>6. CASE SystemctlEnds
  <2>1. start' = [start EXCEPT !.starting = FALSE] \/
        start' = [start EXCEPT !.starting = FALSE, !.waiting = FALSE]
    BY <1>6, Zenon DEF SystemctlEnds
  <2>2. start' \in Starts
    BY <1>2, <2>1 DEF Starts
  <2>3. UNCHANGED screen \/ screen' = [screen EXCEPT !.phase = "ERROR"]
    BY <1>6, Zenon DEF SystemctlEnds, Error
  <2>4. screen' \in Statuses
    BY <1>2, <2>3, PhasesLemma DEF Statuses
  <2>5. UNCHANGED <<disk, receipt, pending, os, status, boot, channel, sure, events>>
    BY <1>6, Zenon DEF SystemctlEnds, protected
  <2>6. UNCHANGED <<script, runs>> \/ StartUnit("install") \/ StartUnit("check")
    BY <1>6, Zenon DEF SystemctlEnds
  <2>7. (script' = None \/ script' \in Scripts) /\ runs' \in Nat
    BY <1>1, <2>6, StartUnitTyped DEF InstallTypes
  <2>8. InstallTypes'
    BY <1>1, <2>5, <2>7 DEF InstallTypes
  <2> QED
    BY <1>1, <2>2, <2>4, <2>5, <2>8 DEF TypeInv, ReportTypes
<1>7. CASE NoResponse
  <2>1. InstallTypes' /\ UNCHANGED status
    BY <1>1, <1>3, <1>7, Zenon DEF NoResponse, InstallTypes, protected
  <2>2. start' \in Starts /\ screen' \in Statuses
    BY <1>2, <1>7, PhasesLemma DEF NoResponse, Error, Starts, Statuses
  <2> QED
    BY <1>1, <2>1, <2>2 DEF TypeInv, ReportTypes
<1>8. CASE ReadUpdateStatus
  <2>1. InstallTypes' /\ UNCHANGED status
    BY <1>1, <1>3, <1>8, Zenon DEF ReadUpdateStatus, InstallTypes, protected
  <2>2. screen' \in Statuses
    BY <1>1, <1>8, ParseTyped, Zenon DEF ReadUpdateStatus, ReportTypes
  <2>3. start' \in Starts
    BY <1>2, <1>8 DEF ReadUpdateStatus, Starts
  <2> QED
    BY <1>1, <2>1, <2>2, <2>3 DEF TypeInv, ReportTypes
<1> QED
  BY <1>4, <1>5, <1>6, <1>7, <1>8, Zenon DEF ShellStep

(* A file that changed is of no commit.                                    *)
LEMMA ChangedTyped ==
  ASSUME disk \in [Files -> OnDisk], events' \in Nat, NEW f, NEW installing \in BOOLEAN,
         Changed(f, installing)
  PROVE  /\ disk' \in [Files -> OnDisk]
         /\ \A g \in Files : disk'[g] \in {disk[g]} \cup Foreign(installing)
<1>1. [change |-> events', installing |-> installing] \in Foreign(installing)
  BY DEF Foreign
<1>2. \A g \in Files : disk'[g] \in {disk[g]} \cup Foreign(installing)
  BY <1>1 DEF Changed
<1>3. Foreign(installing) \subseteq OnDisk
  BY DEF OnDisk
<1> QED
  BY <1>2, <1>3 DEF Changed

LEMMA NextTypeInv == TypeInv /\ [Next]_vars => TypeInv'
<1> SUFFICES ASSUME TypeInv, [Next]_vars PROVE TypeInv'
  OBVIOUS
<1>1. InstallTypes /\ ReportTypes
  BY DEF TypeInv
<1>2. Ready \in Statuses /\ NotStarted \in Starts
  BY PhasesLemma DEF Ready, NotStarted, Statuses, Starts, Contents
<1>3. CASE TimerCheck
  <2>1. UNCHANGED <<disk, receipt, pending, os, status, boot, channel, screen, start, sure, events>>
    BY <1>3, Zenon DEF TimerCheck, protected, shell
  <2>2. (script' = None \/ script' \in Scripts) /\ runs' \in Nat
    BY <1>1, <1>3, StartUnitTyped DEF TimerCheck
  <2> QED
    BY <1>1, <2>1, <2>2 DEF TypeInv, InstallTypes, ReportTypes
<1>4. CASE Reboot
  <2>1. /\ boot' = boot + 1 /\ script' = None /\ screen' = Ready /\ start' = NotStarted
        /\ UNCHANGED <<disk, receipt, pending, os, status, runs, channel, sure, events>>
    BY <1>4, Zenon DEF Reboot, NextBoot
  <2> QED
    BY <1>1, <1>2, <2>1 DEF TypeInv, InstallTypes, ReportTypes
<1>5. CASE PowerLoss
  <2>1. /\ boot' = boot + 1 /\ script' = None /\ screen' = Ready /\ start' = NotStarted
        /\ events' = events + 1
        /\ UNCHANGED <<receipt, pending, os, status, runs, channel, sure>>
    BY <1>5, Zenon DEF PowerLoss, NextBoot, Happens
  <2>2. UNCHANGED disk \/ Changed(InstallOrder[script.at], FALSE)
    BY <1>5, Zenon DEF PowerLoss
  <2>4. events' \in Nat
    BY <1>1, <2>1 DEF InstallTypes
  <2>3. disk' \in [Files -> OnDisk]
    BY <1>1, <2>2, <2>4, ChangedTyped, Zenon DEF InstallTypes
  <2> QED
    BY <1>1, <1>2, <2>1, <2>3 DEF TypeInv, InstallTypes, ReportTypes
<1>6. CASE Alter
  <2>2. /\ events' = events + 1
        /\ UNCHANGED <<receipt, pending, os, status, script, runs, boot, channel, shell, sure>>
    BY <1>6, Zenon DEF Alter, Happens
  <2>3. events' \in Nat /\ In("install", "files") \in BOOLEAN
    BY <1>1, <2>2 DEF InstallTypes, In
  <2>1. disk' \in [Files -> OnDisk]
    BY <1>1, <1>6, <2>3, ChangedTyped, Zenon DEF Alter, InstallTypes
  <2> QED
    BY <1>1, <2>1, <2>2 DEF TypeInv, InstallTypes, ReportTypes, shell
<1>7. CASE Publish
  <2>1. /\ events' = events + 1
        /\ UNCHANGED <<disk, receipt, pending, status, script, runs, boot, shell, sure>>
    BY <1>7, Zenon DEF Publish, Happens
  <2>2. channel' \in Commits /\ os' \in BOOLEAN
    BY <1>1, <1>7 DEF Publish, InstallTypes
  <2> QED
    BY <1>1, <2>1, <2>2 DEF TypeInv, InstallTypes, ReportTypes, shell
<1>8. CASE ShellRestarts
  <2>1. /\ events' = events + 1 /\ screen' = Ready /\ start' = NotStarted
        /\ UNCHANGED <<disk, receipt, pending, os, status, script, runs, boot, channel, sure>>
    BY <1>8, Zenon DEF ShellRestarts, Happens, protected
  <2> QED
    BY <1>1, <1>2, <2>1 DEF TypeInv, InstallTypes, ReportTypes
<1>9. CASE UNCHANGED vars
  BY <1>1, <1>9 DEF TypeInv, InstallTypes, ReportTypes, vars, protected, shell
<1> QED
  BY <1>3, <1>4, <1>5, <1>6, <1>7, <1>8, <1>9, ScriptStepTypeInv, ShellStepTypeInv, Zenon DEF Next

(* What is installed, what is recorded and reported of it, and what the    *)
(* screen holds keep their shape.                                          *)
THEOREM TypeCorrect == Spec => []TypeInv
<1>1. Init => TypeInv
  BY InitTypeInv
<1>2. TypeInv /\ [Next]_vars => TypeInv'
  BY NextTypeInv
<1> QED
  BY <1>1, <1>2, PTL DEF Spec

-----------------------------------------------------------------------------
(* The version that is installed.                                          *)

VersionInv == ReceiptInv /\ FilesInv

LEMMA InitVersionInv == Init => VersionInv
<1> SUFFICES ASSUME Init PROVE VersionInv
  OBVIOUS
<1>1. script = None
  BY Zenon DEF Init
<1>2. ReceiptInv
  <2>1. receipt \in {None, [f \in Covered |-> Shipped]}
    BY Zenon DEF Init
  <2> QED
    BY <2>1 DEF ReceiptInv
<1> QED
  BY <1>1, <1>2, Zenon DEF VersionInv, FilesInv, In

(* The steps that leave the files and the receipt alone and take the       *)
(* script nowhere near the files.                                          *)
LEMMA SameVersion ==
  ASSUME VersionInv, UNCHANGED <<disk, receipt>>,
         \/ script' = script
         \/ script' = None
         \/ script'.step \notin {"begin", "prepare", "build", "files"}
         \/ script'.step \in {"begin", "prepare", "build"} /\ script'.at = 1
  PROVE  VersionInv'
<1>1. ReceiptInv'
  BY DEF VersionInv, ReceiptInv
<1>2. FilesInv'
  BY DEF VersionInv, FilesInv, In
<1> QED
  BY <1>1, <1>2 DEF VersionInv

(* The files a script puts in place, and the receipt it writes of them.    *)
LEMMA ScriptStepVersionInv == TypeInv /\ VersionInv /\ (ScriptStep \/ ScriptFails) => VersionInv'
<1> SUFFICES ASSUME TypeInv, VersionInv, ScriptStep \/ ScriptFails PROVE VersionInv'
  OBVIOUS
<1>1. InstallTypes
  BY DEF TypeInv
<1>2. CASE script' = None /\ UNCHANGED <<disk, receipt>>
  BY <1>2, SameVersion
<1>3. CASE CheckReports \/ CheckEnds \/ NothingToInstall \/ ScriptFails
  BY <1>2, <1>3, Zenon DEF CheckReports, CheckEnds, NothingToInstall, ScriptFails, protected
<1>4. CASE CheckBegins \/ RequestReboot
  <2>1. /\ script # None
        /\ script' = [script EXCEPT !.step = "check"] \/ script' = [script EXCEPT !.step = "reboot"]
        /\ UNCHANGED <<disk, receipt>>
    BY <1>4, Zenon DEF CheckBegins, RequestReboot, Goes, In, protected
  <2>2. script'.step \notin {"begin", "prepare", "build", "files"}
    BY <1>1, <2>1 DEF InstallTypes, Scripts
  <2> QED
    BY <2>1, <2>2, SameVersion
<1>5. CASE InstallRestarts
  <2>1. /\ script # None
        /\ \/ script' = [script EXCEPT !.step = "reboot", !.remote = pending.commit]
           \/ script' = None
        /\ UNCHANGED <<disk, receipt>>
    BY <1>5, Zenon DEF InstallRestarts, In, protected
  <2>2. script' = None \/ script'.step \notin {"begin", "prepare", "build", "files"}
    BY <1>1, <2>1 DEF InstallTypes, Scripts
  <2> QED
    BY <2>1, <2>2, SameVersion
<1>6. CASE InstallBegins
  <2>1. /\ script # None /\ script.step = "begin"
        /\ script' = [script EXCEPT !.step = "prepare", !.os = status.os, !.shell = status.shell,
                                    !.remote = status.remote]
        /\ UNCHANGED <<disk, receipt>>
    BY <1>6, Zenon DEF InstallBegins, In, protected
  <2>2. script'.step = "prepare" /\ script'.at = 1
    BY <1>1, <2>1 DEF InstallTypes, Scripts, VersionInv, FilesInv
  <2> QED
    BY <2>1, <2>2, SameVersion
<1>7. CASE InstallPackages
  <2>1. /\ script # None /\ script.step = "prepare"
        /\ \/ script' = [script EXCEPT !.step = "build"]
           \/ script' = [script EXCEPT !.step = "finish"]
        /\ UNCHANGED <<disk, receipt>>
    BY <1>7, Zenon DEF InstallPackages, In, Goes
  <2>2. script'.step = "finish" \/ (script'.step = "build" /\ script'.at = 1)
    BY <1>1, <2>1 DEF InstallTypes, Scripts, VersionInv, FilesInv
  <2> QED
    BY <2>1, <2>2, SameVersion
<1>8. CASE Build
  <2>1. /\ script # None /\ script.step = "build"
        /\ script' = [script EXCEPT !.step = "files"]
        /\ UNCHANGED <<disk, receipt>>
    BY <1>8, Zenon DEF Build, In, Goes, protected
  <2>2. script'.step = "files" /\ script'.at = 1
    BY <1>1, <2>1 DEF InstallTypes, Scripts, VersionInv, FilesInv
  <2>3. \A i \in 1..5 : ~(i < script'.at)
    BY <2>2
  <2>4. ReceiptInv'
    BY <2>1 DEF VersionInv, ReceiptInv
  <2>5. script'.step \notin {"begin", "prepare", "build"}
    BY <2>2
  <2>6. FilesInv'
    BY <2>3, <2>5, Zenon DEF FilesInv
  <2> QED
    BY <2>4, <2>6 DEF VersionInv
<1>9. CASE InstallFile
  <2>1. /\ In("install", "files") /\ script.at <= Len(InstallOrder)
        /\ disk' = [disk EXCEPT ![InstallOrder[script.at]] = Installed(InstallOrder[script.at])]
        /\ script' = [script EXCEPT !.at = @ + 1]
        /\ UNCHANGED receipt
    BY <1>9, Zenon DEF InstallFile
  <2>2. /\ script \in Scripts /\ script.at \in Nat \ {0}
        /\ script'.step = "files" /\ script'.at = script.at + 1 /\ script'.remote = script.remote
    BY <1>1, <2>1 DEF InstallTypes, Scripts, In
  <2>3. ASSUME NEW i \in 1..5, i < script'.at
        PROVE  disk'[InstallOrder[i]] \in {script'.remote} \cup Foreign(TRUE)
    <3>1. CASE InstallOrder[i] = InstallOrder[script.at]
      <4>1. disk'[InstallOrder[i]] = Installed(InstallOrder[i])
        BY <1>1, <2>1, <3>1, FilesLemma DEF InstallTypes
      <4>2. ASSUME InstallOrder[i] = "boot-splash.sha256"
            PROVE  disk["boot"] \in {script.remote} \cup Foreign(TRUE)
        <5>1. script.at \in 1..5
          BY <2>1, <2>2, OrderLemma
        <5>2. InstallOrder[script.at] = InstallOrder[4]
          BY <3>1, <4>2, OrderLemma, Zenon
        <5>3. script.at = 4
          BY <5>1, <5>2, FourthLemma, Zenon
        <5>4. 3 \in 1..5 /\ 3 < script.at
          BY <5>3
        <5>5. disk[InstallOrder[3]] \in {script.remote} \cup Foreign(TRUE)
          BY <2>1, <5>4, Zenon DEF VersionInv, FilesInv
        <5> QED
          BY <5>5, OrderLemma, Zenon
      <4> QED
        BY <2>2, <4>1, <4>2 DEF Installed
    <3>2. CASE InstallOrder[i] # InstallOrder[script.at]
      <4>1. i < script.at
        BY <2>2, <2>3, <3>2
      <4>2. disk[InstallOrder[i]] \in {script.remote} \cup Foreign(TRUE)
        BY <2>1, <4>1 DEF VersionInv, FilesInv
      <4> QED
        BY <1>1, <2>1, <2>2, <3>2, <4>2, FilesLemma DEF InstallTypes
    <3> QED
      BY <3>1, <3>2
  <2>4. ReceiptInv'
    BY <2>1 DEF VersionInv, ReceiptInv
  <2>5. FilesInv'
    BY <2>2, <2>3 DEF FilesInv, In
  <2> QED
    BY <2>4, <2>5 DEF VersionInv
<1>10. CASE WriteReceipt
  <2>1. /\ In("install", "files") /\ script.at > 5
        /\ receipt' = [f \in Covered |-> disk[f]]
        /\ script' = [script EXCEPT !.step = "verify"]
        /\ UNCHANGED disk
    BY <1>10, OrderLemma, Zenon DEF WriteReceipt, Goes
  <2>2. script \in Scripts /\ script.at \in Nat /\ script'.step = "verify"
    BY <1>1, <2>1 DEF InstallTypes, Scripts, In
  <2>7. \A i \in 1..5 : i < script.at
    BY <2>1, <2>2
  <2>3. \A i \in 1..5 : disk[InstallOrder[i]] \in {script.remote} \cup Foreign(TRUE)
    BY <2>1, <2>7, Zenon DEF VersionInv, FilesInv
  <2>4. \A f \in Files : disk[f] \in {script.remote} \cup Foreign(TRUE)
    BY <2>3, FilesLemma, Zenon
  <2>5. ReceiptInv'
    BY <2>1, <2>4, FilesLemma DEF ReceiptInv
  <2>6. FilesInv'
    BY <2>2 DEF FilesInv, In
  <2> QED
    BY <2>5, <2>6 DEF VersionInv
<1>11. CASE Verify
  <2>1. /\ script # None /\ script' = [script EXCEPT !.step = "finish"]
        /\ UNCHANGED <<disk, receipt>>
    BY <1>11, Zenon DEF Verify, Goes, In
  <2>2. script'.step = "finish"
    BY <1>1, <2>1 DEF InstallTypes, Scripts
  <2> QED
    BY <2>1, <2>2, SameVersion
<1> QED
  BY <1>3, <1>4, <1>5, <1>6, <1>7, <1>8, <1>9, <1>10, <1>11, Zenon DEF ScriptStep

(* A file that is altered is of no version, and says whether a script was  *)
(* installing files then; one that is torn has stopped the script.         *)
LEMMA AlterVersionInv ==
  ASSUME TypeInv, VersionInv, NEW f, NEW installing \in BOOLEAN, Changed(f, installing),
         events' \in Nat, UNCHANGED receipt,
         script' = None \/ (UNCHANGED script /\ installing = In("install", "files"))
  PROVE  VersionInv'
<1>1. \A g \in Files : disk'[g] \in {disk[g]} \cup Foreign(installing)
  BY ChangedTyped, Zenon DEF TypeInv, InstallTypes
<1>2. FilesInv'
  <2>1. CASE script' = None
    BY <2>1 DEF FilesInv, In
  <2>2. CASE UNCHANGED script /\ installing = In("install", "files")
    <3>1. script' # None /\ script'.step \in {"begin", "prepare", "build"} => script'.at = 1
      BY <2>2 DEF VersionInv, FilesInv
    <3>2. ASSUME In("install", "files"), NEW i \in 1..5, i < script.at
          PROVE  disk'[InstallOrder[i]] \in {script.remote} \cup Foreign(TRUE)
      <4>1. disk[InstallOrder[i]] \in {script.remote} \cup Foreign(TRUE)
        BY <3>2 DEF VersionInv, FilesInv
      <4>2. disk'[InstallOrder[i]] \in {disk[InstallOrder[i]]} \cup Foreign(TRUE)
        BY <1>1, <2>2, <3>2, FilesLemma, Zenon
      <4> QED
        BY <4>1, <4>2
    <3> QED
      BY <2>2, <3>1, <3>2 DEF FilesInv, In
  <2> QED
    BY <2>1, <2>2
<1> QED
  BY <1>2 DEF VersionInv, ReceiptInv

LEMMA NextVersionInv == TypeInv /\ VersionInv /\ [Next]_vars => VersionInv'
<1> SUFFICES ASSUME TypeInv, VersionInv, [Next]_vars PROVE VersionInv'
  OBVIOUS
<1>1. ASSUME NEW kind \in {"check", "install"}, StartUnit(kind), UNCHANGED <<disk, receipt>>
      PROVE  VersionInv'
  <2>1. UNCHANGED script \/ (script'.step = "begin" /\ script'.at = 1)
    <3>1. Run(kind).step = "begin" /\ Run(kind).at = 1
      BY DEF Run
    <3>2. UNCHANGED script \/ script' = Run(kind)
      BY <1>1, Zenon DEF StartUnit
    <3> QED
      BY <3>1, <3>2
  <2> QED
    BY <1>1, <2>1, SameVersion
<1>2. CASE TimerCheck
  BY <1>1, <1>2, Zenon DEF TimerCheck, protected
<1>3. CASE SystemctlEnds
  <2>1. /\ StartUnit("install") \/ StartUnit("check") \/ UNCHANGED script
        /\ UNCHANGED <<disk, receipt>>
    BY <1>3, Zenon DEF SystemctlEnds, protected
  <2> QED
    BY <1>1, <2>1, SameVersion
<1>4. CASE Reboot
  <2>1. script' = None /\ UNCHANGED <<disk, receipt>>
    BY <1>4, Zenon DEF Reboot, NextBoot
  <2> QED
    BY <2>1, SameVersion
<1>5. CASE PowerLoss
  <2>1. script' = None /\ UNCHANGED receipt /\ events' = events + 1
    BY <1>5, Zenon DEF PowerLoss, NextBoot, Happens
  <2>2. UNCHANGED disk \/ Changed(InstallOrder[script.at], FALSE)
    BY <1>5, Zenon DEF PowerLoss
  <2>3. events' \in Nat
    BY <2>1 DEF TypeInv, InstallTypes
  <2>4. CASE UNCHANGED disk
    BY <2>1, <2>4, SameVersion
  <2>5. CASE Changed(InstallOrder[script.at], FALSE)
    BY <2>1, <2>3, <2>5, AlterVersionInv, Zenon
  <2> QED
    BY <2>2, <2>4, <2>5
<1>6. CASE Alter
  <2>1. UNCHANGED <<receipt, script>> /\ events' = events + 1
    BY <1>6, Zenon DEF Alter, Happens
  <2>2. PICK f \in Files : Changed(f, In("install", "files"))
    BY <1>6, Zenon DEF Alter
  <2>3. events' \in Nat /\ In("install", "files") \in BOOLEAN
    BY <2>1 DEF TypeInv, InstallTypes, In
  <2> QED
    BY <2>1, <2>2, <2>3, AlterVersionInv, Zenon
<1>7. CASE \/ Publish \/ ShellRestarts \/ StartUpdateAction \/ DispatchUpdateAction
           \/ NoResponse \/ ReadUpdateStatus \/ UNCHANGED vars
  <2>1. UNCHANGED <<disk, receipt, script>>
    BY <1>7, Zenon DEF Publish, ShellRestarts, StartUpdateAction, DispatchUpdateAction,
       NoResponse, ReadUpdateStatus, vars, protected
  <2> QED
    BY <2>1, SameVersion
<1> QED
  BY <1>2, <1>3, <1>4, <1>5, <1>6, <1>7, ScriptStepVersionInv, Zenon DEF Next, ShellStep

(* "A power loss between these renames invalidates the old receipt instead *)
(* of mislabelling new binaries with the previous commit": a version the   *)
(* receipts tell is that of every installed file, wherever an installation *)
(* was stopped, by a failed command, by the other unit or by the power.    *)
(* What something else changed while the files were being installed is     *)
(* excepted: the receipt takes it as it is.                                *)
THEOREM VersionCorrect == Spec => []VersionTrue
<1>1. Init => TypeInv /\ VersionInv
  BY InitTypeInv, InitVersionInv
<1>2. TypeInv /\ VersionInv /\ [Next]_vars => (TypeInv /\ VersionInv)'
  BY NextTypeInv, NextVersionInv
<1>3. TypeInv /\ VersionInv => VersionTrue
  <2> SUFFICES ASSUME TypeInv, VersionInv, PayloadCommit # None, NEW f \in Files
               PROVE  disk[f] \in {PayloadCommit} \cup Foreign(TRUE)
    BY Zenon DEF VersionTrue
  <2>1. /\ receipt # None /\ disk["shell-commit"] \in Commits
        /\ \A g \in Covered : receipt[g] = disk[g]
        /\ disk["boot-splash.sha256"] = disk["boot"]
        /\ PayloadCommit = disk["shell-commit"]
    BY Zenon DEF PayloadCommit
  <2>2. ReceiptInv /\ disk["shell-commit"] \notin Foreign(TRUE)
    BY <2>1, UpdaterAssumption DEF VersionInv
  <2>3. \A g \in Covered : disk[g] \in {PayloadCommit} \cup Foreign(TRUE)
    BY <2>1, <2>2, FilesLemma DEF ReceiptInv
  <2>4. CASE f \in Covered
    BY <2>3, <2>4
  <2>5. CASE f = "boot"
    BY <2>1, <2>3, <2>5, FilesLemma, Zenon
  <2> QED
    BY <2>4, <2>5, FilesLemma, Zenon
<1> QED
  BY <1>1, <1>2, <1>3, PTL DEF Spec

-----------------------------------------------------------------------------
(* Installations that are lost.                                            *)

LEMMA InitSureInv == Init => SureInv
BY Zenon DEF Init, SureInv, In

(* Nothing but a check that begins, and an installation that ends, touches *)
(* the record.                                                             *)
LEMMA SameSure ==
  ASSUME SureInv, UNCHANGED <<pending, sure>>,
         \/ script' = script
         \/ script' = None
         \/ script'.step # "check"
  PROVE  SureInv'
BY DEF SureInv, In

LEMMA NextSureInv == TypeInv /\ SureInv /\ [Next]_vars => SureInv'
<1> SUFFICES ASSUME TypeInv, SureInv, [Next]_vars PROVE SureInv'
  OBVIOUS
<1>1. InstallTypes
  BY DEF TypeInv
<1>2. ASSUME NEW kind \in {"check", "install"}, StartUnit(kind), UNCHANGED <<pending, sure>>
      PROVE  SureInv'
  <2>1. Run(kind).step = "begin"
    BY DEF Run
  <2>2. UNCHANGED script \/ script' = Run(kind)
    BY <1>2, Zenon DEF StartUnit
  <2> QED
    BY <1>2, <2>1, <2>2, SameSure
<1>3. CASE CheckBegins
  <2>1. /\ script # None /\ script' = [script EXCEPT !.step = "check"]
        /\ pending' = None
        /\ sure' = IF pending = None THEN sure ELSE None
    BY <1>3, Zenon DEF CheckBegins, Goes, In
  <2> QED
    BY <2>1 DEF SureInv
<1>4. CASE Verify
  <2>1. /\ script # None /\ script' = [script EXCEPT !.step = "finish"]
        /\ pending' = [commit |-> script.remote, boot |-> boot]
    BY <1>4, Zenon DEF Verify, Goes, In
  <2>2. script'.step = "finish"
    BY <1>1, <2>1 DEF InstallTypes, Scripts
  <2>3. pending' \in [commit : Commits \cup {None}, boot : Nat]
    BY <1>1, <2>1 DEF InstallTypes, Scripts, Contents
  <2> QED
    BY <2>2, <2>3, UpdaterAssumption DEF SureInv, In
<1>5. CASE InstallBegins
  <2>1. /\ script # None
        /\ script' = [script EXCEPT !.step = "prepare", !.os = status.os, !.shell = status.shell,
                                    !.remote = status.remote]
        /\ UNCHANGED <<pending, sure>>
    BY <1>5, Zenon DEF InstallBegins, In, protected
  <2>2. script'.step = "prepare"
    BY <1>1, <2>1 DEF InstallTypes, Scripts
  <2> QED
    BY <2>1, <2>2, SameSure
<1>6. CASE InstallRestarts
  <2>1. /\ script # None
        /\ \/ script' = [script EXCEPT !.step = "reboot", !.remote = pending.commit]
           \/ script' = None
        /\ UNCHANGED <<pending, sure>>
    BY <1>6, Zenon DEF InstallRestarts, In, protected
  <2>2. script' = None \/ script'.step = "reboot"
    BY <1>1, <2>1 DEF InstallTypes, Scripts
  <2> QED
    BY <2>1, <2>2, SameSure
<1>7. CASE InstallPackages \/ Build \/ WriteReceipt \/ RequestReboot
  <2>1. /\ script # None
        /\ \E step \in {"build", "finish", "files", "verify", "reboot"} :
             script' = [script EXCEPT !.step = step]
        /\ UNCHANGED <<pending, sure>>
    BY <1>7, Zenon DEF InstallPackages, Build, WriteReceipt, RequestReboot, Goes, In, protected
  <2>2. script'.step # "check"
    BY <1>1, <2>1 DEF InstallTypes, Scripts
  <2> QED
    BY <2>1, <2>2, SameSure
<1>8. CASE InstallFile
  <2>1. /\ script # None /\ script.step = "files" /\ script' = [script EXCEPT !.at = @ + 1]
        /\ UNCHANGED <<pending, sure>>
    BY <1>8, Zenon DEF InstallFile, In
  <2>2. script'.step = "files"
    BY <1>1, <2>1 DEF InstallTypes, Scripts
  <2> QED
    BY <2>1, <2>2, SameSure
<1>9. CASE CheckReports \/ CheckEnds \/ NothingToInstall \/ ScriptFails \/ Reboot \/ PowerLoss
  <2>1. script' = None /\ UNCHANGED <<pending, sure>>
    BY <1>9, Zenon DEF CheckReports, CheckEnds, NothingToInstall, ScriptFails, Reboot, PowerLoss,
       NextBoot, protected
  <2> QED
    BY <2>1, SameSure
<1>10. CASE TimerCheck
  BY <1>2, <1>10, Zenon DEF TimerCheck, protected
<1>11. CASE SystemctlEnds
  <2>1. /\ StartUnit("install") \/ StartUnit("check") \/ UNCHANGED script
        /\ UNCHANGED <<pending, sure>>
    BY <1>11, Zenon DEF SystemctlEnds, protected
  <2> QED
    BY <1>2, <2>1, SameSure
<1>12. CASE \/ Alter \/ Publish \/ ShellRestarts \/ StartUpdateAction
            \/ DispatchUpdateAction \/ NoResponse \/ ReadUpdateStatus \/ UNCHANGED vars
  <2>1. UNCHANGED <<pending, sure, script>>
    BY <1>12, Zenon DEF Alter, Publish, ShellRestarts, StartUpdateAction, DispatchUpdateAction,
       NoResponse, ReadUpdateStatus, vars, protected
  <2> QED
    BY <2>1, SameSure
<1> QED
  BY <1>3, <1>4, <1>5, <1>6, <1>7, <1>8, <1>9, <1>10, <1>11, <1>12, Zenon
     DEF Next, ScriptStep, ShellStep

(* "A lost or altered payload reports Shell update did not survive restart *)
(* instead of silently offering the same update again": no check says that *)
(* the console is up to date, or what it could install, while an           *)
(* installation that was recorded as done is not confirmed.                *)
THEOREM LossCorrect == Spec => LossReported
<1>1. Init => TypeInv /\ SureInv
  BY InitTypeInv, InitSureInv
<1>2. TypeInv /\ SureInv /\ [Next]_vars => (TypeInv /\ SureInv)'
  BY NextTypeInv, NextSureInv
<1>3. TypeInv /\ SureInv /\ [Next]_vars => [CheckEnds => sure = None]_vars
  BY Zenon DEF SureInv, CheckEnds
<1> QED
  BY <1>1, <1>2, <1>3, PTL DEF Spec, LossReported
=============================================================================
