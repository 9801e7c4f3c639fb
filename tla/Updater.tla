------------------------------ MODULE Updater ------------------------------
(***************************************************************************)
(* The updater script, run by systemd to check or to install, and the      *)
(* screen that starts it and follows its status file.  The two units       *)
(* conflict: starting one stops the other.  An installation replaces the   *)
(* files of the protected root one by one; the power may fail at any step, *)
(* and what is installed is told from receipts.                            *)
(***************************************************************************)
EXTENDS Naturals, Sequences

CONSTANTS
  Commits,    \* commits of main
  Shipped,    \* the one the console was made with
  None,
  MaxBoots,   \* bounds: restarts,
  MaxScripts, \* runs of the script,
  MaxEvents   \* and accidents, a new commit and a shell that starts anew included

(* What a file holds that was torn or altered: of no commit, and like no   *)
(* other.  History: whether files were being installed when it changed.    *)
Foreign(installing) == [change : Nat, installing : {installing}]

ASSUME UpdaterAssumption ==
  /\ Shipped \in Commits /\ None \notin Commits
  /\ \A c \in Commits \cup {None} : c \notin Foreign(TRUE) \cup Foreign(FALSE)
  /\ None \notin [commit : Commits \cup {None}, boot : Nat]
  /\ MaxBoots \in Nat /\ MaxScripts \in Nat /\ MaxEvents \in Nat

(* What an installation replaces and a receipt covers, in its order: a     *)
(* file of the sources, the binaries, the files below /boot and /etc.      *)
InstallOrder == <<"splash.rgb565", "binaries", "boot", "boot-splash.sha256", "shell-commit">>
Files == {InstallOrder[i] : i \in DOMAIN InstallOrder}
Covered == Files \ {"boot"}

VARIABLES
  disk,    \* [Files -> the commit the content is of, or Foreign]
  receipt, \* shell-payload.sha256: None or [Covered -> what was summed]
  pending, \* pending-shell-install: None or [commit, boot]
  status,  \* the status file, None before the first run
  script,  \* the run in progress, None when there is none
  runs,    \* operation ids given out
  boot,    \* boot id
  channel, \* the commit at the head of main
  os,      \* packages of Raspberry Pi OS wait
  screen,  \* update_status
  start,   \* the other update_ members of LibraryState
  sure,    \* history: the commit an installation recorded and no check has confirmed
  events   \* bound

protected == <<disk, receipt, pending, os>>
shell     == <<screen, start>>
vars      == <<protected, status, script, runs, boot, channel, shell, sure, events>>

Status(phase, osNew, shellNew, reboot, remote, op) ==
  [phase |-> phase, os |-> osNew, shell |-> shellNew, reboot |-> reboot,
   remote |-> remote, op |-> op, boot |-> boot]

(* Mutant: the name is believed.                                           *)
PayloadCommitNamed == disk["shell-commit"]

(* payload_commit: the receipts must match what is there now, right or     *)
(* wrong, and the name be that of a commit.                                *)
PayloadCommit ==
  IF /\ disk["shell-commit"] \in Commits
     /\ receipt # None /\ \A f \in Covered : receipt[f] = disk[f]
     /\ disk["boot-splash.sha256"] = disk["boot"]
  THEN disk["shell-commit"] ELSE None

(* "READY", and no operation.                                              *)
Ready == [phase |-> "READY", os |-> FALSE, shell |-> FALSE, reboot |-> FALSE,
          remote |-> None, op |-> 0, boot |-> 0]
NotStarted == [pending |-> FALSE, install |-> FALSE, starting |-> FALSE,
               waiting |-> FALSE, guard |-> FALSE, previous |-> 0]

Init ==
  /\ disk = [f \in Files |-> Shipped] /\ receipt \in {None, [f \in Covered |-> Shipped]}
  /\ pending = None /\ status = None /\ script = None /\ runs = 0 /\ boot = 0
  /\ channel \in Commits /\ os \in BOOLEAN
  /\ screen = Ready /\ start = NotStarted
  /\ sure = None /\ events = 0

Happens == events < MaxEvents /\ events' = events + 1

-----------------------------------------------------------------------------
(* The units.  The protected half of an installation is a process of its   *)
(* own, with an operation id of its own: 2n is outer, 2n + 1 inner.        *)

Op(inner) == 2 * runs + (IF inner THEN 1 ELSE 0)
Run(kind) == [kind |-> kind, step |-> "begin", at |-> 1, os |-> FALSE, shell |-> FALSE,
              remote |-> None, installed |-> PayloadCommit]

StartUnit(kind) ==
  /\ runs < MaxScripts
  /\ IF script # None /\ script.kind = kind THEN UNCHANGED <<script, runs>>
     ELSE script' = Run(kind) /\ runs' = runs + 1

(* gamebird-update-check.timer.                                            *)
TimerCheck ==
  /\ StartUnit("check")
  /\ UNCHANGED <<protected, status, boot, channel, shell, sure, events>>

Says(phase, osNew, shellNew, reboot, remote, inner) ==
  status' = Status(phase, osNew, shellNew, reboot, remote, Op(inner))
Goes(step) == script' = [script EXCEPT !.step = step]
In(kind, step) == script # None /\ script.kind = kind /\ script.step = step

(* report_failure, whatever command failed.                                *)
ScriptFails ==
  /\ script # None /\ script.step # "begin"
  /\ Says("ERROR", FALSE, FALSE, FALSE, script.remote, FALSE)
  /\ script' = None
  /\ UNCHANGED <<protected, runs, boot, channel, shell, sure, events>>

-----------------------------------------------------------------------------
(* check_updates.                                                          *)

(* An installation was recorded before this boot and is not there.         *)
Lost == pending # None /\ pending.boot # boot /\ pending.commit # script.installed

(* One was recorded in this boot.                                          *)
AwaitsRestart == pending # None /\ pending.boot = boot

CheckReports ==
  /\ In("check", "begin") /\ pending # None
  /\ \/ Lost /\ Says("ERROR", FALSE, TRUE, FALSE, pending.commit, FALSE)
     \/ /\ AwaitsRestart
        /\ Says("RESTART REQUIRED", FALSE, FALSE, TRUE, pending.commit, FALSE)
  /\ script' = None
  /\ UNCHANGED <<protected, runs, boot, channel, shell, sure, events>>

(* Mutant: a record of an earlier boot is done with, right or wrong.       *)
CheckBeginsAnyway ==
  /\ In("check", "begin") /\ ~AwaitsRestart
  /\ pending' = None /\ UNCHANGED sure
  /\ Says("CHECKING", FALSE, FALSE, FALSE, None, FALSE) /\ Goes("check")
  /\ UNCHANGED <<disk, receipt, os, runs, boot, channel, shell, events>>

CheckBegins ==
  /\ In("check", "begin") /\ ~Lost /\ ~AwaitsRestart
  /\ pending' = None /\ sure' = IF pending = None THEN sure ELSE None
  /\ Says("CHECKING", FALSE, FALSE, FALSE, None, FALSE) /\ Goes("check")
  /\ UNCHANGED <<disk, receipt, os, runs, boot, channel, shell, events>>

(* With or without an answer of the channel.  That no server answers is    *)
(* ScriptFails.                                                            *)
CheckEnds ==
  /\ In("check", "check")
  /\ \/ LET new == channel # script.installed
        IN IF os \/ new THEN Says("UPDATE AVAILABLE", os, new, TRUE, channel, FALSE)
           ELSE Says("CURRENT", FALSE, FALSE, FALSE, channel, FALSE)
     \/ os /\ Says("UPDATE AVAILABLE", os, FALSE, TRUE, None, FALSE)
  /\ script' = None
  /\ UNCHANGED <<protected, runs, boot, channel, shell, sure, events>>

-----------------------------------------------------------------------------
(* install_updates and inner_install.                                      *)

(* What to install is what the status file says; there is one, since the   *)
(* screen offers an installation only after it has read it.                *)
Offered == status # None /\ (status.os \/ status.shell)
RestartOnly == AwaitsRestart /\ status # None /\ status.reboot

InstallRestarts ==
  /\ In("install", "begin") /\ RestartOnly
  /\ IF PayloadCommit = pending.commit
     THEN /\ script' = [script EXCEPT !.step = "reboot", !.remote = pending.commit]
          /\ Says("REBOOTING", FALSE, FALSE, TRUE, pending.commit, FALSE)
     ELSE script' = None /\ Says("ERROR", FALSE, FALSE, FALSE, None, FALSE)
  /\ UNCHANGED <<protected, runs, boot, channel, shell, sure, events>>

NothingToInstall ==
  /\ In("install", "begin") /\ ~RestartOnly /\ ~Offered
  /\ Says("CURRENT", FALSE, FALSE, FALSE, None, FALSE) /\ script' = None
  /\ UNCHANGED <<protected, runs, boot, channel, shell, sure, events>>

InstallBegins ==
  /\ In("install", "begin") /\ ~RestartOnly /\ Offered
  /\ script' = [script EXCEPT !.step = "prepare", !.os = status.os, !.shell = status.shell,
                              !.remote = status.remote]
  /\ Says("PREPARING", status.os, status.shell, TRUE, status.remote, FALSE)
  /\ UNCHANGED <<protected, runs, boot, channel, shell, sure, events>>

(* The mounts, and the packages of the system.                             *)
InstallPackages ==
  /\ In("install", "prepare")
  /\ os' = (os /\ ~script.os)
  /\ Goes(IF script.shell THEN "build" ELSE "finish")
  /\ IF script.os THEN Says("UPDATING PI OS", TRUE, script.shell, TRUE, script.remote, TRUE)
     ELSE UNCHANGED status
  /\ UNCHANGED <<disk, receipt, pending, runs, boot, channel, shell, sure, events>>

(* BUILDING GAMEBIRD until it is done.                                     *)
Build ==
  /\ In("install", "build")
  /\ Goes("files")
  /\ Says("INSTALLING GAMEBIRD", FALSE, TRUE, TRUE, script.remote, TRUE)
  /\ UNCHANGED <<protected, runs, boot, channel, shell, sure, events>>

(* The receipt of the boot files is of what is there, like the other.      *)
Installed(f) == IF f = "boot-splash.sha256" THEN disk["boot"] ELSE script.remote

InstallFile ==
  /\ In("install", "files") /\ script.at <= Len(InstallOrder)
  /\ LET f == InstallOrder[script.at] IN disk' = [disk EXCEPT ![f] = Installed(f)]
  /\ script' = [script EXCEPT !.at = @ + 1]
  /\ IF InstallOrder[script.at] = "binaries"
     THEN Says("INSTALLING BOOT SPLASH", FALSE, TRUE, TRUE, script.remote, TRUE)
     ELSE UNCHANGED status
  /\ UNCHANGED <<receipt, pending, os, runs, boot, channel, shell, sure, events>>

WriteReceipt ==
  /\ In("install", "files") /\ script.at > Len(InstallOrder)
  /\ receipt' = [f \in Covered |-> disk[f]]
  /\ Goes("verify")
  /\ Says("VERIFYING GAMEBIRD", FALSE, TRUE, TRUE, script.remote, FALSE)
  /\ UNCHANGED <<disk, pending, os, runs, boot, channel, shell, sure, events>>

(* Otherwise ScriptFails.                                                  *)
Verify ==
  /\ In("install", "verify") /\ PayloadCommit = script.remote
  /\ pending' = [commit |-> script.remote, boot |-> boot]
  /\ sure' = script.remote
  /\ Goes("finish")
  /\ UNCHANGED <<disk, receipt, os, status, runs, boot, channel, shell, events>>

RequestReboot ==
  /\ In("install", "finish")
  /\ Says("REBOOTING", FALSE, FALSE, TRUE, script.remote, FALSE) /\ Goes("reboot")
  /\ UNCHANGED <<protected, runs, boot, channel, shell, sure, events>>

-----------------------------------------------------------------------------
(* Restarts.                                                               *)

NextBoot ==
  /\ boot < MaxBoots /\ boot' = boot + 1
  /\ script' = None
  /\ screen' = Ready /\ start' = NotStarted
  /\ UNCHANGED <<receipt, pending, os, status, runs, channel, sure>>

Reboot ==
  /\ In("install", "reboot")
  /\ NextBoot
  /\ UNCHANGED <<disk, events>>

Changed(f, installing) ==
  disk' = [disk EXCEPT ![f] = [change |-> events', installing |-> installing]]

(* A file that was being written may be torn; the commit's name and the    *)
(* receipt are renamed into place.                                         *)
PowerLoss ==
  /\ Happens
  /\ NextBoot
  /\ \/ UNCHANGED disk
     \/ /\ In("install", "files") /\ script.at <= Len(InstallOrder)
        /\ InstallOrder[script.at] # "shell-commit"
        /\ Changed(InstallOrder[script.at], FALSE)

(* Something else changes an installed file.                               *)
Alter ==
  /\ Happens
  /\ \E f \in Files : Changed(f, In("install", "files"))
  /\ UNCHANGED <<receipt, pending, os, status, script, runs, boot, channel, shell, sure>>

(* Two more events: a commit on main, packages on the mirror.              *)
Publish ==
  /\ Happens
  /\ \/ channel' \in Commits \ {channel} /\ UNCHANGED os
     \/ ~os /\ os' = TRUE /\ UNCHANGED channel
  /\ UNCHANGED <<disk, receipt, pending, status, script, runs, boot, shell, sure>>

ShellRestarts ==
  /\ Happens
  /\ screen' = Ready /\ start' = NotStarted
  /\ UNCHANGED <<protected, status, script, runs, boot, channel, sure>>

-----------------------------------------------------------------------------
(* The screen.                                                             *)

UpdateIsBusy(s) ==
  s.phase \in {"STARTING", "CHECKING", "PREPARING", "DOWNLOADING", "UPDATING PI OS",
               "BUILDING GAMEBIRD", "INSTALLING GAMEBIRD", "FINALIZING",
               "VERIFYING GAMEBIRD", "REBOOTING"}
UpdateNeedsRestart(s) == s.reboot /\ s.phase = "RESTART REQUIRED"

(* A, or the entrance to the screen when there is nothing to install: the  *)
(* action waits until the busy screen is shown.                            *)
StartUpdateAction ==
  /\ ~UpdateIsBusy(screen)
  /\ ~(start.pending \/ start.starting \/ start.waiting)
  /\ LET install == screen.os \/ screen.shell \/ UpdateNeedsRestart(screen)
     IN /\ start' = [start EXCEPT !.pending = TRUE, !.guard = TRUE, !.install = install,
                                  !.previous = screen.op]
        /\ screen' = [screen EXCEPT !.phase = IF install THEN "STARTING" ELSE "CHECKING"]
  /\ UNCHANGED <<protected, status, script, runs, boot, channel, sure, events>>

DispatchUpdateAction ==
  /\ start.pending
  /\ start' = [start EXCEPT !.pending = FALSE, !.starting = TRUE, !.waiting = TRUE]
  /\ UNCHANGED <<protected, status, script, runs, boot, channel, screen, sure, events>>

Error == screen' = [screen EXCEPT !.phase = "ERROR"]

(* systemctl --no-block: the unit is started, or its condition does not    *)
(* hold, or the lock is held by something else, or systemctl itself fails. *)
SystemctlEnds ==
  /\ start.starting
  /\ \/ /\ StartUnit(IF start.install THEN "install" ELSE "check")
        /\ start' = [start EXCEPT !.starting = FALSE] /\ UNCHANGED screen
     \/ start' = [start EXCEPT !.starting = FALSE] /\ UNCHANGED <<screen, script, runs>>
     \/ /\ start' = [start EXCEPT !.starting = FALSE, !.waiting = FALSE]
        /\ Error /\ UNCHANGED <<script, runs>>
  /\ UNCHANGED <<protected, status, boot, channel, sure, events>>

(* PollUpdateAction, after 30 seconds.                                     *)
NoResponse ==
  /\ start.waiting /\ ~start.starting /\ ~start.pending
  /\ start' = [start EXCEPT !.waiting = FALSE] /\ Error
  /\ UNCHANGED <<protected, status, script, runs, boot, channel, sure, events>>

(* Mutant: no difference between boots.                                    *)
ParseUpdateStatusAsIs(s) == s

(* A busy phase of a previous boot counts for nothing.                     *)
ParseUpdateStatus(s) ==
  IF s.boot # boot /\ UpdateIsBusy(s) THEN [Ready EXCEPT !.op = s.op, !.remote = s.remote, !.boot = s.boot]
  ELSE s

Answers(s) == ~start.guard \/ s.op # start.previous

ReadUpdateStatus ==
  /\ status # None /\ ~start.pending /\ ~start.starting
  /\ Answers(status)
  /\ screen' = ParseUpdateStatus(status)
  /\ start' = [start EXCEPT !.guard = FALSE,
                            !.waiting = IF start.guard THEN FALSE ELSE @]
  /\ UNCHANGED <<protected, status, script, runs, boot, channel, sure, events>>

-----------------------------------------------------------------------------
ScriptStep ==
  \/ CheckReports \/ CheckBegins \/ CheckEnds
  \/ InstallRestarts \/ NothingToInstall \/ InstallBegins \/ InstallPackages
  \/ Build \/ InstallFile \/ WriteReceipt \/ Verify \/ RequestReboot
ShellStep == DispatchUpdateAction \/ SystemctlEnds \/ NoResponse \/ ReadUpdateStatus

Next ==
  \/ ScriptStep \/ ScriptFails \/ TimerCheck
  \/ Reboot \/ PowerLoss \/ Alter \/ Publish \/ ShellRestarts
  \/ StartUpdateAction \/ ShellStep

Spec == Init /\ [][Next]_vars

(* The script goes on or fails, a reboot that was asked for happens or     *)
(* fails, and the main loop polls.                                         *)
Fairness ==
  /\ WF_vars(ScriptStep \/ ScriptFails \/ Reboot)
  /\ WF_vars(DispatchUpdateAction) /\ WF_vars(SystemctlEnds) /\ WF_vars(NoResponse)
  /\ WF_vars(ReadUpdateStatus)

FairSpec == Spec /\ Fairness

-----------------------------------------------------------------------------
(* "A power loss between these renames invalidates the old receipt instead *)
(* of mislabelling new binaries with the previous commit", and "Installed  *)
(* (the verified binaries on disk)": a version the receipts tell is the    *)
(* version of every file of the installation, whatever was interrupted,    *)
(* torn or altered.  The exception is a file that something else altered   *)
(* between its installation and the receipt, which takes what it finds.    *)
VersionTrue ==
  PayloadCommit # None => \A f \in Files : disk[f] \in {PayloadCommit} \cup Foreign(TRUE)

(* "A lost or altered payload reports Shell update did not survive restart *)
(* instead of silently offering the same update again": as long as no      *)
(* check has found an installation in place after the restart, no check    *)
(* calls the console up to date or offers anything.                        *)
LossReported ==
  [][CheckEnds => sure = None]_vars

(* "the screen discards busy states ... instead of remaining stuck": a     *)
(* busy screen becomes usable again, though scripts fail, are stopped by   *)
(* each other, never start, or the power goes.                             *)
ScreenFrees == UpdateIsBusy(screen) ~> ~UpdateIsBusy(screen)
=============================================================================
