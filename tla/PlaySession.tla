---------------------------- MODULE PlaySession ----------------------------
(***************************************************************************)
(* Continue saves of one game: the shell's launch step, the gblaunch       *)
(* helper, and core/play_session.cpp between them.                         *)
(*                                                                         *)
(* The shell offers Play / Resume / Resume previous save, removes the old  *)
(* receipt and waits for the helper.  The helper builds a private staging  *)
(* directory, seeds it from the saved state, runs RetroArch there, and     *)
(* only after a clean exit promotes what RetroArch wrote:                  *)
(*                                                                         *)
(*    manual slots; current.auto -> previous.auto; state-name; current.auto*)
(*                                                                         *)
(* Each of those is one rename(2), so each is one action, any of them may  *)
(* fail, and the helper may be killed or the power lost between any two.   *)
(* A rename is taken to be durable and ordered (the code never syncs).     *)
(***************************************************************************)
EXTENDS Naturals, FiniteSets

CONSTANTS
  Keys,             \* identities of ROM and core: path, size and mtime of both
  Names,            \* basenames of the *.state.auto files RetroArch may write
  DefaultName,      \* the basename derived from the ROM's stem
  Slots,            \* the manual save slots, <stem>.state<digits>
  None,             \* a file that is absent or empty
  MaxSessions,      \* bound: launches in one behaviour
  ReplaceMidLaunch  \* may ROM or core be replaced between Prepare and exec?

ASSUME PlayAssumption ==
  /\ DefaultName \in Names
  /\ MaxSessions \in Nat
  /\ ReplaceMidLaunch \in BOOLEAN
  /\ None \notin Names \cup Keys

(* A resume state: the launch that wrote it, the basename it was written   *)
(* under and the ROM and core that were running.                           *)
State == [gen : Nat, name : Names, key : Keys]

Modes == {"Fresh", "Resume", "Backup"}
ExitKinds == {"clean", "error"}

(* What a receipt can say, by its wording's first words in the code; Kept  *)
(* are the outcomes of a clean exit that promoted nothing.                 *)
Kept ==
  {"NoNewSave", "Ambiguous", "NameChanged",
   "BackupFailed", "ResumeSaveFailed"}

Messages == Kept \cup
  {"CannotLaunch", "ResumeUnavailable", "PrepareFailed", "ReturnedToMenu",
   "ExitedWithError", "Interrupted",
   "ManualSaveFailed", "ProgressSaved"}

ASSUME NoneAssumption == None \notin State \cup Nat \cup ExitKinds \cup Messages

VARIABLES
  (* the files under continue/ *)
  cur,        \* [Keys -> current.auto]
  prev,       \* [Keys -> previous.auto]
  savedName,  \* [Keys -> the state-name file]
  manual,     \* [Keys -> [Slots -> launch that wrote the slot]]
  receipt,    \* result-<game id>: what the last helper reported
  identity,   \* identity of the ROM and core files as they are now
  lastPlayed, \* games.last_played: the launch that last set it
  (* the helper: gblaunch's main and its PlaySession *)
  pc,         \* next step of the helper; "off" when there is none
  mode,       \* the play mode it was given
  dir,        \* directory_: the key whose directory it uses, None before that
  name,       \* state_name_
  running,    \* the ROM and core the game was started with, None before that
  seed,       \* the state copied into staging; None when not seeded_
  staging,    \* [Names -> *.state.auto files in the staging directory]
  slots,      \* [Slots -> manual slots in the staging directory]
  todo,       \* manual slots Finish has still to copy
  output,     \* the file Finish selected
  exit,       \* how the game process ended
  outcome,    \* the status Finish, or a failure, gave
  (* the shell *)
  managed,    \* launch_type = "retroarch" with a core
  shell,      \* "menu", or "waiting" in RunProcessBlocking
  offer,      \* the play modes the open game menu shows
  status,     \* lib.status after the launch
  session,    \* number of launches so far
  before      \* history: current.auto and previous.auto at the last launch

files     == <<cur, prev, savedName, manual>>
disk      == <<files, receipt, identity, lastPlayed>>
workspace == <<dir, name, running, seed, staging, slots>>
finishing == <<todo, output>>
process   == <<mode, workspace, finishing>>
shellVars == <<managed, shell, offer, status, session, before>>
vars == <<disk, pc, process, exit, outcome, shellVars>>

NoStates == [n \in Names |-> None]
NoSlots  == [s \in Slots |-> None]

HasContinueSave(k, backup) ==
  managed /\ (IF backup THEN prev[k] ELSE cur[k]) # None

GameActions ==
  {"Fresh"} \cup {m \in {"Resume"} : HasContinueSave(identity, FALSE)}
            \cup {m \in {"Backup"} : HasContinueSave(identity, TRUE)}

Init ==
  /\ cur = [k \in Keys |-> None]
  /\ prev = [k \in Keys |-> None]
  /\ savedName = [k \in Keys |-> None]
  /\ manual = [k \in Keys |-> NoSlots]
  /\ receipt = None
  /\ identity \in Keys
  /\ lastPlayed = 0
  /\ pc = "off" /\ mode = "Fresh" /\ dir = None /\ name = DefaultName
  /\ running = None
  /\ seed = None /\ staging = NoStates /\ slots = NoSlots
  /\ todo = {} /\ output = None /\ exit = None /\ outcome = None
  /\ managed \in BOOLEAN
  /\ shell = "menu" /\ offer = {"Fresh"} /\ status = None
  /\ session = 0
  /\ before = [cur |-> cur, prev |-> prev]

-----------------------------------------------------------------------------
(* The shell.                                                              *)

(* OpenGameMenu: which saves the menu offers is decided now and kept.      *)
RefreshGameMenu ==
  /\ shell = "menu"
  /\ offer' = GameActions
  /\ UNCHANGED <<disk, pc, process, exit, outcome, managed, shell, status,
                 session, before>>

(* Mutant: the receipt of the launch before is left for the shell to read. *)
LaunchGameKeepsReceipt(m) ==
  /\ shell = "menu" /\ m \in offer
  /\ session < MaxSessions
  /\ session' = session + 1
  /\ shell' = "waiting"
  /\ pc' = "start" /\ mode' = m
  /\ exit' = None
  /\ before' = [cur |-> cur, prev |-> prev]
  /\ UNCHANGED <<disk, workspace, finishing, outcome, managed, offer, status>>

(* LaunchGameViaHelper up to the wait: the old receipt goes first.         *)
LaunchGame(m) ==
  /\ shell = "menu" /\ m \in offer
  /\ session < MaxSessions
  /\ receipt' = None
  /\ session' = session + 1
  /\ shell' = "waiting"
  /\ pc' = "start" /\ mode' = m
  /\ exit' = None
  /\ before' = [cur |-> cur, prev |-> prev]
  /\ UNCHANGED <<files, identity, lastPlayed, workspace, finishing, outcome,
                 managed, offer, status>>

(* The input configuration cannot be written (the receipt stays), or the   *)
(* helper cannot be spawned (the receipt is gone).                         *)
LaunchFails ==
  /\ shell = "menu"
  /\ receipt' \in {receipt, None}
  /\ status' = "LaunchFailed"
  /\ offer' = GameActions
  /\ before' = [cur |-> cur, prev |-> prev]
  /\ UNCHANGED <<files, identity, lastPlayed, pc, process, exit, outcome,
                 managed, shell, session>>

(* Mutant: the wait returns for a helper that exits, not for one killed.   *)
ReadReceiptOfExited ==
  /\ shell = "waiting"
  /\ pc = "exited"
  /\ status' = IF receipt # None THEN receipt
               ELSE IF exit = "clean" THEN "ReturnedToMenu"
               ELSE "LaunchFailed"
  /\ shell' = "menu"
  /\ pc' = "off"
  /\ offer' = GameActions
  /\ UNCHANGED <<disk, process, exit, outcome, managed, session, before>>

(* The helper is gone: a helper killed by a signal is reported as such;    *)
(* otherwise the receipt, when there is one, says what happened.           *)
ReadReceipt ==
  /\ shell = "waiting"
  /\ pc \in {"exited", "killed"}
  /\ status' = IF pc = "killed" THEN "Killed"
               ELSE IF receipt # None THEN receipt
               ELSE IF exit = "clean" THEN "ReturnedToMenu"
               ELSE "LaunchFailed"
  /\ shell' = "menu"
  /\ pc' = "off"
  /\ offer' = GameActions
  /\ UNCHANGED <<disk, process, exit, outcome, managed, session, before>>

-----------------------------------------------------------------------------
(* gblaunch before the game: main and PlaySession::Prepare.                *)

(* The helper's memory goes with its process, and ~PlaySession removes the *)
(* staging directory; the one of a killed helper stays and is never read.  *)
Discard ==
  /\ mode' = "Fresh" /\ dir' = None /\ name' = DefaultName /\ running' = None
  /\ seed' = None /\ staging' = NoStates /\ slots' = NoSlots
  /\ todo' = {} /\ output' = None /\ outcome' = None

(* A failure before the game runs: the message is the receipt, the exit    *)
(* code is 1.                                                              *)
Fail(message) ==
  /\ pc' = "receipt"
  /\ outcome' = message
  /\ exit' = "error"

(* The database does not open, or the override configuration cannot be     *)
(* written: the helper exits 1 and leaves no receipt.                      *)
RefuseSilently ==
  /\ pc = "start"
  /\ pc' = "exited"
  /\ exit' = "error"
  /\ Discard
  /\ UNCHANGED <<disk, shellVars>>

(* Launch resolution fails, or an effective setting is invalid.            *)
RefuseLaunch ==
  /\ pc = "start"
  /\ Fail("CannotLaunch")
  /\ UNCHANGED <<disk, process, shellVars>>

(* Prepare up to its first identity: a resume needs a nonempty save under  *)
(* the identity the files have now.                                        *)
PrepareCheck ==
  /\ pc = "start"
  /\ IF mode = "Fresh" \/ HasContinueSave(identity, mode = "Backup")
       THEN pc' = (IF managed THEN "prepare" ELSE "spawn") /\ UNCHANGED <<outcome, exit>>
       ELSE Fail("ResumeUnavailable")
  /\ UNCHANGED <<disk, process, shellVars>>

(* Mutant: the backup is resumed from current.auto.                        *)
SeedFileOfCurrent(k) == IF mode = "Fresh" THEN None ELSE cur[k]

SeedFile(k) ==
  CASE mode = "Fresh"  -> None
    [] mode = "Resume" -> cur[k]
    [] mode = "Backup" -> prev[k]

StateName(k) == IF savedName[k] = None THEN DefaultName ELSE savedName[k]

(* Mutant: the directory depends on paths only, not on size and mtime.     *)
PrepareStagingByPath ==
  /\ pc = "prepare"
  /\ \E k \in Keys :
       /\ mode # "Fresh" => SeedFile(k) # None
       /\ dir' = k
       /\ name' = StateName(k)
       /\ seed' = SeedFile(k)
       /\ staging' = [NoStates EXCEPT ![StateName(k)] = SeedFile(k)]
       /\ slots' = manual[k]
  /\ pc' = "spawn"
  /\ UNCHANGED <<disk, mode, running, finishing, exit, outcome, shellVars>>

(* Prepare from the second identity on: staging directory, state name,     *)
(* manual slots, seed and session.cfg.  The files may have been replaced   *)
(* since PrepareCheck, and then there may be nothing to seed from.         *)
PrepareStaging ==
  /\ pc = "prepare"
  /\ mode # "Fresh" => SeedFile(identity) # None
  /\ pc' = "spawn"
  /\ dir' = identity
  /\ name' = StateName(identity)
  /\ seed' = SeedFile(identity)
  /\ staging' = [NoStates EXCEPT ![StateName(identity)] = SeedFile(identity)]
  /\ slots' = manual[identity]
  /\ UNCHANGED <<disk, mode, running, finishing, exit, outcome, shellVars>>

(* Any call of Prepare fails, the seed copy of a missing file included;    *)
(* the destructor removes what was staged.                                 *)
PrepareFails ==
  /\ pc = "prepare"
  /\ Fail("PrepareFailed")
  /\ UNCHANGED <<disk, process, shellVars>>

(* RunProcessBlocking: the child runs with the ROM and core on disk now.   *)
SpawnGame ==
  /\ pc = "spawn"
  /\ pc' = "playing"
  /\ running' = identity
  /\ UNCHANGED <<disk, mode, dir, name, seed, staging, slots, finishing, exit,
                 outcome, shellVars>>

SpawnFails ==
  /\ pc = "spawn"
  /\ Fail("CannotLaunch")
  /\ UNCHANGED <<disk, process, shellVars>>

(* The game (external): RetroArch writes states and slots, or truncates    *)
(* them, in the staging directory, and ends in whatever way.  Other kinds  *)
(* of game have no staging directory.                                      *)
GameExits(written, emptied, saved, ending) ==
  /\ pc = "playing"
  /\ ~managed => written \cup emptied \cup saved = {}
  /\ pc' = "exit"
  /\ exit' = ending
  /\ staging' = [n \in Names |->
                   IF n \in written
                     THEN [gen |-> session, name |-> n, key |-> running]
                     ELSE IF n \in emptied THEN None ELSE staging[n]]
  /\ slots' = [s \in Slots |-> IF s \in saved THEN session ELSE slots[s]]
  /\ UNCHANGED <<disk, mode, dir, name, running, seed, finishing, outcome,
                 shellVars>>

-----------------------------------------------------------------------------
(* PlaySession::Finish.                                                    *)

Report(message) ==
  /\ pc' = "receipt"
  /\ outcome' = message

(* The early returns: no staging directory, or no clean exit.              *)
FinishWithoutSaving ==
  /\ pc = "exit"
  /\ \/ ~managed /\ exit = "clean"  /\ Report("ReturnedToMenu")
     \/ ~managed /\ exit # "clean"  /\ Report("ExitedWithError")
     \/ managed  /\ exit # "clean"  /\ Report("Interrupted")
  /\ UNCHANGED <<disk, process, exit, shellVars>>

(* Mutant: a slot that was kept once is not kept again.                    *)
FinishBeginsNewSlots ==
  /\ pc = "exit" /\ managed /\ exit = "clean"
  /\ pc' = "manual"
  /\ todo' = {s \in Slots : slots[s] # None /\ manual[dir][s] = None}
  /\ UNCHANGED <<disk, mode, workspace, output, exit, outcome, shellVars>>

(* Finish, past its early returns: the slots there are to copy.            *)
FinishBegins ==
  /\ pc = "exit" /\ managed /\ exit = "clean"
  /\ pc' = "manual"
  /\ todo' = {s \in Slots : slots[s] # None}
  /\ UNCHANGED <<disk, mode, workspace, output, exit, outcome, shellVars>>

(* One manual slot: AtomicCopy renames it into manual/.                    *)
CopySlot(s) ==
  /\ pc = "manual" /\ s \in todo
  /\ manual' = [manual EXCEPT ![dir][s] = slots[s]]
  /\ todo' = todo \ {s}
  /\ UNCHANGED <<cur, prev, savedName, receipt, identity, lastPlayed, pc, mode,
                 workspace, output, exit, outcome, shellVars>>

(* Creating manual/, a copy, or reading the staging directory fails.       *)
CopySlotsFails ==
  /\ pc = "manual"
  /\ Report("ManualSaveFailed")
  /\ UNCHANGED <<disk, process, exit, shellVars>>

(* The files Finish takes for new states: nonempty, and not the seed as it *)
(* was put there (the code compares the write time of the seed).           *)
NewStates ==
  {n \in Names : staging[n] # None /\ ~(seed # None /\ n = name /\ staging[n] = seed)}

(* Mutant: the one new state is taken whatever its name.                   *)
SelectOutputAnyName ==
  /\ pc = "manual" /\ todo = {}
  /\ \E n \in NewStates : NewStates = {n} /\ output' = staging[n]
  /\ pc' = (IF cur[dir] # None THEN "backup" ELSE "name")
  /\ UNCHANGED <<disk, mode, workspace, todo, exit, outcome, shellVars>>

(* Exactly one new state, and while there is a current state only one of   *)
(* its name: state-name must go on naming current.auto.                    *)
SelectOutput ==
  /\ pc = "manual" /\ todo = {}
  /\ \E n \in NewStates :
       /\ NewStates = {n}
       /\ cur[dir] # None => n = name
       /\ output' = staging[n]
  /\ pc' = (IF cur[dir] # None THEN "backup" ELSE "name")
  /\ UNCHANGED <<disk, mode, workspace, todo, exit, outcome, shellVars>>

SelectNothing ==
  /\ pc = "manual" /\ todo = {}
  /\ \/ Report("NoNewSave")    \* none, or staging is unreadable
     \/ Cardinality(NewStates) > 1 /\ Report("Ambiguous")
     \/ /\ \E n \in Names : NewStates = {n} /\ n # name
        /\ cur[dir] # None
        /\ Report("NameChanged")
  /\ UNCHANGED <<disk, process, exit, shellVars>>

(* AtomicCopy(current.auto, previous.auto).                                *)
RotateBackup ==
  /\ pc = "backup"
  /\ prev' = [prev EXCEPT ![dir] = cur[dir]]
  /\ pc' = "name"
  /\ UNCHANGED <<cur, savedName, manual, receipt, identity, lastPlayed,
                 process, exit, outcome, shellVars>>

(* AtomicText(state-name), before the state it names.                      *)
WriteStateName ==
  /\ pc = "name"
  /\ savedName' = [savedName EXCEPT ![dir] = output.name]
  /\ pc' = "promote"
  /\ UNCHANGED <<cur, prev, manual, receipt, identity, lastPlayed, process,
                 exit, outcome, shellVars>>

(* AtomicCopy(output, current.auto).                                       *)
PromoteState ==
  /\ pc = "promote"
  /\ cur' = [cur EXCEPT ![dir] = output]
  /\ Report("ProgressSaved")
  /\ UNCHANGED <<prev, savedName, manual, receipt, identity, lastPlayed,
                 process, exit, shellVars>>

(* Mutant: a failed backup does not stop the promotion.                    *)
SaveFailsWithoutBackup ==
  /\ \/ pc = "backup" /\ pc' = "name" /\ UNCHANGED outcome
     \/ pc \in {"name", "promote"} /\ Report("ResumeSaveFailed")
  /\ UNCHANGED <<disk, process, exit, shellVars>>

(* A copy or the write of state-name fails; what was renamed stays.        *)
SaveFails ==
  /\ \/ pc = "backup" /\ Report("BackupFailed")
     \/ pc \in {"name", "promote"} /\ Report("ResumeSaveFailed")
  /\ UNCHANGED <<disk, process, exit, shellVars>>

-----------------------------------------------------------------------------
(* The end of gblaunch's main.                                             *)

WriteReceipt ==
  /\ pc = "receipt"
  /\ receipt' \in {outcome, None}    \* the write is not checked
  /\ pc' = "reported"
  /\ UNCHANGED <<files, identity, lastPlayed, process, exit, outcome,
                 shellVars>>

(* UpdateLastPlayed, on a clean exit only and not always with success; the *)
(* helper returns.                                                         *)
EndHelper ==
  /\ pc = "reported"
  /\ lastPlayed' \in {lastPlayed} \cup {n \in {session} : exit = "clean"}
  /\ pc' = "exited"
  /\ Discard
  /\ UNCHANGED <<files, receipt, identity, exit, shellVars>>

-----------------------------------------------------------------------------
(* The environment.                                                        *)

HelperRuns == pc \notin {"off", "exited", "killed"}

(* The helper is killed.                                                   *)
HelperKilled ==
  /\ HelperRuns
  /\ pc' = "killed"
  /\ Discard
  /\ UNCHANGED <<disk, exit, shellVars>>

(* Power loss, or the service is restarted: shell and helper both go.      *)
PowerLoss ==
  /\ shell = "waiting"
  /\ pc' = "off"
  /\ Discard
  /\ shell' = "menu"
  /\ status' = None
  /\ offer' = {"Fresh"}
  /\ UNCHANGED <<disk, exit, managed, session, before>>

(* A library upload or a core update replaces a file, or puts one back.    *)
ReplaceFiles(k) ==
  /\ k # identity
  /\ ReplaceMidLaunch \/ pc # "spawn"
  /\ identity' = k
  /\ UNCHANGED <<files, receipt, lastPlayed, pc, process, exit, outcome,
                 shellVars>>

-----------------------------------------------------------------------------
Shell   == RefreshGameMenu \/ (\E m \in Modes : LaunchGame(m)) \/ LaunchFails \/ ReadReceipt
Prepare == RefuseSilently \/ RefuseLaunch \/ PrepareCheck \/ PrepareStaging \/ PrepareFails
Run     == \/ SpawnGame \/ SpawnFails
           \/ \E written, emptied \in SUBSET Names, saved \in SUBSET Slots,
                 ending \in ExitKinds : GameExits(written, emptied, saved, ending)
Finish  == \/ FinishWithoutSaving \/ FinishBegins \/ CopySlotsFails
           \/ (\E s \in Slots : CopySlot(s))
           \/ SelectOutput \/ SelectNothing
           \/ RotateBackup \/ WriteStateName \/ PromoteState \/ SaveFails
           \/ WriteReceipt \/ EndHelper
Environment == HelperKilled \/ PowerLoss \/ \E k \in Keys : ReplaceFiles(k)

Next == Shell \/ Prepare \/ Run \/ Finish \/ Environment

Spec == Init /\ [][Next]_vars

(* RunProcessBlocking waits for its child, and every step of the helper    *)
(* is a call that returns: the helper and the waiting shell keep going,    *)
(* and a player ends the game at some time.                                *)
HelperSteps == Prepare \/ Run \/ Finish
FairSpec == Spec /\ WF_vars(HelperSteps) /\ WF_vars(ReadReceipt)

-----------------------------------------------------------------------------
Steps == {"off", "start", "prepare", "spawn", "playing", "exit", "manual", "backup",
          "name", "promote", "receipt", "reported", "exited", "killed"}

(* Every variable has the shape its declaration gives.                     *)
TypeOK ==
  /\ cur \in [Keys -> State \cup {None}]
  /\ prev \in [Keys -> State \cup {None}]
  /\ savedName \in [Keys -> Names \cup {None}]
  /\ manual \in [Keys -> [Slots -> Nat \cup {None}]]
  /\ receipt \in Messages \cup {None}
  /\ identity \in Keys /\ dir \in Keys \cup {None} /\ running \in Keys \cup {None}
  /\ lastPlayed \in Nat /\ session \in Nat
  /\ pc \in Steps /\ mode \in Modes /\ name \in Names
  /\ seed \in State \cup {None}
  /\ staging \in [Names -> State \cup {None}]
  /\ slots \in [Slots -> Nat \cup {None}]
  /\ todo \in SUBSET Slots
  /\ output \in State \cup {None}
  /\ exit \in ExitKinds \cup {None}
  /\ outcome \in Messages \cup {None}
  /\ managed \in BOOLEAN
  /\ shell \in {"menu", "waiting"}
  /\ offer \in SUBSET Modes
  /\ status \in Messages \cup {"LaunchFailed", "Killed", None}
  /\ before \in [cur : [Keys -> State \cup {None}], prev : [Keys -> State \cup {None}]]

(* state-name names the file inside current.auto and inside previous.auto, *)
(* at every moment and after every crash: otherwise the next Prepare       *)
(* stages a state under a name RetroArch does not look for.                *)
StateNameMatches ==
  \A k \in Keys :
    /\ cur[k] # None => savedName[k] = cur[k].name
    /\ prev[k] # None => cur[k] # None /\ savedName[k] = prev[k].name

(* A game started fresh finds no resume state; one resumed finds exactly   *)
(* the saved state its menu entry stands for, under that state's own name, *)
(* and the manual slots that were kept, whatever crashed before.           *)
ResumesWhatWasSaved ==
  pc = "playing" /\ managed =>
    /\ slots = manual[dir]
    /\ LET source == IF mode = "Backup" THEN prev[dir] ELSE cur[dir]
       IN IF mode = "Fresh" THEN staging = NoStates
          ELSE source # None /\ staging = [NoStates EXCEPT ![source.name] = source]

(* "A failed launch or crash preserves the existing Continue states": the  *)
(* states differ from those at the launch only after a clean game exit.    *)
OnlyCleanExitPromotes ==
  exit # "clean" => cur = before.cur /\ prev = before.prev

SavedByThisLaunch ==
  \E k \in Keys :
    /\ cur[k] # None /\ cur[k].gen = session
    /\ before.cur[k] # None => prev[k] = before.cur[k]
    /\ \A other \in Keys \ {k} : cur[other] = before.cur[other]

(* What the menu reports after a launch is what happened on disk: progress *)
(* saved means the state of this very run is current and the one it        *)
(* replaced is the backup; any other report on saves means the current     *)
(* states are those of before.                                             *)
StatusIsTrue ==
  shell = "menu" /\ status # None =>
    IF status = "ProgressSaved" THEN SavedByThisLaunch
    ELSE status \in {"Killed", "ReturnedToMenu"} \/ cur = before.cur

(* Once Finish is past the manual slots, every slot this run had is kept,  *)
(* whether or not its resume state was promoted.                           *)
ManualSlotsKept ==
  outcome \in Kept \cup {"ProgressSaved"} =>
    \A s \in Slots : slots[s] # None => manual[dir][s] = slots[s]

(* "Continue states are tied to the ROM and core file identities": a state *)
(* RetroArch is started on was written by the same ROM and core.           *)
TiedToIdentity ==
  pc = "playing" /\ seed # None => seed.key = running

(* A launch always ends: the shell gets back to its menu after every exit, *)
(* failure or death of the helper.                                         *)
ShellReturns == shell = "waiting" ~> shell = "menu"

(* The files implement the abstract store.                                 *)
Store == INSTANCE ContinueStore WITH Keys <- Keys, State <- State, None <- None,
                                    cur <- cur, prev <- prev
StoreSpec == Store!Spec

=============================================================================
