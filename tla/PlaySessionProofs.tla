------------------------- MODULE PlaySessionProofs -------------------------
(***************************************************************************)
(* Proofs about PlaySession for every set of identities, basenames and     *)
(* slots and every bound on launches.                                      *)
(*                                                                         *)
(* The inductive invariant IInv says what each step of the helper may rely *)
(* on: what its local variables (dir, name, seed, staging, output) mean in *)
(* terms of the files, which is exactly what a crash between two renames   *)
(* must not break.                                                         *)
(***************************************************************************)
EXTENDS PlaySession, TLAPS

(* The steps from the launch to the rename of current.auto.                *)
PrePromote == {"start", "prepare", "spawn", "playing", "exit", "manual", "backup",
               "name", "promote"}
Saving == {"backup", "name", "promote"}

(* A game that plays was started with some ROM and core; while Finish      *)
(* saves, there is a state to save.                                        *)
OutputInv ==
  /\ pc = "playing" => running \in Keys
  /\ pc \in Saving => output \in State

(* Which steps can be under way in which state of the shell and the game.  *)
ControlInv ==
  /\ shell = "menu" <=> pc = "off"
  /\ pc \in {"start", "prepare", "spawn", "playing"} => exit = None
  /\ pc = "exit" => exit \in ExitKinds
  /\ pc \in {"manual"} \cup Saving => managed /\ exit = "clean"
  /\ pc = "prepare" => managed
  /\ pc \notin {"receipt", "reported"} => outcome = None
  /\ pc \in PrePromote \cup {"receipt"} => receipt = None

(* The helper's directory is that of a key, and its state name is the one  *)
(* on disk if there is one, until it rewrites it itself.                   *)
NameInv ==
  /\ managed /\ pc \in {"spawn", "playing", "exit", "manual"} \cup Saving => dir \in Keys
  /\ managed /\ pc \in {"spawn", "playing", "exit", "manual", "backup", "name"} =>
       (savedName[dir] # None => name = savedName[dir])
  /\ pc \in Saving => (cur[dir] # None => output.name = savedName[dir])
  /\ pc = "promote" => savedName[dir] = output.name

(* What is staged is the seed, unchanged, or was written by this launch;   *)
(* every state on disk is older than the one to be promoted.               *)
GenInv ==
  /\ pc \in {"off", "start", "prepare", "exited", "killed"} => staging = NoStates
  /\ \A n \in Names : staging[n] # None =>
       /\ staging[n].name = n
       /\ staging[n].gen = session \/ (seed # None /\ n = name /\ staging[n] = seed)
  /\ \A k \in Keys : cur[k] # None =>
       /\ cur[k].gen \leq session
       /\ pc \in PrePromote => cur[k].gen < session
  /\ pc \in Saving => output.gen = session
  /\ pc = "backup" => cur[dir] # None
  /\ pc \in {"name", "promote"} => (cur[dir] # None => prev[dir] = cur[dir])

(* What the helper is going to report, has reported, and the shell showed, *)
(* is what is on disk.                                                     *)
StatusInv ==
  /\ pc \in PrePromote => cur = before.cur
  /\ outcome = "ProgressSaved" => SavedByThisLaunch
  /\ outcome \notin {None, "ProgressSaved"} => cur = before.cur
  /\ pc \in {"reported", "exited"} =>
       IF receipt = "ProgressSaved" THEN SavedByThisLaunch
       ELSE receipt = None \/ cur = before.cur
  /\ StatusIsTrue

(* A game about to run, or running, has in its staging directory what its  *)
(* mode asks for.                                                          *)
ResumeInv ==
  managed /\ pc \in {"spawn", "playing"} =>
    /\ slots = manual[dir]
    /\ LET source == IF mode = "Backup" THEN prev[dir] ELSE cur[dir]
       IN IF mode = "Fresh" THEN staging = NoStates
          ELSE source # None /\ staging = [NoStates EXCEPT ![source.name] = source]

(* A slot that Finish need not copy any more is in manual/.                *)
SlotsInv ==
  /\ pc \in {"manual"} \cup Saving =>
       \A s \in Slots : slots[s] # None =>
         manual[dir][s] = slots[s] \/ (pc = "manual" /\ s \in todo)
  /\ outcome \in Kept \cup {"ProgressSaved"} => dir \in Keys
  /\ ManualSlotsKept

IInv == TypeOK /\ OutputInv /\ ControlInv /\ StateNameMatches /\ NameInv /\ GenInv

-----------------------------------------------------------------------------
(* The game menu never shows anything but the three play modes.            *)
LEMMA OfferType == GameActions \in SUBSET Modes
BY DEF GameActions, Modes

(* Type correctness, with the state that Finish saves: the name written to *)
(* state-name is a name because there is an output.                        *)
LEMMA TypeInductive == TypeOK /\ OutputInv /\ [Next]_vars => TypeOK' /\ OutputInv'
<1> SUFFICES ASSUME TypeOK, OutputInv, [Next]_vars PROVE TypeOK' /\ OutputInv'
  OBVIOUS
<1> USE PlayAssumption, NoneAssumption
    DEF TypeOK, OutputInv, Saving, ExitKinds, files, disk, workspace, finishing, process, shellVars, Messages,
        Kept, Steps, NoStates, NoSlots
<1> QED
  <2>1. CASE RefreshGameMenu
    BY <2>1, OfferType DEF RefreshGameMenu
  <2>2. ASSUME NEW m \in Modes,
                LaunchGame(m)
        PROVE  TypeOK' /\ OutputInv'
    BY <2>2 DEF LaunchGame, Modes
  <2>3. CASE LaunchFails
    BY <2>3, OfferType DEF LaunchFails
  <2>4. CASE ReadReceipt
    BY <2>4, OfferType DEF ReadReceipt
  <2>5. CASE RefuseSilently
    BY <2>5 DEF RefuseSilently, Discard, Modes
  <2>6. CASE RefuseLaunch
    BY <2>6 DEF RefuseLaunch, Fail
  <2>7. CASE PrepareCheck
    BY <2>7 DEF PrepareCheck, Fail
  <2>8. CASE PrepareStaging
    BY <2>8 DEF PrepareStaging, SeedFile, StateName, Modes
  <2>9. CASE PrepareFails
    BY <2>9 DEF PrepareFails, Fail
  <2>10. CASE SpawnGame
    BY <2>10 DEF SpawnGame
  <2>11. CASE SpawnFails
    BY <2>11 DEF SpawnFails, Fail
  <2>12. ASSUME NEW written \in SUBSET Names, NEW emptied \in SUBSET Names,
                NEW saved \in SUBSET Slots, NEW ending \in ExitKinds,
                GameExits(written, emptied, saved, ending)
        PROVE  TypeOK' /\ OutputInv'
    <3>1. staging' \in [Names -> State \cup {None}]
      BY <2>12 DEF GameExits, State
    <3>2. slots' \in [Slots -> Nat \cup {None}]
      BY <2>12 DEF GameExits
    <3> QED
      BY <2>12, <3>1, <3>2 DEF GameExits
  <2>13. CASE FinishWithoutSaving
    BY <2>13 DEF FinishWithoutSaving, Report
  <2>14. CASE FinishBegins
    BY <2>14 DEF FinishBegins
  <2>15. ASSUME NEW s \in Slots,
                CopySlot(s)
        PROVE  TypeOK' /\ OutputInv'
    <3>1. manual' \in [Keys -> [Slots -> Nat \cup {None}]]
      BY <2>15 DEF CopySlot
    <3>2. todo' \in SUBSET Slots
      BY <2>15 DEF CopySlot
    <3> QED
      BY <2>15, <3>1, <3>2 DEF CopySlot
  <2>16. CASE CopySlotsFails
    BY <2>16 DEF CopySlotsFails, Report
  <2>17. CASE SelectOutput
    <3>1. output' \in State
      BY <2>17 DEF SelectOutput, NewStates
    <3> QED
      BY <2>17, <3>1 DEF SelectOutput
  <2>18. CASE SelectNothing
    BY <2>18 DEF SelectNothing, Report
  <2>19. CASE RotateBackup
    <3>1. prev' \in [Keys -> State \cup {None}]
      BY <2>19 DEF RotateBackup
    <3> QED
      BY <2>19, <3>1 DEF RotateBackup
  <2>20. CASE WriteStateName
    <3>1. output \in State
      BY <2>20 DEF WriteStateName, OutputInv, Saving
    <3>2. savedName' \in [Keys -> Names \cup {None}]
      BY <2>20 DEF WriteStateName, OutputInv, Saving, State
    <3> QED
      BY <2>20, <3>1, <3>2 DEF WriteStateName
  <2>21. CASE PromoteState
    <3>1. cur' \in [Keys -> State \cup {None}]
      BY <2>21 DEF PromoteState
    <3> QED
      BY <2>21, <3>1 DEF PromoteState, Report
  <2>22. CASE SaveFails
    BY <2>22 DEF SaveFails, Report
  <2>23. CASE WriteReceipt
    BY <2>23 DEF WriteReceipt
  <2>24. CASE EndHelper
    BY <2>24 DEF EndHelper, Discard, Modes
  <2>25. CASE HelperKilled
    BY <2>25 DEF HelperKilled, Discard, Modes
  <2>26. CASE PowerLoss
    BY <2>26 DEF PowerLoss, Discard, Modes
  <2>27. ASSUME NEW k \in Keys,
                ReplaceFiles(k)
        PROVE  TypeOK' /\ OutputInv'
    BY <2>27 DEF ReplaceFiles
  <2>28. CASE UNCHANGED vars
    BY <2>28 DEF vars
  <2> HIDE DEF TypeOK, OutputInv
  <2> QED
    BY <2>1, <2>2, <2>3, <2>4, <2>5, <2>6, <2>7, <2>8, <2>9, <2>10,
       <2>11, <2>12, <2>13, <2>14, <2>15, <2>16, <2>17, <2>18, <2>19,
       <2>20, <2>21, <2>22, <2>23, <2>24, <2>25, <2>26, <2>27, <2>28 DEF
       Next, Shell, Prepare, Run, Finish, Environment

(* The initial state has the types, and nothing to save yet.               *)
LEMMA TypeInit == Init => TypeOK /\ OutputInv
BY PlayAssumption, NoneAssumption
DEF Init, TypeOK, OutputInv, Saving, ExitKinds, NoStates, NoSlots, Modes, Steps, Messages, Kept

(* Every file and every variable of the helper and the shell keeps its     *)
(* shape, for all constants.                                               *)
THEOREM TypeCorrect == Spec => []TypeOK
BY TypeInit, TypeInductive, PTL DEF Spec

(* The control state is inductive given the types.                         *)
LEMMA ControlInductive == TypeOK /\ ControlInv /\ [Next]_vars => ControlInv'
<1> SUFFICES ASSUME TypeOK, ControlInv, [Next]_vars PROVE ControlInv'
  OBVIOUS
<1> USE PlayAssumption, NoneAssumption
    DEF TypeOK, ControlInv, files, disk, workspace, finishing, process, shellVars, Saving, PrePromote, ExitKinds
<1> QED
  <2>1. CASE RefreshGameMenu
    BY <2>1 DEF RefreshGameMenu, GameActions, Modes
  <2>2. ASSUME NEW m \in Modes,
                LaunchGame(m)
        PROVE  ControlInv'
    BY <2>2 DEF LaunchGame, Modes
  <2>3. CASE LaunchFails
    BY <2>3 DEF LaunchFails, GameActions, Modes
  <2>4. CASE ReadReceipt
    BY <2>4 DEF ReadReceipt, GameActions, Modes
  <2>5. CASE RefuseSilently
    BY <2>5 DEF RefuseSilently, Discard
  <2>6. CASE RefuseLaunch
    BY <2>6 DEF RefuseLaunch, Fail
  <2>7. CASE PrepareCheck
    BY <2>7 DEF PrepareCheck, Fail
  <2>8. CASE PrepareStaging
    BY <2>8 DEF PrepareStaging, SeedFile, StateName, Modes
  <2>9. CASE PrepareFails
    BY <2>9 DEF PrepareFails, Fail
  <2>10. CASE SpawnGame
    BY <2>10 DEF SpawnGame
  <2>11. CASE SpawnFails
    BY <2>11 DEF SpawnFails, Fail
  <2>12. ASSUME NEW written \in SUBSET Names, NEW emptied \in SUBSET Names,
                NEW saved \in SUBSET Slots, NEW ending \in ExitKinds,
                GameExits(written, emptied, saved, ending)
        PROVE  ControlInv'
    BY <2>12 DEF GameExits
  <2>13. CASE FinishWithoutSaving
    BY <2>13 DEF FinishWithoutSaving, Report
  <2>14. CASE FinishBegins
    BY <2>14 DEF FinishBegins
  <2>15. ASSUME NEW s \in Slots,
                CopySlot(s)
        PROVE  ControlInv'
    BY <2>15 DEF CopySlot
  <2>16. CASE CopySlotsFails
    BY <2>16 DEF CopySlotsFails, Report
  <2>17. CASE SelectOutput
    BY <2>17 DEF SelectOutput
  <2>18. CASE SelectNothing
    BY <2>18 DEF SelectNothing, Report
  <2>19. CASE RotateBackup
    BY <2>19 DEF RotateBackup
  <2>20. CASE WriteStateName
    BY <2>20 DEF WriteStateName
  <2>21. CASE PromoteState
    BY <2>21 DEF PromoteState, Report
  <2>22. CASE SaveFails
    BY <2>22 DEF SaveFails, Report
  <2>23. CASE WriteReceipt
    BY <2>23 DEF WriteReceipt
  <2>24. CASE EndHelper
    BY <2>24 DEF EndHelper, Discard
  <2>25. CASE HelperKilled
    BY <2>25 DEF HelperKilled, Discard, HelperRuns
  <2>26. CASE PowerLoss
    BY <2>26 DEF PowerLoss, Discard
  <2>27. ASSUME NEW k \in Keys,
                ReplaceFiles(k)
        PROVE  ControlInv'
    BY <2>27 DEF ReplaceFiles
  <2>28. CASE UNCHANGED vars
    BY <2>28 DEF vars
  <2> HIDE DEF TypeOK, ControlInv
  <2> QED
    BY <2>1, <2>2, <2>3, <2>4, <2>5, <2>6, <2>7, <2>8, <2>9, <2>10,
       <2>11, <2>12, <2>13, <2>14, <2>15, <2>16, <2>17, <2>18, <2>19,
       <2>20, <2>21, <2>22, <2>23, <2>24, <2>25, <2>26, <2>27, <2>28 DEF
       Next, Shell, Prepare, Run, Finish, Environment

(* state-name stays the name of both saved states: the output has the name *)
(* on disk before it is renamed over the current state, and the name is    *)
(* only rewritten to another one while there is no state.                  *)
LEMMA NamesInductive == IInv /\ [Next]_vars => StateNameMatches' /\ NameInv'
<1> SUFFICES ASSUME IInv, [Next]_vars PROVE StateNameMatches' /\ NameInv'
  OBVIOUS
<1> USE PlayAssumption, NoneAssumption
    DEF IInv, TypeOK, OutputInv, ControlInv, StateNameMatches, NameInv, GenInv, files, disk, workspace, finishing, process, shellVars, Saving, PrePromote, ExitKinds
<1> QED
  <2>1. CASE RefreshGameMenu
    BY <2>1 DEF RefreshGameMenu, GameActions, Modes
  <2>2. ASSUME NEW m \in Modes,
                LaunchGame(m)
        PROVE  StateNameMatches' /\ NameInv'
    BY <2>2 DEF LaunchGame, Modes
  <2>3. CASE LaunchFails
    BY <2>3 DEF LaunchFails, GameActions, Modes
  <2>4. CASE ReadReceipt
    BY <2>4 DEF ReadReceipt, GameActions, Modes
  <2>5. CASE RefuseSilently
    BY <2>5 DEF RefuseSilently, Discard
  <2>6. CASE RefuseLaunch
    BY <2>6 DEF RefuseLaunch, Fail
  <2>7. CASE PrepareCheck
    BY <2>7 DEF PrepareCheck, Fail
  <2>8. CASE PrepareStaging
    BY <2>8 DEF PrepareStaging, SeedFile, StateName, Modes
  <2>9. CASE PrepareFails
    BY <2>9 DEF PrepareFails, Fail
  <2>10. CASE SpawnGame
    BY <2>10 DEF SpawnGame
  <2>11. CASE SpawnFails
    BY <2>11 DEF SpawnFails, Fail
  <2>12. ASSUME NEW written \in SUBSET Names, NEW emptied \in SUBSET Names,
                NEW saved \in SUBSET Slots, NEW ending \in ExitKinds,
                GameExits(written, emptied, saved, ending)
        PROVE  StateNameMatches' /\ NameInv'
    BY <2>12 DEF GameExits
  <2>13. CASE FinishWithoutSaving
    BY <2>13 DEF FinishWithoutSaving, Report
  <2>14. CASE FinishBegins
    BY <2>14 DEF FinishBegins
  <2>15. ASSUME NEW s \in Slots,
                CopySlot(s)
        PROVE  StateNameMatches' /\ NameInv'
    BY <2>15 DEF CopySlot
  <2>16. CASE CopySlotsFails
    BY <2>16 DEF CopySlotsFails, Report
  <2>17. CASE SelectOutput
    <3>1. PICK n \in NewStates :
            NewStates = {n} /\ (cur[dir] # None => n = name) /\ output' = staging[n]
      BY <2>17 DEF SelectOutput
    <3>2. output'.name = n
      BY <3>1 DEF NewStates
    <3>3. cur[dir] # None => name = savedName[dir]
      BY <2>17 DEF SelectOutput, State
    <3> QED
      BY <2>17, <3>1, <3>2, <3>3 DEF SelectOutput
  <2>18. CASE SelectNothing
    BY <2>18 DEF SelectNothing, Report
  <2>19. CASE RotateBackup
    BY <2>19 DEF RotateBackup
  <2>20. CASE WriteStateName
    BY <2>20 DEF WriteStateName
  <2>21. CASE PromoteState
    BY <2>21 DEF PromoteState, Report
  <2>22. CASE SaveFails
    BY <2>22 DEF SaveFails, Report
  <2>23. CASE WriteReceipt
    BY <2>23 DEF WriteReceipt
  <2>24. CASE EndHelper
    BY <2>24 DEF EndHelper, Discard
  <2>25. CASE HelperKilled
    BY <2>25 DEF HelperKilled, Discard, HelperRuns
  <2>26. CASE PowerLoss
    BY <2>26 DEF PowerLoss, Discard
  <2>27. ASSUME NEW k \in Keys,
                ReplaceFiles(k)
        PROVE  StateNameMatches' /\ NameInv'
    BY <2>27 DEF ReplaceFiles
  <2>28. CASE UNCHANGED vars
    BY <2>28 DEF vars
  <2> HIDE DEF IInv, TypeOK, OutputInv, ControlInv, StateNameMatches, NameInv, GenInv
  <2> QED
    BY <2>1, <2>2, <2>3, <2>4, <2>5, <2>6, <2>7, <2>8, <2>9, <2>10,
       <2>11, <2>12, <2>13, <2>14, <2>15, <2>16, <2>17, <2>18, <2>19,
       <2>20, <2>21, <2>22, <2>23, <2>24, <2>25, <2>26, <2>27, <2>28 DEF
       Next, Shell, Prepare, Run, Finish, Environment

(* What is staged stays the seed or of this launch, so what is promoted is *)
(* newer than every state on disk.                                         *)
LEMMA GenInductive == IInv /\ [Next]_vars => GenInv'
<1> SUFFICES ASSUME IInv, [Next]_vars PROVE GenInv'
  OBVIOUS
<1> USE PlayAssumption, NoneAssumption
    DEF IInv, TypeOK, OutputInv, ControlInv, StateNameMatches, NameInv, GenInv, files, disk, workspace, finishing, process, shellVars, Saving, PrePromote, ExitKinds
<1> QED
  <2>1. CASE RefreshGameMenu
    BY <2>1 DEF RefreshGameMenu, GameActions, Modes
  <2>2. ASSUME NEW m \in Modes,
                LaunchGame(m)
        PROVE  GenInv'
    <3>1. pc = "off" /\ pc' = "start" /\ session' = session + 1
      BY <2>2 DEF LaunchGame
    <3>2. \A n \in Names : staging'[n] = None
      BY <2>2, <3>1 DEF LaunchGame, NoStates
    <3>3. \A k \in Keys : cur'[k] # None =>
            cur'[k].gen < session' /\ cur'[k].gen \leq session'
      BY <2>2, <3>1 DEF LaunchGame, State
    <3>4. staging' = NoStates
      BY <2>2, <3>1 DEF LaunchGame
    <3> QED
      BY <3>1, <3>2, <3>3, <3>4
  <2>3. CASE LaunchFails
    BY <2>3 DEF LaunchFails, GameActions, Modes
  <2>4. CASE ReadReceipt
    BY <2>4 DEF ReadReceipt, GameActions, Modes
  <2>5. CASE RefuseSilently
    BY <2>5 DEF RefuseSilently, Discard, NoStates
  <2>6. CASE RefuseLaunch
    BY <2>6 DEF RefuseLaunch, Fail
  <2>7. CASE PrepareCheck
    BY <2>7 DEF PrepareCheck, Fail
  <2>8. CASE PrepareStaging
    <3>1. SeedFile(identity) # None => SeedFile(identity).name = StateName(identity)
      BY <2>8 DEF PrepareStaging, SeedFile, StateName, Modes, State
    <3>2. \A n \in Names : staging'[n] # None =>
            n = StateName(identity) /\ staging'[n] = SeedFile(identity)
      BY <2>8 DEF PrepareStaging, NoStates
    <3> QED
      BY <2>8, <3>1, <3>2 DEF PrepareStaging
  <2>9. CASE PrepareFails
    BY <2>9 DEF PrepareFails, Fail
  <2>10. CASE SpawnGame
    BY <2>10 DEF SpawnGame
  <2>11. CASE SpawnFails
    BY <2>11 DEF SpawnFails, Fail
  <2>12. ASSUME NEW written \in SUBSET Names, NEW emptied \in SUBSET Names,
                NEW saved \in SUBSET Slots, NEW ending \in ExitKinds,
                GameExits(written, emptied, saved, ending)
        PROVE  GenInv'
    BY <2>12 DEF GameExits, State
  <2>13. CASE FinishWithoutSaving
    BY <2>13 DEF FinishWithoutSaving, Report
  <2>14. CASE FinishBegins
    BY <2>14 DEF FinishBegins
  <2>15. ASSUME NEW s \in Slots,
                CopySlot(s)
        PROVE  GenInv'
    BY <2>15 DEF CopySlot
  <2>16. CASE CopySlotsFails
    BY <2>16 DEF CopySlotsFails, Report
  <2>17. CASE SelectOutput
    BY <2>17 DEF SelectOutput, NewStates
  <2>18. CASE SelectNothing
    BY <2>18 DEF SelectNothing, Report
  <2>19. CASE RotateBackup
    BY <2>19 DEF RotateBackup
  <2>20. CASE WriteStateName
    BY <2>20 DEF WriteStateName
  <2>21. CASE PromoteState
    BY <2>21 DEF PromoteState, Report, State
  <2>22. CASE SaveFails
    BY <2>22 DEF SaveFails, Report
  <2>23. CASE WriteReceipt
    BY <2>23 DEF WriteReceipt
  <2>24. CASE EndHelper
    BY <2>24 DEF EndHelper, Discard, NoStates
  <2>25. CASE HelperKilled
    BY <2>25 DEF HelperKilled, Discard, HelperRuns, NoStates
  <2>26. CASE PowerLoss
    BY <2>26 DEF PowerLoss, Discard, NoStates
  <2>27. ASSUME NEW k \in Keys,
                ReplaceFiles(k)
        PROVE  GenInv'
    BY <2>27 DEF ReplaceFiles
  <2>28. CASE UNCHANGED vars
    BY <2>28 DEF vars
  <2> HIDE DEF IInv, TypeOK, OutputInv, ControlInv, StateNameMatches, NameInv, GenInv
  <2> QED
    BY <2>1, <2>2, <2>3, <2>4, <2>5, <2>6, <2>7, <2>8, <2>9, <2>10,
       <2>11, <2>12, <2>13, <2>14, <2>15, <2>16, <2>17, <2>18, <2>19,
       <2>20, <2>21, <2>22, <2>23, <2>24, <2>25, <2>26, <2>27, <2>28 DEF
       Next, Shell, Prepare, Run, Finish, Environment

(* The inductive invariant holds before the first launch.                  *)
LEMMA InvInit == Init => IInv
<1> SUFFICES ASSUME Init PROVE IInv
  OBVIOUS
<1>1. TypeOK /\ OutputInv
  BY TypeInit
<1> QED
  BY <1>1, NoneAssumption
  DEF Init, IInv, ControlInv, StateNameMatches, NameInv, GenInv, NoStates, PrePromote, Saving

(* No step of the shell, the helper, the game or the environment breaks it.*)
LEMMA InvInductive == IInv /\ [Next]_vars => IInv'
BY TypeInductive, ControlInductive, NamesInductive, GenInductive DEF IInv

(* So it holds in every reachable state.                                   *)
LEMMA Invariance == Spec => []IInv
BY InvInit, InvInductive, PTL DEF Spec

(* state-name names what current.auto and previous.auto hold, at every     *)
(* moment of every launch and after every crash.                           *)
THEOREM StateNameCorrect == Spec => []StateNameMatches
<1>1. IInv => StateNameMatches
  BY DEF IInv
<1> QED
  BY <1>1, Invariance, PTL

-----------------------------------------------------------------------------

(* A state changes only in Finish, and Finish gets there only after a      *)
(* clean exit.                                                             *)
LEMMA CleanInductive == TypeOK /\ ControlInv /\ OnlyCleanExitPromotes /\ [Next]_vars => OnlyCleanExitPromotes'
<1> SUFFICES ASSUME TypeOK, ControlInv, OnlyCleanExitPromotes, [Next]_vars PROVE OnlyCleanExitPromotes'
  OBVIOUS
<1> USE PlayAssumption, NoneAssumption
    DEF TypeOK, ControlInv, OnlyCleanExitPromotes, files, disk, workspace, finishing, process, shellVars, Saving, PrePromote, ExitKinds
<1> QED
  <2>1. CASE RefreshGameMenu
    BY <2>1 DEF RefreshGameMenu, GameActions, Modes
  <2>2. ASSUME NEW m \in Modes,
                LaunchGame(m)
        PROVE  OnlyCleanExitPromotes'
    BY <2>2 DEF LaunchGame, Modes
  <2>3. CASE LaunchFails
    BY <2>3 DEF LaunchFails, GameActions, Modes
  <2>4. CASE ReadReceipt
    BY <2>4 DEF ReadReceipt, GameActions, Modes
  <2>5. CASE RefuseSilently
    BY <2>5 DEF RefuseSilently, Discard
  <2>6. CASE RefuseLaunch
    BY <2>6 DEF RefuseLaunch, Fail
  <2>7. CASE PrepareCheck
    BY <2>7 DEF PrepareCheck, Fail
  <2>8. CASE PrepareStaging
    BY <2>8 DEF PrepareStaging, SeedFile, StateName, Modes
  <2>9. CASE PrepareFails
    BY <2>9 DEF PrepareFails, Fail
  <2>10. CASE SpawnGame
    BY <2>10 DEF SpawnGame
  <2>11. CASE SpawnFails
    BY <2>11 DEF SpawnFails, Fail
  <2>12. ASSUME NEW written \in SUBSET Names, NEW emptied \in SUBSET Names,
                NEW saved \in SUBSET Slots, NEW ending \in ExitKinds,
                GameExits(written, emptied, saved, ending)
        PROVE  OnlyCleanExitPromotes'
    BY <2>12 DEF GameExits
  <2>13. CASE FinishWithoutSaving
    BY <2>13 DEF FinishWithoutSaving, Report
  <2>14. CASE FinishBegins
    BY <2>14 DEF FinishBegins
  <2>15. ASSUME NEW s \in Slots,
                CopySlot(s)
        PROVE  OnlyCleanExitPromotes'
    BY <2>15 DEF CopySlot
  <2>16. CASE CopySlotsFails
    BY <2>16 DEF CopySlotsFails, Report
  <2>17. CASE SelectOutput
    BY <2>17 DEF SelectOutput
  <2>18. CASE SelectNothing
    BY <2>18 DEF SelectNothing, Report
  <2>19. CASE RotateBackup
    BY <2>19 DEF RotateBackup
  <2>20. CASE WriteStateName
    BY <2>20 DEF WriteStateName
  <2>21. CASE PromoteState
    BY <2>21 DEF PromoteState, Report
  <2>22. CASE SaveFails
    BY <2>22 DEF SaveFails, Report
  <2>23. CASE WriteReceipt
    BY <2>23 DEF WriteReceipt
  <2>24. CASE EndHelper
    BY <2>24 DEF EndHelper, Discard
  <2>25. CASE HelperKilled
    BY <2>25 DEF HelperKilled, Discard, HelperRuns, HelperRuns
  <2>26. CASE PowerLoss
    BY <2>26 DEF PowerLoss, Discard
  <2>27. ASSUME NEW k \in Keys,
                ReplaceFiles(k)
        PROVE  OnlyCleanExitPromotes'
    BY <2>27 DEF ReplaceFiles
  <2>28. CASE UNCHANGED vars
    BY <2>28 DEF vars
  <2> HIDE DEF TypeOK, ControlInv, OnlyCleanExitPromotes
  <2> QED
    BY <2>1, <2>2, <2>3, <2>4, <2>5, <2>6, <2>7, <2>8, <2>9, <2>10,
       <2>11, <2>12, <2>13, <2>14, <2>15, <2>16, <2>17, <2>18, <2>19,
       <2>20, <2>21, <2>22, <2>23, <2>24, <2>25, <2>26, <2>27, <2>28 DEF
       Next, Shell, Prepare, Run, Finish, Environment

(* A failed launch or a crash preserves the existing Continue states.      *)
THEOREM OnlyCleanExitCorrect == Spec => []OnlyCleanExitPromotes
<1>1. Init => OnlyCleanExitPromotes
  BY DEF Init, OnlyCleanExitPromotes
<1>2. IInv => TypeOK /\ ControlInv
  BY DEF IInv
<1> QED
  BY <1>1, <1>2, CleanInductive, Invariance, PTL DEF Spec

-----------------------------------------------------------------------------

(* Every step is a step of the abstract store or leaves both saved states  *)
(* alone.                                                                  *)
LEMMA StoreStep == IInv /\ [Next]_vars => [Store!Next]_(Store!storeVars)
<1> SUFFICES ASSUME IInv, [Next]_vars PROVE [Store!Next]_(Store!storeVars)
  OBVIOUS
<1> USE PlayAssumption, NoneAssumption
    DEF IInv, TypeOK, OutputInv, ControlInv, StateNameMatches, NameInv, GenInv, Store!storeVars, files, disk, workspace, finishing, process, shellVars, Saving, PrePromote, ExitKinds
<1> QED
  <2>1. CASE RefreshGameMenu
    BY <2>1 DEF RefreshGameMenu, GameActions, Modes
  <2>2. ASSUME NEW m \in Modes,
                LaunchGame(m)
        PROVE  [Store!Next]_(Store!storeVars)
    BY <2>2 DEF LaunchGame, Modes
  <2>3. CASE LaunchFails
    BY <2>3 DEF LaunchFails, GameActions, Modes
  <2>4. CASE ReadReceipt
    BY <2>4 DEF ReadReceipt, GameActions, Modes
  <2>5. CASE RefuseSilently
    BY <2>5 DEF RefuseSilently, Discard
  <2>6. CASE RefuseLaunch
    BY <2>6 DEF RefuseLaunch, Fail
  <2>7. CASE PrepareCheck
    BY <2>7 DEF PrepareCheck, Fail
  <2>8. CASE PrepareStaging
    BY <2>8 DEF PrepareStaging, SeedFile, StateName, Modes
  <2>9. CASE PrepareFails
    BY <2>9 DEF PrepareFails, Fail
  <2>10. CASE SpawnGame
    BY <2>10 DEF SpawnGame
  <2>11. CASE SpawnFails
    BY <2>11 DEF SpawnFails, Fail
  <2>12. ASSUME NEW written \in SUBSET Names, NEW emptied \in SUBSET Names,
                NEW saved \in SUBSET Slots, NEW ending \in ExitKinds,
                GameExits(written, emptied, saved, ending)
        PROVE  [Store!Next]_(Store!storeVars)
    BY <2>12 DEF GameExits
  <2>13. CASE FinishWithoutSaving
    BY <2>13 DEF FinishWithoutSaving, Report
  <2>14. CASE FinishBegins
    BY <2>14 DEF FinishBegins
  <2>15. ASSUME NEW s \in Slots,
                CopySlot(s)
        PROVE  [Store!Next]_(Store!storeVars)
    BY <2>15 DEF CopySlot
  <2>16. CASE CopySlotsFails
    BY <2>16 DEF CopySlotsFails, Report
  <2>17. CASE SelectOutput
    BY <2>17 DEF SelectOutput
  <2>18. CASE SelectNothing
    BY <2>18 DEF SelectNothing, Report
  <2>19. CASE RotateBackup
    <3>1. dir \in Keys /\ cur[dir] # None
      BY <2>19 DEF RotateBackup
    <3>2. Store!BackUp(dir)
      BY <2>19, <3>1 DEF RotateBackup, Store!BackUp
    <3> QED
      BY <3>1, <3>2 DEF Store!Next
  <2>20. CASE WriteStateName
    BY <2>20 DEF WriteStateName
  <2>21. CASE PromoteState
    <3>1. dir \in Keys /\ output \in State /\ output.gen = session
      BY <2>21 DEF PromoteState
    <3>2. cur'[dir] = output /\ cur' = [cur EXCEPT ![dir] = output] /\ prev' = prev
      BY <2>21, <3>1 DEF PromoteState
    <3>3. cur[dir] # None => prev[dir] = cur[dir] /\ output.gen > cur[dir].gen
      BY <2>21, <3>1 DEF PromoteState, State
    <3>4. Store!Advance(dir, output)
      BY <3>2, <3>3 DEF Store!Advance
    <3> QED
      BY <3>1, <3>2, <3>4 DEF Store!Next
  <2>22. CASE SaveFails
    BY <2>22 DEF SaveFails, Report
  <2>23. CASE WriteReceipt
    BY <2>23 DEF WriteReceipt
  <2>24. CASE EndHelper
    BY <2>24 DEF EndHelper, Discard
  <2>25. CASE HelperKilled
    BY <2>25 DEF HelperKilled, Discard, HelperRuns
  <2>26. CASE PowerLoss
    BY <2>26 DEF PowerLoss, Discard
  <2>27. ASSUME NEW k \in Keys,
                ReplaceFiles(k)
        PROVE  [Store!Next]_(Store!storeVars)
    BY <2>27 DEF ReplaceFiles
  <2>28. CASE UNCHANGED vars
    BY <2>28 DEF vars
  <2> HIDE DEF IInv, TypeOK, OutputInv, ControlInv, StateNameMatches, NameInv, GenInv, Store!storeVars
  <2> QED
    BY <2>1, <2>2, <2>3, <2>4, <2>5, <2>6, <2>7, <2>8, <2>9, <2>10,
       <2>11, <2>12, <2>13, <2>14, <2>15, <2>16, <2>17, <2>18, <2>19,
       <2>20, <2>21, <2>22, <2>23, <2>24, <2>25, <2>26, <2>27, <2>28 DEF
       Next, Shell, Prepare, Run, Finish, Environment

(* The files implement the abstract store: the current state only ever     *)
(* gives way to a newer one, and only when the backup already holds it.    *)
THEOREM StoreImplemented == Spec => StoreSpec
<1>1. Init => Store!Init
  BY DEF Init, Store!Init
<1> QED
  BY <1>1, StoreStep, Invariance, PTL DEF Spec, StoreSpec, Store!Spec

-----------------------------------------------------------------------------

(* Reports stay true: nothing changes a saved state between the end of     *)
(* Finish and the next launch.                                             *)
LEMMA StatusInductive == IInv /\ OnlyCleanExitPromotes /\ StatusInv /\ [Next]_vars => StatusInv'
<1> SUFFICES ASSUME IInv, OnlyCleanExitPromotes, StatusInv, [Next]_vars PROVE StatusInv'
  OBVIOUS
<1> USE PlayAssumption, NoneAssumption
    DEF IInv, TypeOK, OutputInv, ControlInv, StateNameMatches, NameInv, GenInv, OnlyCleanExitPromotes, StatusInv, StatusIsTrue, files, disk, workspace, finishing, process, shellVars, Saving, PrePromote, ExitKinds, Messages, Kept
<1> QED
  <2>1. CASE RefreshGameMenu
    BY <2>1 DEF RefreshGameMenu, GameActions, Modes, SavedByThisLaunch
  <2>2. ASSUME NEW m \in Modes,
                LaunchGame(m)
        PROVE  StatusInv'
    BY <2>2 DEF LaunchGame, Modes, SavedByThisLaunch
  <2>3. CASE LaunchFails
    BY <2>3 DEF LaunchFails, GameActions, Modes, SavedByThisLaunch
  <2>4. CASE ReadReceipt
    BY <2>4 DEF ReadReceipt, GameActions, Modes, SavedByThisLaunch
  <2>5. CASE RefuseSilently
    BY <2>5 DEF RefuseSilently, Discard, SavedByThisLaunch
  <2>6. CASE RefuseLaunch
    BY <2>6 DEF RefuseLaunch, Fail, SavedByThisLaunch
  <2>7. CASE PrepareCheck
    BY <2>7 DEF PrepareCheck, Fail, SavedByThisLaunch
  <2>8. CASE PrepareStaging
    BY <2>8 DEF PrepareStaging, SeedFile, StateName, Modes, SavedByThisLaunch
  <2>9. CASE PrepareFails
    BY <2>9 DEF PrepareFails, Fail, SavedByThisLaunch
  <2>10. CASE SpawnGame
    BY <2>10 DEF SpawnGame, SavedByThisLaunch
  <2>11. CASE SpawnFails
    BY <2>11 DEF SpawnFails, Fail, SavedByThisLaunch
  <2>12. ASSUME NEW written \in SUBSET Names, NEW emptied \in SUBSET Names,
                NEW saved \in SUBSET Slots, NEW ending \in ExitKinds,
                GameExits(written, emptied, saved, ending)
        PROVE  StatusInv'
    BY <2>12 DEF GameExits, SavedByThisLaunch
  <2>13. CASE FinishWithoutSaving
    BY <2>13 DEF FinishWithoutSaving, Report, SavedByThisLaunch
  <2>14. CASE FinishBegins
    BY <2>14 DEF FinishBegins, SavedByThisLaunch
  <2>15. ASSUME NEW s \in Slots,
                CopySlot(s)
        PROVE  StatusInv'
    BY <2>15 DEF CopySlot, SavedByThisLaunch
  <2>16. CASE CopySlotsFails
    BY <2>16 DEF CopySlotsFails, Report, SavedByThisLaunch
  <2>17. CASE SelectOutput
    BY <2>17 DEF SelectOutput, SavedByThisLaunch
  <2>18. CASE SelectNothing
    BY <2>18 DEF SelectNothing, Report, SavedByThisLaunch
  <2>19. CASE RotateBackup
    BY <2>19 DEF RotateBackup, SavedByThisLaunch
  <2>20. CASE WriteStateName
    BY <2>20 DEF WriteStateName, SavedByThisLaunch
  <2>21. CASE PromoteState
    BY <2>21, SMTT(30) DEF PromoteState, Report, SavedByThisLaunch
  <2>22. CASE SaveFails
    BY <2>22 DEF SaveFails, Report, SavedByThisLaunch
  <2>23. CASE WriteReceipt
    BY <2>23 DEF WriteReceipt, SavedByThisLaunch
  <2>24. CASE EndHelper
    BY <2>24 DEF EndHelper, Discard, SavedByThisLaunch
  <2>25. CASE HelperKilled
    BY <2>25 DEF HelperKilled, Discard, HelperRuns, SavedByThisLaunch, HelperRuns
  <2>26. CASE PowerLoss
    BY <2>26 DEF PowerLoss, Discard, SavedByThisLaunch
  <2>27. ASSUME NEW k \in Keys,
                ReplaceFiles(k)
        PROVE  StatusInv'
    BY <2>27 DEF ReplaceFiles, SavedByThisLaunch
  <2>28. CASE UNCHANGED vars
    BY <2>28 DEF vars, SavedByThisLaunch
  <2> HIDE DEF IInv, TypeOK, OutputInv, ControlInv, StateNameMatches, NameInv, GenInv, OnlyCleanExitPromotes, StatusInv, StatusIsTrue
  <2> QED
    BY <2>1, <2>2, <2>3, <2>4, <2>5, <2>6, <2>7, <2>8, <2>9, <2>10,
       <2>11, <2>12, <2>13, <2>14, <2>15, <2>16, <2>17, <2>18, <2>19,
       <2>20, <2>21, <2>22, <2>23, <2>24, <2>25, <2>26, <2>27, <2>28 DEF
       Next, Shell, Prepare, Run, Finish, Environment

(* The status the menu shows after a launch is what happened on disk.      *)
THEOREM StatusCorrect == Spec => []StatusIsTrue
<1>1. Init => StatusInv
  BY NoneAssumption DEF Init, StatusInv, StatusIsTrue, PrePromote, Messages, Kept
<1>2. StatusInv => StatusIsTrue
  BY DEF StatusInv
<1> QED
  BY <1>1, <1>2, StatusInductive, Invariance, OnlyCleanExitCorrect, PTL DEF Spec

-----------------------------------------------------------------------------

(* Nothing the files go through between two launches separates a saved     *)
(* state from the name it is staged under.                                 *)
LEMMA ResumeInductive == IInv /\ ResumeInv /\ [Next]_vars => ResumeInv'
<1> SUFFICES ASSUME IInv, ResumeInv, [Next]_vars PROVE ResumeInv'
  OBVIOUS
<1> USE PlayAssumption, NoneAssumption
    DEF IInv, TypeOK, OutputInv, ControlInv, StateNameMatches, NameInv, GenInv, ResumeInv, files, disk, workspace, finishing, process, shellVars, Saving, PrePromote, ExitKinds
<1> QED
  <2>1. CASE RefreshGameMenu
    BY <2>1 DEF RefreshGameMenu, GameActions, Modes
  <2>2. ASSUME NEW m \in Modes,
                LaunchGame(m)
        PROVE  ResumeInv'
    BY <2>2 DEF LaunchGame, Modes
  <2>3. CASE LaunchFails
    BY <2>3 DEF LaunchFails, GameActions, Modes
  <2>4. CASE ReadReceipt
    BY <2>4 DEF ReadReceipt, GameActions, Modes
  <2>5. CASE RefuseSilently
    BY <2>5 DEF RefuseSilently, Discard
  <2>6. CASE RefuseLaunch
    BY <2>6 DEF RefuseLaunch, Fail
  <2>7. CASE PrepareCheck
    BY <2>7 DEF PrepareCheck, Fail
  <2>8. CASE PrepareStaging
    <3>1. /\ slots' = manual'[dir']
          /\ mode' = mode /\ cur' = cur /\ prev' = prev
          /\ dir' = identity /\ identity \in Keys
      BY <2>8 DEF PrepareStaging
    <3>2. CASE mode = "Fresh"
      <4>1. SeedFile(identity) = None
        BY <3>2 DEF SeedFile
      <4>2. staging' = NoStates
        BY <2>8, <4>1 DEF PrepareStaging, NoStates
      <4> QED
        BY <3>1, <3>2, <4>2
    <3>3. CASE mode # "Fresh"
      <4> DEFINE source == IF mode = "Backup" THEN prev[identity] ELSE cur[identity]
      <4>1. SeedFile(identity) = source
        BY <3>3 DEF SeedFile, Modes
      <4>2. source # None
        BY <2>8, <3>3, <4>1 DEF PrepareStaging
      <4>3. savedName[identity] = source.name /\ savedName[identity] # None
        BY <3>1, <4>2 DEF State
      <4>4. staging' = [NoStates EXCEPT ![source.name] = source]
        BY <2>8, <4>1, <4>3 DEF PrepareStaging, StateName
      <4> QED
        BY <3>1, <3>3, <4>2, <4>4
    <3> QED
      BY <3>2, <3>3
  <2>9. CASE PrepareFails
    BY <2>9 DEF PrepareFails, Fail
  <2>10. CASE SpawnGame
    BY <2>10 DEF SpawnGame
  <2>11. CASE SpawnFails
    BY <2>11 DEF SpawnFails, Fail
  <2>12. ASSUME NEW written \in SUBSET Names, NEW emptied \in SUBSET Names,
                NEW saved \in SUBSET Slots, NEW ending \in ExitKinds,
                GameExits(written, emptied, saved, ending)
        PROVE  ResumeInv'
    BY <2>12 DEF GameExits
  <2>13. CASE FinishWithoutSaving
    BY <2>13 DEF FinishWithoutSaving, Report
  <2>14. CASE FinishBegins
    BY <2>14 DEF FinishBegins
  <2>15. ASSUME NEW s \in Slots,
                CopySlot(s)
        PROVE  ResumeInv'
    BY <2>15 DEF CopySlot
  <2>16. CASE CopySlotsFails
    BY <2>16 DEF CopySlotsFails, Report
  <2>17. CASE SelectOutput
    BY <2>17 DEF SelectOutput
  <2>18. CASE SelectNothing
    BY <2>18 DEF SelectNothing, Report
  <2>19. CASE RotateBackup
    BY <2>19 DEF RotateBackup
  <2>20. CASE WriteStateName
    BY <2>20 DEF WriteStateName
  <2>21. CASE PromoteState
    BY <2>21 DEF PromoteState, Report
  <2>22. CASE SaveFails
    BY <2>22 DEF SaveFails, Report
  <2>23. CASE WriteReceipt
    BY <2>23 DEF WriteReceipt
  <2>24. CASE EndHelper
    BY <2>24 DEF EndHelper, Discard
  <2>25. CASE HelperKilled
    BY <2>25 DEF HelperKilled, Discard, HelperRuns
  <2>26. CASE PowerLoss
    BY <2>26 DEF PowerLoss, Discard
  <2>27. ASSUME NEW k \in Keys,
                ReplaceFiles(k)
        PROVE  ResumeInv'
    BY <2>27 DEF ReplaceFiles
  <2>28. CASE UNCHANGED vars
    BY <2>28 DEF vars
  <2> HIDE DEF IInv, TypeOK, OutputInv, ControlInv, StateNameMatches, NameInv, GenInv, ResumeInv
  <2> QED
    BY <2>1, <2>2, <2>3, <2>4, <2>5, <2>6, <2>7, <2>8, <2>9, <2>10,
       <2>11, <2>12, <2>13, <2>14, <2>15, <2>16, <2>17, <2>18, <2>19,
       <2>20, <2>21, <2>22, <2>23, <2>24, <2>25, <2>26, <2>27, <2>28 DEF
       Next, Shell, Prepare, Run, Finish, Environment

(* A game starts from nothing when started fresh, and from the state its   *)
(* menu entry stands for, under that state's own name, when resumed.       *)
THEOREM ResumeCorrect == Spec => []ResumesWhatWasSaved
<1>1. Init => ResumeInv
  BY DEF Init, ResumeInv
<1>2. ResumeInv => ResumesWhatWasSaved
  BY DEF ResumeInv, ResumesWhatWasSaved
<1> QED
  BY <1>1, <1>2, ResumeInductive, Invariance, PTL DEF Spec

-----------------------------------------------------------------------------

(* Finish copies every slot before it looks at the resume states.          *)
LEMMA SlotsInductive == IInv /\ SlotsInv /\ [Next]_vars => SlotsInv'
<1> SUFFICES ASSUME IInv, SlotsInv, [Next]_vars PROVE SlotsInv'
  OBVIOUS
<1> USE PlayAssumption, NoneAssumption
    DEF IInv, TypeOK, OutputInv, ControlInv, StateNameMatches, NameInv, GenInv, SlotsInv, ManualSlotsKept, files, disk, workspace, finishing, process, shellVars, Saving, PrePromote, ExitKinds, Messages, Kept
<1> QED
  <2>1. CASE RefreshGameMenu
    BY <2>1 DEF RefreshGameMenu, GameActions, Modes, Kept
  <2>2. ASSUME NEW m \in Modes,
                LaunchGame(m)
        PROVE  SlotsInv'
    BY <2>2 DEF LaunchGame, Modes, Kept
  <2>3. CASE LaunchFails
    BY <2>3 DEF LaunchFails, GameActions, Modes, Kept
  <2>4. CASE ReadReceipt
    BY <2>4 DEF ReadReceipt, GameActions, Modes, Kept
  <2>5. CASE RefuseSilently
    BY <2>5 DEF RefuseSilently, Discard, Kept
  <2>6. CASE RefuseLaunch
    BY <2>6 DEF RefuseLaunch, Fail, Kept
  <2>7. CASE PrepareCheck
    BY <2>7 DEF PrepareCheck, Fail, Kept
  <2>8. CASE PrepareStaging
    BY <2>8 DEF PrepareStaging, SeedFile, StateName, Modes, Kept
  <2>9. CASE PrepareFails
    BY <2>9 DEF PrepareFails, Fail, Kept
  <2>10. CASE SpawnGame
    BY <2>10 DEF SpawnGame, Kept
  <2>11. CASE SpawnFails
    BY <2>11 DEF SpawnFails, Fail, Kept
  <2>12. ASSUME NEW written \in SUBSET Names, NEW emptied \in SUBSET Names,
                NEW saved \in SUBSET Slots, NEW ending \in ExitKinds,
                GameExits(written, emptied, saved, ending)
        PROVE  SlotsInv'
    BY <2>12 DEF GameExits, Kept
  <2>13. CASE FinishWithoutSaving
    BY <2>13 DEF FinishWithoutSaving, Report, Kept
  <2>14. CASE FinishBegins
    BY <2>14 DEF FinishBegins, Kept
  <2>15. ASSUME NEW s \in Slots,
                CopySlot(s)
        PROVE  SlotsInv'
    BY <2>15 DEF CopySlot, Kept
  <2>16. CASE CopySlotsFails
    BY <2>16 DEF CopySlotsFails, Report, Kept
  <2>17. CASE SelectOutput
    BY <2>17 DEF SelectOutput, Kept
  <2>18. CASE SelectNothing
    BY <2>18 DEF SelectNothing, Report, Kept
  <2>19. CASE RotateBackup
    BY <2>19 DEF RotateBackup, Kept
  <2>20. CASE WriteStateName
    BY <2>20 DEF WriteStateName, Kept
  <2>21. CASE PromoteState
    BY <2>21 DEF PromoteState, Report, Kept
  <2>22. CASE SaveFails
    BY <2>22 DEF SaveFails, Report, Kept
  <2>23. CASE WriteReceipt
    BY <2>23 DEF WriteReceipt, Kept
  <2>24. CASE EndHelper
    BY <2>24 DEF EndHelper, Discard, Kept
  <2>25. CASE HelperKilled
    BY <2>25 DEF HelperKilled, Discard, HelperRuns, Kept
  <2>26. CASE PowerLoss
    BY <2>26 DEF PowerLoss, Discard, Kept
  <2>27. ASSUME NEW k \in Keys,
                ReplaceFiles(k)
        PROVE  SlotsInv'
    BY <2>27 DEF ReplaceFiles, Kept
  <2>28. CASE UNCHANGED vars
    BY <2>28 DEF vars
  <2> HIDE DEF IInv, TypeOK, OutputInv, ControlInv, StateNameMatches, NameInv, GenInv, SlotsInv, ManualSlotsKept
  <2> QED
    BY <2>1, <2>2, <2>3, <2>4, <2>5, <2>6, <2>7, <2>8, <2>9, <2>10,
       <2>11, <2>12, <2>13, <2>14, <2>15, <2>16, <2>17, <2>18, <2>19,
       <2>20, <2>21, <2>22, <2>23, <2>24, <2>25, <2>26, <2>27, <2>28 DEF
       Next, Shell, Prepare, Run, Finish, Environment

(* Past the manual slots, every slot of the launch is in manual/.          *)
THEOREM SlotsCorrect == Spec => []ManualSlotsKept
<1>1. Init => SlotsInv
  BY NoneAssumption DEF Init, SlotsInv, ManualSlotsKept, Saving, Kept, Messages
<1>2. SlotsInv => ManualSlotsKept
  BY DEF SlotsInv
<1> QED
  BY <1>1, <1>2, SlotsInductive, Invariance, PTL DEF Spec

-----------------------------------------------------------------------------
(* Identities.                                                             *)

(* What is kept for a ROM and core was written by them, and what a helper  *)
(* has staged belongs to the ROM and core its game runs.                   *)
KeyInv ==
  /\ \A k \in Keys : (cur[k] # None => cur[k].key = k) /\ (prev[k] # None => prev[k].key = k)
  /\ pc \in {"off", "start", "prepare", "exited", "killed"} => seed = None
  /\ managed /\ pc = "spawn" => dir = identity
  /\ managed /\ pc \in {"playing", "exit", "manual"} \cup Saving => running = dir
  /\ seed # None => managed /\ seed.key = dir
  /\ managed => \A n \in Names : staging[n] # None => staging[n].key = dir
  /\ pc \in Saving => output.key = dir

(* Nothing replaces the ROM or the core from the second look at them to    *)
(* the start of the game: that is the hypothesis.                          *)
LEMMA KeyInductive == ReplaceMidLaunch = FALSE /\ IInv /\ KeyInv /\ [Next]_vars => KeyInv'
<1> SUFFICES ASSUME IInv, KeyInv, [Next]_vars, ReplaceMidLaunch = FALSE PROVE KeyInv'
  OBVIOUS
<1> USE PlayAssumption, NoneAssumption
    DEF IInv, TypeOK, OutputInv, ControlInv, StateNameMatches, NameInv, GenInv, KeyInv, files, disk, workspace, finishing, process, shellVars, Saving, PrePromote, NoStates, ExitKinds
<1> QED
  <2>1. CASE RefreshGameMenu
    BY <2>1 DEF RefreshGameMenu, GameActions, Modes
  <2>2. ASSUME NEW m \in Modes,
                LaunchGame(m)
        PROVE  KeyInv'
    BY <2>2 DEF LaunchGame, Modes
  <2>3. CASE LaunchFails
    BY <2>3 DEF LaunchFails, GameActions, Modes
  <2>4. CASE ReadReceipt
    BY <2>4 DEF ReadReceipt, GameActions, Modes
  <2>5. CASE RefuseSilently
    BY <2>5 DEF RefuseSilently, Discard
  <2>6. CASE RefuseLaunch
    BY <2>6 DEF RefuseLaunch, Fail
  <2>7. CASE PrepareCheck
    BY <2>7 DEF PrepareCheck, Fail
  <2>8. CASE PrepareStaging
    BY <2>8 DEF PrepareStaging, SeedFile, StateName, Modes
  <2>9. CASE PrepareFails
    BY <2>9 DEF PrepareFails, Fail
  <2>10. CASE SpawnGame
    BY <2>10 DEF SpawnGame
  <2>11. CASE SpawnFails
    BY <2>11 DEF SpawnFails, Fail
  <2>12. ASSUME NEW written \in SUBSET Names, NEW emptied \in SUBSET Names,
                NEW saved \in SUBSET Slots, NEW ending \in ExitKinds,
                GameExits(written, emptied, saved, ending)
        PROVE  KeyInv'
    BY <2>12 DEF GameExits
  <2>13. CASE FinishWithoutSaving
    BY <2>13 DEF FinishWithoutSaving, Report
  <2>14. CASE FinishBegins
    BY <2>14 DEF FinishBegins
  <2>15. ASSUME NEW s \in Slots,
                CopySlot(s)
        PROVE  KeyInv'
    BY <2>15 DEF CopySlot
  <2>16. CASE CopySlotsFails
    BY <2>16 DEF CopySlotsFails, Report
  <2>17. CASE SelectOutput
    <3>1. PICK n \in NewStates : output' = staging[n]
      BY <2>17 DEF SelectOutput
    <3>2. n \in Names /\ staging[n] # None /\ managed
      BY <2>17, <3>1 DEF SelectOutput, NewStates
    <3> QED
      BY <2>17, <3>1, <3>2 DEF SelectOutput
  <2>18. CASE SelectNothing
    BY <2>18 DEF SelectNothing, Report
  <2>19. CASE RotateBackup
    BY <2>19 DEF RotateBackup
  <2>20. CASE WriteStateName
    BY <2>20 DEF WriteStateName
  <2>21. CASE PromoteState
    BY <2>21 DEF PromoteState, Report
  <2>22. CASE SaveFails
    BY <2>22 DEF SaveFails, Report
  <2>23. CASE WriteReceipt
    BY <2>23 DEF WriteReceipt
  <2>24. CASE EndHelper
    BY <2>24 DEF EndHelper, Discard
  <2>25. CASE HelperKilled
    BY <2>25 DEF HelperKilled, Discard, HelperRuns
  <2>26. CASE PowerLoss
    BY <2>26 DEF PowerLoss, Discard
  <2>27. ASSUME NEW k \in Keys,
                ReplaceFiles(k)
        PROVE  KeyInv'
    BY <2>27 DEF ReplaceFiles
  <2>28. CASE UNCHANGED vars
    BY <2>28 DEF vars
  <2> HIDE DEF IInv, TypeOK, OutputInv, ControlInv, StateNameMatches, NameInv, GenInv, KeyInv
  <2> QED
    BY <2>1, <2>2, <2>3, <2>4, <2>5, <2>6, <2>7, <2>8, <2>9, <2>10,
       <2>11, <2>12, <2>13, <2>14, <2>15, <2>16, <2>17, <2>18, <2>19,
       <2>20, <2>21, <2>22, <2>23, <2>24, <2>25, <2>26, <2>27, <2>28 DEF
       Next, Shell, Prepare, Run, Finish, Environment

(* "Continue states are tied to the ROM and core file identities": a game  *)
(* is started on a state that the same ROM and core wrote, provided that   *)
(* neither file is replaced between Prepare and the start, the one moment  *)
(* nothing looks at them.                                                  *)
THEOREM TiedCorrect == ReplaceMidLaunch = FALSE => (Spec => []TiedToIdentity)
<1> SUFFICES ASSUME ReplaceMidLaunch = FALSE PROVE Spec => []TiedToIdentity
  OBVIOUS
<1>1. Init => KeyInv
  BY NoneAssumption DEF Init, KeyInv, Saving, NoStates
<1>2. IInv /\ KeyInv => TiedToIdentity
  BY DEF KeyInv, TiedToIdentity, IInv, ControlInv, TypeOK, GenInv
<1>3. IInv /\ KeyInv /\ [Next]_vars => KeyInv'
  BY KeyInductive
<1> QED
  BY <1>1, <1>2, <1>3, Invariance, PTL DEF Spec
=============================================================================
