----------------------------- MODULE EvdevInput -----------------------------
(***************************************************************************)
(* Input of the framebuffer shell: event devices that are plugged and      *)
(* unplugged, probed once a second, opened and grabbed; the grabs given    *)
(* up while a game runs; the queue each open device has in the kernel,     *)
(* which fills also while the shell waits; and what the loop makes of an   *)
(* event: remapping in progress, profiles, Start held for the volume.      *)
(* An unplugged device leaves its descriptor and perhaps its path behind.  *)
(***************************************************************************)
EXTENDS Screens, SequencesExt

CONSTANTS
  Ports,           \* event paths, in order
  Pads,            \* devices that may be plugged in
  Removable,       \* those that may be unplugged
  GamepadScore, KeyboardScore, \* [Pads -> Nat]: what their capabilities earn
  Keys,            \* [Pads -> SUBSET Buttons]: the keys a device has
  Repeating,       \* devices whose held keys the kernel repeats (EV_REP)
  Mice,            \* devices that move a pointer
  InitiallyAt,     \* [ports -> pads or None]
  CaptureOrder,    \* buttons asked for when remapping, in order (25)
  Mandatory,       \* how many of them cannot be skipped (6)
  MaxMoves, MaxGames \* bounds

Paths   == Range(Ports)
Buttons == {"Up", "A", "X", "Start"}

(* How opening a device ends: without a descriptor, with one that could    *)
(* not be grabbed, or with all of it.                                      *)
Hows == {"closed", "open", "grabbed"}

ASSUME EvdevInputAssumption ==
  /\ {GamepadScore, KeyboardScore} \subseteq [Pads -> Nat] /\ {Mice, Removable, Repeating} \subseteq SUBSET Pads
  /\ Keys \in [Pads -> SUBSET Buttons]
  /\ InitiallyAt \in [Paths -> Pads \cup {None}] /\ None \notin Pads \cup (Pads \X Buttons)
  /\ Ports \in Seq(Paths)
  /\ CaptureOrder \in Seq(Buttons) /\ CaptureOrder # <<>>
  /\ {Mandatory, MaxMoves, MaxGames} \subseteq Nat

VARIABLES
  plugged,   \* [Paths -> Pads or None]: /dev/input
  down,      \* [pad, button, game] of the keys down; game: pressed while a game ran
  devs,      \* [Paths -> devices_ or None]: [pad, live, grabbed, refused, unread];
             \* history: refused = an attempt to grab it failed since the last game
  changed,   \* devices_changed_
  known,     \* lib.input_devices
  frame,     \* [Paths -> events read and not yet handled]
  ignore,    \* the 1.2 s after a game: "no", "unread" or "read" (a poll was made since)
  hold,      \* [held, chord, short, new]: battery_start_*; short = perhaps under 850 ms;
             \* history: new = it began after the last game
  screen,    \* "menu" (any screen but the next) or "setup" (InputSetup)
  capture,   \* None or [device, step, arming, early, armed, profile]: input_capture_*
  profiles,  \* [Pads -> None or [map, keys]]
  waiting,   \* a launch is pending
  running,   \* a game runs
  starter,   \* history: <<pad, button>> that began the remapping, until the next event
             \* that counts
  gamePress, \* history: the event that last acted was a press (or a repeat) made during
             \* a game, or the release of such a press, not counting what comes after it
  moves,     \* bound: keys pressed and repeated and devices unplugged so far
  games      \* bound: games run so far

shell == <<hold, screen, capture, profiles, waiting, starter, gamePress>>
vars  == <<plugged, down, devs, changed, known, frame, ignore, running, shell,
           moves, games>>

-----------------------------------------------------------------------------
(* Probing and choosing devices.                                           *)

IsGamepad(p)  == GamepadScore[p] >= 6
IsKeyboard(p) == KeyboardScore[p] >= 5

(* The first of the best, in the order of the paths.                       *)
Best(at, Score, without) ==
  LET scored == {i \in DOMAIN Ports : at[Ports[i]] \notin without \cup {None}
                                      /\ Score[at[Ports[i]]] > 0}
      best == {i \in scored : \A j \in scored : Score[at[Ports[j]]] <= Score[at[Ports[i]]]}
  IN {Ports[i] : i \in {k \in best : \A j \in best : k <= j}}

SelectPrimaryPath(at) ==
  LET first(without) ==
        {Ports[i] : i \in {k \in DOMAIN Ports :
           /\ at[Ports[k]] \notin without
           /\ \A j \in 1..(k - 1) : at[Ports[j]] \in without}}
      nonempty(S, T) == IF S # {} THEN S ELSE T
  IN nonempty(Best(at, GamepadScore, {}), nonempty(Best(at, KeyboardScore, {}),
       nonempty(first(Mice \cup {None}), first({None}))))

(* Every gamepad, or else the one best device, and the best keyboard.      *)
Desired ==
  [at \in [Paths -> Pads \cup {None}] |->
     LET pads == {p \in Paths : at[p] # None /\ IsGamepad(at[p])}
     IN (IF pads # {} THEN pads ELSE SelectPrimaryPath(at)) \cup Best(at, KeyboardScore, {})]

-----------------------------------------------------------------------------
(* Devices.                                                                *)

(* A device that cannot be grabbed stays open all the same.                *)
Open(pad, how) ==
  IF how = "closed" THEN None
  ELSE [pad |-> pad, live |-> TRUE, grabbed |-> how = "grabbed", refused |-> how = "open",
        unread |-> <<>>]

Succeeds == [p \in Paths |-> "grabbed"]

(* Any of the paths that are tried may fail.                               *)
Outcomes(tried) ==
  {how \in [Paths -> Hows] : \A p \in Paths : how[p] # "grabbed" => p \in tried}

(* Mistake: a descriptor that hung up stays.                               *)
RemoveNone(d, S) == d

RemoveDevices(d, S) == [p \in Paths |-> IF p \in S THEN None ELSE d[p]]

(* By path: a path that is still wanted keeps its descriptor, even one of  *)
(* a device that was replaced meanwhile.                                   *)
RefreshDevices(d, how) ==
  LET wanted == Desired[plugged]
  IN [p \in Paths |-> IF p \notin wanted THEN None
                      ELSE IF d[p] = None THEN Open(plugged[p], how[p]) ELSE d[p]]

Opening == {p \in Desired[plugged] : devs[p] = None}

PadsOf(d) == {d[p].pad : p \in {q \in Paths : d[q] # None}}

Changed(d, e) == \E p \in Paths : (d[p] = None) # (e[p] = None)

Hung(d) == {p \in Paths : d[p] # None /\ ~d[p].live}

(* Everything there is to read is read; what hung up is closed, with what  *)
(* it still had to say.                                                    *)
Read(d) ==
  [p \in Paths |-> IF d[p] = None \/ p \in Hung(d) THEN <<>> ELSE d[p].unread]
AfterRead(d) ==
  LET kept == RemoveDevices(d, Hung(d))
  IN [p \in Paths |-> IF kept[p] = None THEN None ELSE [kept[p] EXCEPT !.unread = <<>>]]

Handled == \A p \in Paths : frame[p] = <<>>

(* WaitAndPoll, once a second with a new look at the devices, and the      *)
(* loop's copy of the devices it reports.                                  *)
PollDevices(due, how) ==
  /\ ~running /\ ~waiting /\ Handled
  /\ \E d \in {IF due THEN RefreshDevices(devs, how) ELSE devs} :
        /\ devs' = AfterRead(d)
        /\ frame' = Read(d)
        /\ known' = IF changed \/ Changed(devs, d) \/ Hung(d) # {} THEN PadsOf(devs') ELSE known
  /\ changed' = FALSE
  /\ ignore' = IF ignore = "unread" THEN "read" ELSE ignore
  /\ UNCHANGED <<plugged, down, running, shell, moves, games>>

(* Mistake: a keyboard stays grabbed.                                      *)
ReleaseGamepads ==
  [p \in Paths |-> IF devs[p] = None THEN None
                   ELSE [devs[p] EXCEPT !.grabbed = @ /\ ~IsGamepad(devs[p].pad)]]

(* Ungrabbing a descriptor whose device is gone fails, and harms nobody.   *)
ReleaseDeviceGrabs ==
  [p \in Paths |-> IF devs[p] = None THEN None
                   ELSE [devs[p] EXCEPT !.grabbed = @ /\ ~devs[p].live, !.refused = FALSE]]

(* Every device that is not grabbed is tried again; one that refuses stays *)
(* open, and so does one that is gone.                                     *)
Grabs(d, how) == d.grabbed \/ (d.live /\ how = "grabbed")

AcquireDeviceGrabs(how) ==
  LET d == RefreshDevices(devs, how)
  IN [p \in Paths |-> IF d[p] = None THEN None
                      ELSE [d[p] EXCEPT !.grabbed = Grabs(d[p], how[p]),
                                        !.refused = ~Grabs(d[p], how[p])]]

Regrabbing == {p \in Desired[plugged] : devs[p] # None /\ devs[p].live /\ ~devs[p].grabbed}

-----------------------------------------------------------------------------
(* Profiles.                                                               *)

Identity == [map |-> [b \in Buttons |-> b], keys |-> [b \in Buttons |-> None]]

(* A device without a profile borrows the key codes of another one's.      *)
Borrowed(pad, b) ==
  {profiles[q].keys[b] : q \in {r \in Pads : profiles[r] # None /\ IsKeyboard(pad)
                                             /\ profiles[r].keys[b] # None}}

(* None is a button that is dropped.                                       *)
ApplyInputMapping(pad, b) ==
  LET profile == profiles[pad]
  IN CASE profile = None ->
            IF Borrowed(pad, b) # {} THEN CHOOSE c \in Borrowed(pad, b) : TRUE ELSE b
       [] profile # None /\ profile.keys[b] # None -> profile.keys[b]
       [] OTHER -> IF IsKeyboard(pad) /\ \E c \in Buttons : profile.keys[c] # None THEN None
                   ELSE profile.map[b]

-----------------------------------------------------------------------------
(* Remapping: all events belong to it.                                     *)

(* Mistake: it does not wait for the release.                              *)
BeginCaptureAtOnce(e) ==
  /\ capture' = [device |-> e.pad, step |-> 1, arming |-> FALSE, early |-> FALSE,
                 armed |-> e.button, profile |-> Identity]
  /\ starter' = <<e.pad, e.button>>
  /\ UNCHANGED profiles

BeginCapture(e) ==
  /\ capture' = [device |-> e.pad, step |-> 1, arming |-> TRUE, early |-> TRUE,
                 armed |-> e.button,
                 profile |-> IF profiles[e.pad] = None THEN Identity ELSE profiles[e.pad]]
  /\ starter' = <<e.pad, e.button>>
  /\ UNCHANGED profiles

(* The press that began the remapping is let go first.                     *)
Arming(e) == capture.arming /\ (capture.early \/ e.button = capture.armed)

Assigned(e) ==
  LET target == CaptureOrder[capture.step]
  IN IF IsKeyboard(e.pad) THEN [capture.profile EXCEPT !.keys[e.button] = target]
     ELSE [capture.profile EXCEPT !.map[e.button] = target]

NextStep(profile) ==
  capture' = IF capture.step = Len(CaptureOrder) THEN None
             ELSE [capture EXCEPT !.step = @ + 1, !.arming = FALSE, !.profile = profile]

(* A key counts when it is released; one held long skips its target.  The  *)
(* profile is stored at each assignment and at the end.                    *)
CaptureRelease(e) ==
  \/ /\ profiles' = [profiles EXCEPT ![capture.device] = Assigned(e)]
     /\ NextStep(Assigned(e))
  \/ /\ capture.step > Mandatory
     /\ NextStep(capture.profile)
     /\ profiles' = IF capture.step = Len(CaptureOrder)
                    THEN [profiles EXCEPT ![capture.device] = capture.profile] ELSE profiles

HandleCaptureInputEvent(e) ==
  /\ IF e.pad # capture.device \/ (Arming(e) /\ (capture.early \/ e.press))
     THEN UNCHANGED <<capture, profiles>>
     ELSE IF Arming(e) \/ e.press
     THEN capture' = [capture EXCEPT !.arming = FALSE] /\ UNCHANGED profiles
     ELSE CaptureRelease(e)
  /\ starter' = IF /\ e.pad = capture.device /\ ~capture.early
                    /\ ~(e.press /\ <<e.pad, e.button>> = starter)
                 THEN None ELSE starter
  /\ UNCHANGED <<hold, screen, waiting>>

-----------------------------------------------------------------------------
(* The loop's handling of one event: those of a device in their order; the  *)
(* devices, which come in the order they were opened in, in any.           *)

(* HandleButton, as far as it matters here: the menus lead to InputSetup   *)
(* or to a launch, Start leaves InputSetup, X clears a profile.            *)
HandleButton(b, e) ==
  IF screen = "menu" THEN
    /\ \/ UNCHANGED <<screen, waiting>>
       \/ b = "A" /\ screen' = "setup" /\ UNCHANGED waiting
       \/ b = "A" /\ games < MaxGames /\ waiting' = TRUE /\ UNCHANGED screen
    /\ UNCHANGED <<capture, profiles, starter>>
  ELSE
    /\ UNCHANGED waiting
    /\ \/ b = "A" /\ BeginCapture(e) /\ UNCHANGED screen
       \/ b = "X" /\ profiles' = [profiles EXCEPT ![e.pad] = None]
          /\ UNCHANGED <<screen, capture, starter>>
       \/ b = "Start" /\ screen' = "menu" /\ UNCHANGED <<capture, profiles, starter>>
       \/ b = "Up" /\ UNCHANGED <<screen, capture, profiles, starter>>

(* Start acts when it is let go, unless it was long or changed the volume. *)
StartPressed ==
  /\ hold' = IF hold.held THEN hold
            ELSE [held |-> TRUE, chord |-> FALSE, short |-> TRUE, new |-> TRUE]
  /\ UNCHANGED <<screen, capture, profiles, waiting, starter>>

StartReleased(e) ==
  /\ hold' = [hold EXCEPT !.held = FALSE, !.chord = FALSE]
  /\ \/ hold.short /\ ~hold.chord /\ HandleButton("Start", e)
     \/ UNCHANGED <<screen, capture, profiles, waiting, starter>>

AdjustVolume ==
  hold' = [hold EXCEPT !.chord = TRUE]
  /\ UNCHANGED <<screen, capture, profiles, waiting, starter>>

ShellButton(b, e) ==
  IF b = "Start" THEN IF e.press THEN StartPressed ELSE StartReleased(e)
  ELSE IF b = None \/ ~e.press THEN UNCHANGED <<hold, screen, capture, profiles, waiting, starter>>
  ELSE IF b = "Up" /\ hold.held THEN AdjustVolume
  ELSE HandleButton(b, e) /\ UNCHANGED hold

Ignored == ignore # "no"

Remapping == screen = "setup" /\ capture # None

Moved == <<screen, capture, profiles, waiting>>' # <<screen, capture, profiles, waiting>>

HandleEvent(p) ==
  /\ frame[p] # <<>> /\ ~running
  /\ LET e == Head(frame[p])
     IN /\ IF Ignored THEN UNCHANGED <<hold, screen, capture, profiles, waiting, starter>>
           ELSE IF Remapping THEN HandleCaptureInputEvent(e)
           ELSE ShellButton(ApplyInputMapping(e.pad, e.button), e)
        /\ gamePress' = IF ~(Moved \/ (hold'.chord /\ ~hold.chord)) THEN gamePress
                         ELSE e.game /\ (e.press \/ ~(hold.new \/ Remapping))
  /\ frame' = [frame EXCEPT ![p] = Tail(@)]
  /\ UNCHANGED <<plugged, down, devs, changed, known, ignore, running, moves, games>>

(* Launching: the shell waits for the game, and reads nothing.             *)
RunGame ==
  /\ waiting /\ Handled
  /\ waiting' = FALSE /\ running' = TRUE /\ games' = games + 1
  /\ devs' = ReleaseDeviceGrabs
  /\ UNCHANGED <<plugged, down, changed, known, frame, ignore, hold, screen, capture,
                 profiles, starter, gamePress, moves>>

(* Mistake: input is taken at once.                                        *)
IgnoreNothing == "no"

IgnoreFromNow == "unread"

GameEnds(how) ==
  /\ running /\ running' = FALSE
  /\ devs' = AcquireDeviceGrabs(how)
  /\ changed' = (changed \/ Changed(devs, devs'))
  /\ ignore' = IgnoreFromNow
  /\ screen' \in {"menu", screen}  \* a game returns to its menu, RetroArch's own to Tools
  /\ hold' = [hold EXCEPT !.new = FALSE]
  /\ UNCHANGED <<plugged, down, known, frame, capture, profiles, waiting, starter, gamePress,
                 moves, games>>

-----------------------------------------------------------------------------
(* Time, the player's fingers and the plugs.                               *)

(* The first poll after a game falls into the 1.2 s, which are longer than *)
(* a short press.                                                          *)
IgnoreEnds ==
  /\ ignore = "read" /\ Handled /\ ignore' = "no" /\ hold' = [hold EXCEPT !.short = FALSE]
  /\ UNCHANGED <<plugged, down, devs, changed, known, frame, screen, capture, profiles,
                 waiting, running, starter, gamePress, moves, games>>

ArmDelayEnds ==
  /\ capture # None /\ capture.early /\ capture' = [capture EXCEPT !.early = FALSE]
  /\ UNCHANGED <<plugged, down, devs, changed, known, frame, ignore, hold, screen,
                 profiles, waiting, running, starter, gamePress, moves, games>>

(* A key reaches every open descriptor of its device.                      *)
Key(p, b, press, game) ==
  devs' = IF devs[p] = None \/ ~devs[p].live THEN devs
          ELSE [devs EXCEPT ![p].unread =
                  Append(@, [pad |-> plugged[p], button |-> b, press |-> press, game |-> game])]

PressKey(p, b) ==
  /\ plugged[p] # None /\ b \in Keys[plugged[p]] /\ moves < MaxMoves /\ moves' = moves + 1
  /\ \A k \in down : k.pad # plugged[p] \/ k.button # b
  /\ down' = down \cup {[pad |-> plugged[p], button |-> b, game |-> running]}
  /\ Key(p, b, TRUE, running)
  /\ UNCHANGED <<plugged, changed, known, frame, ignore, running, shell, games>>

(* A repeat is a press of its own: it may come after the game that runs    *)
(* when the key went down.                                                 *)
RepeatKey(p) ==
  /\ plugged[p] \in Repeating /\ moves < MaxMoves /\ moves' = moves + 1
  /\ \E k \in down : k.pad = plugged[p] /\ Key(p, k.button, TRUE, running)
  /\ UNCHANGED <<plugged, down, changed, known, frame, ignore, running, shell, games>>

ReleaseKey(p) ==
  /\ \E k \in down : /\ k.pad = plugged[p] /\ down' = down \ {k}
                     /\ Key(p, k.button, FALSE, k.game)
  /\ UNCHANGED <<plugged, changed, known, frame, ignore, running, shell, moves,
                 games>>

Unplug(p) ==
  /\ plugged[p] \in Removable /\ moves < MaxMoves /\ moves' = moves + 1
  /\ plugged' = [plugged EXCEPT ![p] = None]
  /\ down' = {k \in down : k.pad # plugged[p]}
  /\ devs' = IF devs[p] = None THEN devs ELSE [devs EXCEPT ![p].live = FALSE]
  /\ UNCHANGED <<changed, known, frame, ignore, running, shell, games>>

Plug(p, pad) ==
  /\ plugged[p] = None /\ \A q \in Paths : plugged[q] # pad
  /\ plugged' = [plugged EXCEPT ![p] = pad]
  /\ UNCHANGED <<down, devs, changed, known, frame, ignore, running, shell, moves, games>>

-----------------------------------------------------------------------------
Init ==
  /\ plugged = InitiallyAt /\ down = {}
  /\ \E how \in Outcomes(Desired[InitiallyAt]) :
       /\ devs = [p \in Paths |-> IF p \in Desired[InitiallyAt]
                                  THEN Open(InitiallyAt[p], how[p]) ELSE None]
  /\ \E p \in Paths : devs[p] # None  \* or the shell does not start
  /\ known = PadsOf(devs)
  /\ changed = TRUE /\ frame = [p \in Paths |-> <<>>] /\ ignore = "no"
  /\ hold = [held |-> FALSE, chord |-> FALSE, short |-> FALSE, new |-> FALSE]
  /\ screen = "menu" /\ capture = None /\ profiles = [p \in Pads |-> None]
  /\ waiting = FALSE /\ running = FALSE /\ starter = None /\ gamePress = FALSE
  /\ moves = 0 /\ games = 0

Next ==
  \/ PollDevices(FALSE, Succeeds) \/ \E how \in Outcomes(Opening) : PollDevices(TRUE, how)
  \/ RunGame \/ \E how \in Outcomes(Opening \cup Regrabbing) : GameEnds(how)
  \/ IgnoreEnds \/ ArmDelayEnds
  \/ \E p \in Paths : \/ HandleEvent(p)
                      \/ \E b \in Buttons : PressKey(p, b)
                      \/ RepeatKey(p) \/ ReleaseKey(p) \/ Unplug(p)
                      \/ \E pad \in Pads : Plug(p, pad)

Spec == Init /\ [][Next]_vars

(* An open that is tried again every second does not fail for ever.        *)
FairSpec == Spec /\ WF_vars(\E p \in Paths : HandleEvent(p)) /\ WF_vars(PollDevices(TRUE, Succeeds))

-----------------------------------------------------------------------------
(* A game that runs gets every device that is plugged in: the shell has    *)
(* given all grabs up, and takes none while it waits.                      *)
GamesHaveControls ==
  running => \A p \in Paths : devs[p] # None /\ devs[p].live => ~devs[p].grabbed

(* What was pressed or repeated during a game, and read from the queues    *)
(* after it, moves nothing in the shell, not even when it is released long *)
(* after: only as the end of a Start pressed since, or as the key that a   *)
(* remapping waits for, may its release pass.  (Repeats of a key still     *)
(* held after the 1.2 s are presses of that time, and act.)                *)
GameInputIgnored == ~gamePress

(* Letting go of the button that began the remapping assigns nothing, as   *)
(* long as no other key of the device came in between.                     *)
OwnReleaseFree ==
  [][\A p \in Paths :
       LET e == Head(frame[p])
       IN frame[p] # <<>> /\ frame'[p] = Tail(frame[p]) /\ Remapping
            /\ <<e.pad, e.button>> = starter => UNCHANGED profiles]_vars

(* Whatever is plugged, unplugged or run, and whichever attempts to open   *)
(* or grab fail, all devices worth having are in the end open and listed,  *)
(* also one that returns on the path of another that vanished, and after a *)
(* game; and grabbed, but for one whose last grab failed: it is not tried  *)
(* again before the next game.                                             *)
Ours(p) ==
  /\ devs[p] # None /\ devs[p].live /\ devs[p].pad \in known
  /\ devs[p].grabbed \/ devs[p].refused

ControlsReturn == []<>(waiting \/ running \/ \A p \in Desired[plugged] : Ours(p))

(* README: "Releasing Start hides the held panel."  Violated: the release  *)
(* is lost when the device is unplugged, when it falls into a game or the  *)
(* 1.2 s after it, and when a remapping has begun meanwhile.               *)
ReleaseHidesPanel ==
  hold.held /\ ~hold.short /\ Handled /\ ~running /\ ~Remapping
    /\ (\A p \in Paths : devs[p] # None => devs[p].unread = <<>>)
    => down # {}

=============================================================================
