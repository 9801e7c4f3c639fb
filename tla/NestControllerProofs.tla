------------------------ MODULE NestControllerProofs ------------------------
(***************************************************************************)
(* The Nest screen, proved for every set of games: what keeps the relock   *)
(* of the parental PIN from being lost between the buttons, the waiting    *)
(* job, the running one and its late result, and a transfer from being     *)
(* replaced.                                                               *)
(*                                                                         *)
(* The parts of the invariant are predicates of a record s of the UI       *)
(* thread, the service v and the history g, so that the operators of the   *)
(* module, which lead from one record to the next, have lemmas of their    *)
(* own.                                                                    *)
(***************************************************************************)
EXTENDS NestController, TLAPS

Screens ==
  [inNest : BOOLEAN, view : Views, back : {"Catalog", "Installed", "Updates"},
   rateBack : {"Installed", "Detail"}, pinAction : {"set", "unlock", "remove", None},
   catalog : SUBSET Games, updates : SUBSET Games, installed : SUBSET Games,
   cached : SUBSET Games, manifest : Manifests \cup {None}, rating : Games \cup {None},
   enabled : BOOLEAN, locked : BOOLEAN, force : BOOLEAN, error : BOOLEAN,
   external : BOOLEAN, changed : BOOLEAN, launch : Games \cup {None},
   run : Runs \cup {None}, pending : Jobs \cup {None}, needLock : BOOLEAN]
Services ==
  [pin : BOOLEAN, unlocked : BOOLEAN, installed : SUBSET Games, cached : SUBSET Games]

(* The view that starts a job of each kind, and what it asks for.          *)
ViewsOf(kind) ==
  CASE kind = "Refresh" -> {"Home"}
    [] kind = "Image" -> {"Catalog", "Installed", "Detail", "Remove"}
    [] kind = "Manifest" -> {"Detail"}
    [] kind \in {"Install", "Uninstall"} -> {"Transfer"}
    [] kind = "Rating" -> {"Installed", "Detail"}
    [] OTHER -> {kind}

JobInv(j) ==
  /\ j.view \in ViewsOf(j.kind)
  /\ j.what \in {"unlock", "set", "remove", "lock"} => j.kind = "Parental"
  /\ j.kind = "Manifest" => j.game # None

RunInv(s) ==
  /\ s.pending # None => s.run # None /\ JobInv(s.pending)
  /\ s.run # None => JobInv(s.run.job)
  /\ s.run # None /\ s.needLock /\ s.run.current => s.run.step = "begin"

(* A relock forces the lock of the screen until the PIN is given again;    *)
(* its job waits only for one that it has outdated.                        *)
ForceInv(s) ==
  /\ s.needLock => s.force
  /\ s.run # None /\ (~s.run.current \/ s.run.job.kind = "Refresh") => s.force
  /\ s.pending # None /\ s.pending.kind = "Refresh" => ~s.run.current

(* Where the player can be while the PIN is on its way, and that nothing   *)
(* relocks for a game then.  An outdated one has the relock behind it.     *)
PinInv(s) ==
  /\ s.run # None /\ s.run.job.kind = "Parental" =>
       /\ s.launch = None
       /\ \/ s.view \in {"Home", "Parental", "Pin"}
          \/ /\ s.view \in {"Catalog", "Installed", "Updates"}
             /\ s.pending # None /\ s.pending.view = s.view /\ s.pending.kind # "Image"
       /\ ~s.run.current => s.pending # None /\ s.pending.kind = "Refresh" /\ s.view = "Home"
  /\ s.pending # None /\ s.pending.kind = "Parental" =>
       s.launch = None /\ s.view \in {"Home", "Parental", "Pin"}

(* A transfer that waits keeps the player on its screen.                   *)
TransferInv(s) ==
  s.pending # None /\ s.pending.kind \in {"Install", "Uninstall"} =>
    s.view = "Transfer" /\ s.inNest /\ s.launch = None

(* A service that is unlocked without the PIN having been given is going   *)
(* to be locked, or the PIN has just been accepted.                        *)
UnlockedInv(s, v, g) ==
  /\ v.unlocked => v.pin
  /\ v.unlocked /\ ~g =>
       \/ s.needLock
       \/ /\ s.run # None
          /\ \/ s.run.job.kind = "Refresh" /\ s.run.step # "done"
             \/ /\ s.run.job.kind = "Parental" /\ s.run.step = "done"
                /\ ~s.run.current \/ (s.run.ok /\ s.run.job.what = "unlock")
  /\ s.run # None /\ s.run.step = "done" /\ s.run.ok /\ s.run.job.kind = "Parental"
       /\ s.run.job.what # "unlock" => ~v.unlocked

(* Without the PIN the screen is locked.                                   *)
LockedInv(s, g) == s.enabled /\ ~g => s.locked

(* The screen agrees with the service, except while a parental job is      *)
(* running and before the first result.                                    *)
SyncInv(s, v) ==
  \/ s.enabled = v.pin /\ s.locked = (v.pin /\ (s.force \/ ~v.unlocked))
  \/ s.run # None /\ s.run.job.kind = "Parental"
  \/ /\ s.catalog = {} /\ s.updates = {} /\ s.installed = {} /\ s.manifest = None
     /\ s.view # "Rating"

(* Every game that the PIN hides is described by the catalog: a manifest   *)
(* made up for one that is not says that it is for everybody.              *)
Described == Legacy \cap Mature = {}

(* What the device knows of the games it shows.                            *)
Known(v) == v.cached \cup Legacy
KnownInv(s, v) ==
  /\ v.installed \subseteq Known(v)
  /\ s.catalog \cup s.updates \cup s.installed \subseteq Known(v)
  /\ s.manifest # None => s.manifest.game \in Known(v)
  /\ s.pending # None /\ s.pending.kind \in {"Manifest", "Install"} => s.pending.game \in Known(v)
  /\ s.run # None /\ s.run.job.kind \in {"Manifest", "Install"} => s.run.job.game \in Known(v)
  /\ s.run # None /\ s.run.step = "done" /\ s.run.ok =>
       /\ s.run.job.kind \in {"Catalog", "Updates"} => s.run.got \subseteq Known(v) \cap Games
       /\ s.run.job.kind = "Manifest" =>
            \E m \in Manifests : /\ s.run.got = {m} /\ m.game \in Known(v)
                                 /\ Described => (m.mature <=> m.game \in Mature)

(* What is locked is not there to be shown.                                *)
MatureInv(s) ==
  Described =>
    /\ s.manifest # None => (s.manifest.mature <=> s.manifest.game \in Mature)
    /\ s.locked => /\ s.catalog \cap Mature = {} /\ s.updates \cap Mature = {}
                   /\ s.manifest # None => s.manifest.game \notin Mature
                   /\ s.view = "Rating" => s.rating \notin Mature

TypeInv == ui \in Screens /\ service \in Services /\ granted \in BOOLEAN

Control(s) == RunInv(s) /\ ForceInv(s) /\ PinInv(s) /\ TransferInv(s)
Content(s, v) == SyncInv(s, v) /\ KnownInv(s, v) /\ MatureInv(s)

IInv ==
  /\ TypeInv /\ Control(ui) /\ Content(ui, service)
  /\ UnlockedInv(ui, service, granted) /\ LockedInv(ui, granted)

-----------------------------------------------------------------------------
(* The operators of the UI thread.                                         *)

NewRun(j) ==
  [job |-> j, current |-> TRUE, cancel |-> FALSE, step |-> "begin", ok |-> FALSE,
   changed |-> FALSE, got |-> {}]

(* r is the job of before, which may have been told to stop.               *)
SameRun(q, r) ==
  r.job = q.job /\ r.current = q.current /\ r.step = q.step /\ r.ok = q.ok /\ r.got = q.got

SameContent(s, t) ==
  /\ t.catalog = s.catalog /\ t.updates = s.updates /\ t.installed = s.installed
  /\ t.cached = s.cached
  /\ t.enabled = s.enabled /\ t.locked = s.locked /\ t.force = s.force

SamePlace(s, t) ==
  /\ t.inNest = s.inNest /\ t.view = s.view /\ t.launch = s.launch /\ t.needLock = s.needLock
  /\ t.rating = s.rating

LEMMA StartLemma ==
  ASSUME NEW s \in Screens, NEW j \in Jobs
  PROVE  LET t == Start(s, j)
         IN /\ t \in Screens /\ SameContent(s, t) /\ SamePlace(s, t) /\ t.manifest = s.manifest
            /\ IF s.run = None THEN t.run = NewRun(j) /\ t.pending = None
               ELSE t.run \in Runs /\ SameRun(s.run, t.run) /\ t.pending = j
<1>1. NewRun(j) \in Runs
  BY DEF NewRun, Runs
<1>2. CASE s.run = None
  <2>1. Start(s, j) = [s EXCEPT !.pending = None, !.run = NewRun(j)]
    BY <1>2 DEF Start, NewRun
  <2> QED
    <3> DEFINE r == NewRun(j)
               t == [s EXCEPT !.pending = None, !.run = r]
    <3>1. r \in Runs
      BY <1>1
    <3> HIDE DEF r
    <3>2. t \in Screens
      BY <3>1 DEF Screens
    <3>3. SameContent(s, t) /\ SamePlace(s, t) /\ t.manifest = s.manifest
      BY DEF Screens, SameContent, SamePlace
    <3>4. t.run = r /\ t.pending = None
      BY DEF Screens
    <3> QED
      BY <1>2, <2>1, <3>2, <3>3, <3>4 DEF r
<1>3. CASE s.run # None
  <2>1. s.run \in Runs
    BY <1>3 DEF Screens
  <2>2. [s.run EXCEPT !.cancel = TRUE] \in Runs /\ SameRun(s.run, [s.run EXCEPT !.cancel = TRUE])
    BY <2>1 DEF Runs, SameRun
  <2>3. Start(s, j) = [s EXCEPT !.run = [s.run EXCEPT !.cancel = TRUE], !.pending = j]
    BY <1>3 DEF Start, Screens
  <2> DEFINE r == [s.run EXCEPT !.cancel = TRUE]
             t == [s EXCEPT !.run = r, !.pending = j]
  <2>4. r \in Runs /\ SameRun(s.run, r)
    BY <2>2
  <2> HIDE DEF r
  <2>5. t \in Screens
    BY <2>4 DEF Screens
  <2>6. SameContent(s, t) /\ SamePlace(s, t) /\ t.manifest = s.manifest
    BY DEF Screens, SameContent, SamePlace
  <2>7. t.run = r /\ t.pending = j
    BY DEF Screens
  <2> QED
    BY <1>3, <2>3, <2>4, <2>5, <2>6, <2>7 DEF r
<1> QED
  BY <1>2, <1>3

LEMMA OutdatedLemma ==
  ASSUME NEW s \in Screens
  PROVE  LET t == Locking(s)
         IN /\ t \in Screens
            /\ t.catalog = s.catalog /\ t.updates = s.updates /\ t.installed = s.installed
            /\ t.cached = s.cached /\ t.rating = s.rating /\ t.manifest = s.manifest
            /\ t.enabled = s.enabled /\ t.locked = s.enabled /\ t.force /\ t.needLock
            /\ t.inNest = s.inNest /\ t.view = s.view /\ t.launch = s.launch
            /\ t.pending = s.pending
            /\ IF s.run = None THEN t.run = None
               ELSE /\ t.run \in Runs /\ t.run.job = s.run.job /\ ~t.run.current
                    /\ t.run.step = s.run.step /\ t.run.ok = s.run.ok /\ t.run.got = s.run.got
<1>1. CASE s.run = None
  <2>1. Locking(s) = [s EXCEPT !.needLock = TRUE, !.force = TRUE, !.locked = s.enabled]
    BY <1>1 DEF Locking, Outdated
  <2> DEFINE t == [s EXCEPT !.needLock = TRUE, !.force = TRUE, !.locked = s.enabled]
  <2>2. t \in Screens
    BY DEF Screens
  <2>3. /\ t.catalog = s.catalog /\ t.updates = s.updates /\ t.installed = s.installed
        /\ t.cached = s.cached /\ t.rating = s.rating /\ t.manifest = s.manifest
    BY DEF Screens
  <2>4. /\ t.enabled = s.enabled /\ t.locked = s.enabled /\ t.force /\ t.needLock
        /\ t.inNest = s.inNest /\ t.view = s.view /\ t.launch = s.launch
        /\ t.pending = s.pending /\ t.run = s.run
    BY DEF Screens
  <2> HIDE DEF t
  <2> QED
    BY <1>1, <2>1, <2>2, <2>3, <2>4 DEF t
<1>2. CASE s.run # None
  <2>1. s.run \in Runs
    BY <1>2 DEF Screens
  <2> DEFINE r == [s.run EXCEPT !.current = FALSE]
  <2>2. /\ r \in Runs /\ r.job = s.run.job /\ ~r.current /\ r.step = s.run.step /\ r.ok = s.run.ok
        /\ r.got = s.run.got
    BY <2>1 DEF Runs
  <2>3. Locking(s) = [[s EXCEPT !.run = r] EXCEPT !.needLock = TRUE, !.force = TRUE,
                                                  !.locked = s.enabled]
    BY <1>2 DEF Locking, Outdated, Screens
  <2> HIDE DEF r
  <2> DEFINE t == [[s EXCEPT !.run = r] EXCEPT !.needLock = TRUE, !.force = TRUE,
                                                !.locked = s.enabled]
  <2>4. t \in Screens
    BY <2>2 DEF Screens
  <2>5. /\ t.catalog = s.catalog /\ t.updates = s.updates /\ t.installed = s.installed
        /\ t.cached = s.cached /\ t.rating = s.rating /\ t.manifest = s.manifest
    BY DEF Screens
  <2>6. /\ t.enabled = s.enabled /\ t.locked = s.enabled /\ t.force /\ t.needLock
        /\ t.inNest = s.inNest /\ t.view = s.view /\ t.launch = s.launch
        /\ t.pending = s.pending /\ t.run = r
    BY DEF Screens
  <2> HIDE DEF t
  <2> QED
    BY <1>2, <2>2, <2>3, <2>4, <2>5, <2>6 DEF t
<1> QED
  BY <1>1, <1>2

(* What a device that is locked does not take for mature is not.           *)
LEMMA LooksLemma ==
  ASSUME NEW s \in Screens, NEW g, s.locked, ~LooksMature(s, g),
         s.manifest # None => (s.manifest.mature <=> s.manifest.game \in Mature)
  PROVE  g \notin Mature
BY DEF LooksMature

(* u shows no more than s, and nothing that is locked.                     *)
Filtered(s, u) ==
  /\ u.catalog \subseteq s.catalog /\ u.updates \subseteq s.updates
  /\ u.installed = s.installed /\ u.rating = s.rating /\ u.manifest \in {s.manifest, None}
  /\ u.enabled = s.enabled /\ u.locked = s.locked /\ u.force = s.force
  /\ Described /\ u.locked =>
       /\ u.catalog \cap Mature = {} /\ u.updates \cap Mature = {}
       /\ u.manifest # None => u.manifest.game \notin Mature

LEMMA FilterLemma ==
  ASSUME NEW s \in Screens,
         Described /\ s.manifest # None => (s.manifest.mature <=> s.manifest.game \in Mature)
  PROVE  LET u == FilterMature(s)
         IN /\ u \in Screens /\ Filtered(s, u) /\ SamePlace(s, u)
            /\ u.run = s.run /\ u.pending = s.pending
<1>1. CASE ~s.locked
  BY <1>1 DEF FilterMature, Filtered, SamePlace, Screens
<1>2. CASE s.locked
  <2> DEFINE c == s.catalog \ Mature
             w == {g \in s.updates : ~LooksMature(s, g)}
             m == IF s.manifest # None /\ s.manifest.mature THEN None ELSE s.manifest
             u == [s EXCEPT !.catalog = c, !.updates = w, !.manifest = m]
  <2>1. FilterMature(s) = u
    BY <1>2 DEF FilterMature, Screens
  <2>2. c \subseteq s.catalog /\ c \cap Mature = {} /\ w \subseteq s.updates
    OBVIOUS
  <2>3. Described => w \cap Mature = {}
    BY <1>2, LooksLemma
  <2>4. m \in {s.manifest, None} /\ (Described /\ m # None => m.game \notin Mature)
    OBVIOUS
  <2>5. s.catalog \subseteq Games /\ s.updates \subseteq Games /\ s.manifest \in Manifests \cup {None}
    BY DEF Screens
  <2> HIDE DEF c, w, m
  <2>6. u \in Screens
    BY <2>2, <2>4, <2>5 DEF Screens
  <2>7. u.catalog = c /\ u.updates = w /\ u.manifest = m
    BY DEF Screens
  <2>8. /\ u.installed = s.installed /\ u.rating = s.rating /\ u.enabled = s.enabled
        /\ u.locked = s.locked /\ u.force = s.force /\ u.run = s.run /\ u.pending = s.pending
        /\ SamePlace(s, u)
    BY DEF Screens, SamePlace
  <2> QED
    BY <2>1, <2>2, <2>3, <2>4, <2>6, <2>7, <2>8 DEF Filtered
<1> QED
  BY <1>1, <1>2

LEMMA HomeLemma ==
  ASSUME NEW s \in Screens
  PROVE  LET u == Home(s)
         IN /\ u \in Screens /\ SameContent(s, u) /\ u.manifest = s.manifest
            /\ u.inNest = s.inNest /\ u.view = "Home" /\ u.launch = s.launch
            /\ u.needLock = s.needLock /\ u.run = s.run /\ u.pending = s.pending
            /\ u.rating = s.rating
<1>1. "Home" \in Views
  BY DEF Views
<1>2. Home(s) \in Screens
  BY <1>1 DEF Home, Screens
<1> QED
  BY <1>2 DEF Home, Screens, SameContent

-----------------------------------------------------------------------------
(* A relock.                                                               *)

(* s has become u by a relock, which its job is to follow.                 *)
Relocked(s, u) ==
  /\ Filtered(Locking(s), u) /\ u.run = Locking(s).run /\ u.pending = s.pending /\ u.needLock
  /\ s.run # None /\ s.run.job.kind = "Parental" => u.view = "Home" /\ u.launch = None
  /\ u.view = "Rating" => s.view = "Rating" /\ (Described /\ u.locked => u.rating \notin Mature)

LEMMA RelockedLemma ==
  ASSUME NEW s \in Screens, NEW v, NEW g, Control(s), Content(s, v), UnlockedInv(s, v, g),
         NEW u \in Screens, Relocked(s, u),
         NEW j \in Jobs, j.kind = "Refresh", JobInv(j)
  PROVE  LET t == Start(u, j)
         IN /\ t \in Screens /\ Control(t) /\ Content(t, v)
            /\ UnlockedInv(t, v, FALSE) /\ LockedInv(t, FALSE)
            /\ t.pending # None => t.pending.kind = "Refresh"
<1> DEFINE k == Locking(s)
           t == Start(u, j)
<1>1. /\ k.catalog = s.catalog /\ k.updates = s.updates /\ k.installed = s.installed
      /\ k.cached = s.cached /\ k.rating = s.rating /\ k.manifest = s.manifest
      /\ k.enabled = s.enabled /\ k.locked = s.enabled /\ k.force
      /\ IF s.run = None THEN k.run = None
         ELSE /\ k.run \in Runs /\ k.run.job = s.run.job /\ ~k.run.current
              /\ k.run.step = s.run.step /\ k.run.ok = s.run.ok /\ k.run.got = s.run.got
  BY OutdatedLemma
<1>2. /\ t \in Screens /\ SameContent(u, t) /\ SamePlace(u, t) /\ t.manifest = u.manifest
      /\ IF u.run = None THEN t.run = NewRun(j) /\ t.pending = None
         ELSE t.run \in Runs /\ SameRun(u.run, t.run) /\ t.pending = j
  BY StartLemma
<1>3. /\ t.force /\ t.needLock /\ t.enabled = s.enabled /\ t.locked = s.enabled
      /\ t.view = u.view /\ t.launch = u.launch /\ t.rating = u.rating
  BY <1>1, <1>2 DEF Relocked, Filtered, SameContent, SamePlace
<1>4. /\ t.run # None
      /\ IF s.run = None THEN t.run = NewRun(j) /\ t.pending = None
         ELSE /\ t.run.job = s.run.job /\ ~t.run.current /\ t.run.step = s.run.step
              /\ t.run.ok = s.run.ok /\ t.run.got = s.run.got /\ t.pending = j
  <2>1. NewRun(j) \in Runs
    BY DEF NewRun, Runs
  <2>2. u.run = k.run
    BY DEF Relocked
  <2>3. u.run = None <=> s.run = None
    BY <1>1, <2>2, ControllerAssumption
  <2> QED
    BY <1>1, <1>2, <2>1, <2>2, <2>3, ControllerAssumption DEF SameRun
<1>5. NewRun(j).job = j /\ NewRun(j).current /\ NewRun(j).step = "begin"
  BY DEF NewRun
<1>6. j # None /\ s.pending \in Jobs \cup {None}
  BY ControllerAssumption DEF Screens
<1> HIDE DEF t, k
<1>7. Control(t)
  <2>1. RunInv(t)
    BY <1>3, <1>4, <1>5, <1>6 DEF Control, RunInv
  <2>2. ForceInv(t)
    BY <1>3, <1>4, <1>5, <1>6 DEF Control, ForceInv
  <2>3. PinInv(t)
    BY <1>3, <1>4, <1>5, <1>6 DEF Control, PinInv, Relocked
  <2>4. TransferInv(t)
    BY <1>3, <1>4, <1>5, <1>6 DEF Control, TransferInv
  <2> QED
    BY <2>1, <2>2, <2>3, <2>4 DEF Control
<1>8. /\ t.catalog \subseteq s.catalog /\ t.updates \subseteq s.updates
      /\ t.installed = s.installed /\ t.manifest \in {s.manifest, None}
      /\ Described /\ t.locked =>
           /\ t.catalog \cap Mature = {} /\ t.updates \cap Mature = {}
           /\ t.manifest # None => t.manifest.game \notin Mature
      /\ t.view = "Rating" => s.view = "Rating" /\ (Described /\ t.locked => t.rating \notin Mature)
  BY <1>1, <1>2, <1>3 DEF Relocked, Filtered, SameContent, k
<1>9. Content(t, v)
  <2>1. SyncInv(t, v)
    <3>1. s.enabled \in BOOLEAN
      BY DEF Screens
    <3>2. CASE s.run # None /\ s.run.job.kind = "Parental"
      BY <3>2, <1>4 DEF SyncInv
    <3>3. CASE s.enabled = v.pin
      BY <3>1, <3>3, <1>3 DEF SyncInv
    <3>4. CASE s.catalog = {} /\ s.updates = {} /\ s.installed = {} /\ s.manifest = None
               /\ s.view # "Rating"
      BY <3>4, <1>8 DEF SyncInv
    <3> QED
      BY <3>2, <3>3, <3>4 DEF Content, SyncInv
  <2>2. KnownInv(t, v)
    BY <1>4, <1>5, <1>6, <1>8 DEF Content, KnownInv
  <2>3. MatureInv(t)
    BY <1>8 DEF Content, MatureInv
  <2> QED
    BY <2>1, <2>2, <2>3 DEF Content
<1>10. UnlockedInv(t, v, FALSE)
  BY <1>3, <1>4, <1>5 DEF UnlockedInv
<1>11. LockedInv(t, FALSE)
  BY <1>3 DEF LockedInv
<1>12. t.pending # None => t.pending.kind = "Refresh"
  BY <1>4
<1> QED
  BY <1>2, <1>7, <1>9, <1>10, <1>11, <1>12 DEF t

LEMMA RelockLemma ==
  ASSUME NEW s \in Screens, NEW v, NEW g, Control(s), Content(s, v), UnlockedInv(s, v, g),
         s.run # None /\ s.run.job.kind = "Parental" => s.view = "Home"
  PROVE  LET t == Relock(s)
         IN /\ t \in Screens /\ Control(t) /\ Content(t, v)
            /\ UnlockedInv(t, v, FALSE) /\ LockedInv(t, FALSE)
            /\ t.pending # None => t.pending.kind = "Refresh"
<1> DEFINE k == Locking(s)
           f == FilterMature(k)
           hidden == /\ k.locked
                     /\ \/ /\ k.manifest # None /\ k.manifest.mature
                           /\ k.view \in {"Detail", "Remove"}
                        \/ k.view = "Rating" /\ LooksMature(k, k.rating)
           u == IF hidden THEN Home(f) ELSE f
           j == Job("Refresh", "Home", None, "relock")
<1>1. Relock(s) = Start(u, j)
  BY DEF Relock
<1>2. j \in Jobs /\ j.kind = "Refresh" /\ JobInv(j)
  BY DEF Job, Jobs, JobInv, ViewsOf, Kinds, Views
<1>3. /\ k \in Screens /\ k.manifest = s.manifest /\ k.view = s.view /\ k.launch = s.launch
      /\ k.pending = s.pending /\ k.needLock /\ k.rating = s.rating
  BY OutdatedLemma
<1>4. Described /\ k.manifest # None => (k.manifest.mature <=> k.manifest.game \in Mature)
  BY <1>3 DEF Content, MatureInv
<1>5. f \in Screens /\ Filtered(k, f) /\ SamePlace(k, f) /\ f.run = k.run /\ f.pending = k.pending
  BY <1>3, <1>4, FilterLemma
<1>6. k.view = "Rating" /\ ~hidden => (Described /\ k.locked => k.rating \notin Mature)
  BY <1>3, <1>4, LooksLemma
<1> HIDE DEF k, f, hidden, j
<1>7. u \in Screens /\ Relocked(s, u)
  <2>1. s.run # None /\ s.run.job.kind = "Parental" => k.view = "Home" /\ k.launch = None
    BY <1>3 DEF Control, PinInv
  <2>2. Filtered(Locking(s), f) /\ f.run = Locking(s).run
    BY <1>5 DEF k
  <2>3. CASE hidden
    <3>1. /\ u \in Screens /\ SameContent(f, u) /\ u.manifest = f.manifest
          /\ u.view = "Home" /\ u.launch = f.launch
          /\ u.needLock = f.needLock /\ u.run = f.run /\ u.pending = f.pending
          /\ u.rating = f.rating
      BY <1>5, <2>3, HomeLemma
    <3> HIDE DEF u
    <3>2. Filtered(Locking(s), u)
      BY <2>2, <3>1 DEF Filtered, SameContent
    <3> QED
      BY <1>3, <1>5, <2>1, <2>2, <3>1, <3>2 DEF Relocked, SamePlace
  <2>4. CASE ~hidden
    BY <1>3, <1>5, <1>6, <2>1, <2>2, <2>4 DEF Relocked, SamePlace, Filtered
  <2> QED
    BY <2>3, <2>4
<1> HIDE DEF u
<1> QED
  BY <1>1, <1>2, <1>7, RelockedLemma

-----------------------------------------------------------------------------
(* The buttons.                                                            *)

LEMMA InitIInv == Init => IInv
<1> SUFFICES ASSUME Init PROVE IInv
  OBVIOUS
<1>1. TypeInv
  <2>1. "Home" \in Views
    BY DEF Views
  <2>2. ui \in Screens
    BY <2>1 DEF Init, Screens
  <2>3. service \in Services /\ granted \in BOOLEAN
    <3>1. /\ granted = FALSE
          /\ \E pin \in BOOLEAN, installed, cached \in SUBSET Games :
               service = [pin |-> pin, unlocked |-> FALSE, installed |-> installed,
                          cached |-> cached]
      BY Zenon DEF Init
    <3>2. PICK pin \in BOOLEAN, installed \in SUBSET Games, cached \in SUBSET Games :
               service = [pin |-> pin, unlocked |-> FALSE, installed |-> installed,
                          cached |-> cached]
      BY <3>1
    <3> QED
      BY <3>1, <3>2 DEF Services
  <2> QED
    BY <2>2, <2>3 DEF TypeInv
<1>2. /\ ui.run = None /\ ui.pending = None /\ ~ui.needLock /\ ui.force /\ ~ui.enabled /\ ~ui.locked
      /\ ui.catalog = {} /\ ui.updates = {} /\ ui.installed = {} /\ ui.manifest = None
      /\ ui.view = "Home" /\ ~service.unlocked
      /\ service.installed \ Legacy \subseteq service.cached
  BY DEF Init
<1>3. Control(ui)
  BY <1>2 DEF Control, RunInv, ForceInv, PinInv, TransferInv
<1>4. Content(ui, service)
  BY <1>2 DEF Content, SyncInv, KnownInv, Known, MatureInv
<1> QED
  BY <1>1, <1>2, <1>3, <1>4 DEF IInv, UnlockedInv, LockedInv

(* A job under way, and the PIN above all, restricts where a button that   *)
(* works can be.                                                           *)
LEMMA ReadyLemma ==
  ASSUME IInv, NEW x, Ready(x)
  PROVE  /\ ui \in Screens /\ ui.view = x /\ ui.launch = None /\ ui.inNest
         /\ x # "Transfer" => ~(ui.pending # None /\ ui.pending.kind \in {"Install", "Uninstall"})
         /\ ui.run # None /\ ui.run.job.kind = "Parental" =>
              x \in {"Home", "Parental", "Pin"} /\ ui.run.current
         /\ ui.pending # None /\ ui.pending.kind = "Parental" => x \in {"Home", "Parental", "Pin"}
<1>1. /\ ui.view = x /\ ui.launch = None /\ ui.inNest /\ ~Loading(ui)
      /\ ui \in Screens /\ RunInv(ui) /\ PinInv(ui) /\ TransferInv(ui)
  BY DEF Ready, InNest, Button, IInv, TypeInv, Control
<1>2. ui.pending # None /\ ui.pending.view = x => ui.pending.kind = "Image"
  BY <1>1 DEF Loading
<1>3. ui.pending # None /\ ui.pending.kind = "Refresh" => ui.pending.view = "Home"
  BY <1>1 DEF RunInv, JobInv, ViewsOf
<1>4. ui.run # None /\ ui.run.job.kind = "Parental" => ui.run.current \in BOOLEAN
  BY <1>1 DEF Screens, Runs
<1> QED
  BY <1>1, <1>2, <1>3, <1>4 DEF PinInv, TransferInv

(* Where the player has gone without asking anything of the worker.        *)
LEMMA ViewStep ==
  ASSUME IInv, NEW s \in Screens, ui' = s, service' = service, granted' = granted,
         IF ui.run = None THEN s.run = None ELSE s.run # None /\ SameRun(ui.run, s.run),
         s.pending = ui.pending, s.needLock = ui.needLock, s.inNest = ui.inNest,
         SameContent(ui, s), s.manifest = ui.manifest,
         ui.pending # None /\ ui.pending.kind \in {"Install", "Uninstall"} =>
           s.view = ui.view /\ s.launch = ui.launch,
         ui.run # None /\ ui.run.job.kind = "Parental" =>
           /\ s.launch = ui.launch
           /\ s.view \in {ui.view, "Home"} \/ (s.view \in {"Parental", "Pin"} /\ ui.run.current),
         ui.pending # None /\ ui.pending.kind = "Parental" =>
           s.launch = ui.launch /\ s.view \in {ui.view, "Home", "Parental", "Pin"},
         s.view = "Rating" =>
           \/ ui.view = "Rating" /\ s.rating = ui.rating
           \/ (ui.installed # {} \/ ui.manifest # None) /\
              (Described /\ ui.locked => s.rating \notin Mature)
  PROVE  IInv'
<1>1. /\ ui \in Screens /\ service \in Services /\ granted \in BOOLEAN
      /\ RunInv(ui) /\ ForceInv(ui) /\ PinInv(ui) /\ TransferInv(ui)
      /\ SyncInv(ui, service) /\ KnownInv(ui, service) /\ MatureInv(ui)
      /\ UnlockedInv(ui, service, granted) /\ LockedInv(ui, granted)
  BY DEF IInv, TypeInv, Control, Content
<1>2. RunInv(s) /\ ForceInv(s)
  BY <1>1 DEF RunInv, ForceInv, SameRun, SameContent
<1>3. PinInv(s)
  BY <1>1 DEF PinInv, SameRun
<1>4. TransferInv(s)
  BY <1>1 DEF TransferInv
<1>5. SyncInv(s, service)
  BY <1>1 DEF SyncInv, SameRun, SameContent
<1>6. KnownInv(s, service)
  BY <1>1 DEF KnownInv, SameRun, SameContent
<1>7. MatureInv(s)
  BY <1>1 DEF MatureInv, SameContent
<1>8. UnlockedInv(s, service, granted) /\ LockedInv(s, granted)
  BY <1>1 DEF UnlockedInv, LockedInv, SameRun, SameContent
<1> QED
  BY <1>1, <1>2, <1>3, <1>4, <1>5, <1>6, <1>7, <1>8 DEF IInv, TypeInv, Control, Content

(* The player asks the worker for j, going to the view of s.               *)
LEMMA JobStep ==
  ASSUME IInv, NEW s \in Screens, NEW j \in Jobs, ui' = Start(s, j),
         service' = service, granted' = granted, JobInv(j), j.kind # "Refresh",
         s.run = ui.run, s.pending = ui.pending, s.needLock = ui.needLock, s.inNest,
         s.launch = None, s.view # "Rating",
         SameContent(ui, s), s.manifest \in {ui.manifest, None},
         j.kind \in {"Install", "Uninstall"} => s.view = "Transfer",
         j.kind = "Parental" => s.view \in {"Home", "Parental", "Pin"},
         j.kind \in {"Manifest", "Install"} => j.game \in Known(service),
         ui.run # None /\ ui.run.job.kind = "Parental" =>
           /\ ui.run.current
           /\ \/ s.view \in {"Home", "Parental", "Pin"}
              \/ s.view \in {"Catalog", "Installed", "Updates"} /\ j.view = s.view
                 /\ j.kind # "Image"
  PROVE  IInv'
<1> DEFINE t == Start(s, j)
<1>1. /\ ui \in Screens /\ service \in Services /\ granted \in BOOLEAN
      /\ RunInv(ui) /\ ForceInv(ui) /\ PinInv(ui) /\ TransferInv(ui)
      /\ SyncInv(ui, service) /\ KnownInv(ui, service) /\ MatureInv(ui)
      /\ UnlockedInv(ui, service, granted) /\ LockedInv(ui, granted)
  BY DEF IInv, TypeInv, Control, Content
<1>2. /\ t \in Screens /\ SameContent(s, t) /\ SamePlace(s, t) /\ t.manifest = s.manifest
      /\ IF ui.run = None THEN t.run = NewRun(j) /\ t.pending = None
         ELSE t.run \in Runs /\ SameRun(ui.run, t.run) /\ t.pending = j
  BY StartLemma
<1>3. /\ SameContent(ui, t) /\ t.manifest \in {ui.manifest, None} /\ t.view = s.view
      /\ t.needLock = ui.needLock /\ t.launch = None /\ t.inNest
  BY <1>2 DEF SameContent, SamePlace
<1>4. /\ NewRun(j) \in Runs /\ NewRun(j).job = j /\ NewRun(j).current
      /\ NewRun(j).step = "begin"
  BY DEF NewRun, Runs
<1>5. j # None /\ t.run # None
  BY <1>2, <1>4, ControllerAssumption
<1> HIDE DEF t
<1>6. RunInv(t)
  BY <1>1, <1>2, <1>3, <1>4, <1>5 DEF RunInv, SameRun
<1>7. ForceInv(t)
  BY <1>1, <1>2, <1>3, <1>4, <1>5 DEF ForceInv, SameRun, SameContent
<1>8. PinInv(t)
  BY <1>1, <1>2, <1>3, <1>4, <1>5 DEF PinInv, SameRun
<1>9. TransferInv(t)
  BY <1>1, <1>2, <1>3, <1>4, <1>5 DEF TransferInv
<1>10. SyncInv(t, service)
  BY <1>1, <1>2, <1>3, <1>4, <1>5 DEF SyncInv, SameRun, SameContent
<1>11. KnownInv(t, service)
  BY <1>1, <1>2, <1>3, <1>4, <1>5 DEF KnownInv, SameRun, SameContent
<1>12. MatureInv(t)
  BY <1>1, <1>2, <1>3 DEF MatureInv, SameContent
<1>13. UnlockedInv(t, service, granted)
  BY <1>1, <1>2, <1>3, <1>4, <1>5 DEF UnlockedInv, SameRun
<1>14. LockedInv(t, granted)
  BY <1>1, <1>3 DEF LockedInv, SameContent
<1> QED
  BY <1>1, <1>2, <1>6, <1>7, <1>8, <1>9, <1>10, <1>11, <1>12, <1>13, <1>14
  DEF t, IInv, TypeInv, Control, Content

(* t is s with another view, or another game to rate or to start.          *)
Kept(s, t) ==
  /\ t.run = s.run /\ t.pending = s.pending /\ t.needLock = s.needLock /\ t.inNest = s.inNest
  /\ SameContent(s, t) /\ t.manifest = s.manifest

LEMMA ViewLemma ==
  ASSUME IInv, NEW s \in Screens, Kept(ui, s), ui' = s, service' = service, granted' = granted,
         ui.pending # None /\ ui.pending.kind \in {"Install", "Uninstall"} =>
           s.view = ui.view /\ s.launch = ui.launch,
         ui.run # None /\ ui.run.job.kind = "Parental" =>
           /\ s.launch = ui.launch
           /\ s.view \in {ui.view, "Home"} \/ (s.view \in {"Parental", "Pin"} /\ ui.run.current),
         ui.pending # None /\ ui.pending.kind = "Parental" =>
           s.launch = ui.launch /\ s.view \in {ui.view, "Home", "Parental", "Pin"},
         s.view = "Rating" =>
           \/ ui.view = "Rating" /\ s.rating = ui.rating
           \/ (ui.installed # {} \/ ui.manifest # None) /\
              (Described /\ ui.locked => s.rating \notin Mature)
  PROVE  IInv'
<1>1. IF ui.run = None THEN s.run = None ELSE s.run # None /\ SameRun(ui.run, s.run)
  BY DEF Kept, SameRun
<1> QED
  BY <1>1, ViewStep DEF Kept

LEMMA ViewTypes == ASSUME IInv PROVE ui \in Screens /\ service \in Services /\ granted \in BOOLEAN
BY DEF IInv, TypeInv

(* A view shown, perhaps with an error.                                    *)
LEMMA ShowLemma ==
  ASSUME NEW s \in Screens, NEW v \in Views, NEW e \in BOOLEAN
  PROVE  LET t == [s EXCEPT !.view = v, !.error = e]
         IN /\ t \in Screens /\ t.view = v /\ t.launch = s.launch /\ t.manifest = s.manifest
            /\ t.run = s.run /\ t.pending = s.pending /\ t.needLock = s.needLock
            /\ t.inNest = s.inNest /\ SameContent(s, t)
<1> DEFINE t == [s EXCEPT !.view = v, !.error = e]
<1>1. t \in Screens
  BY DEF Screens
<1>2. /\ t.view = v /\ t.launch = s.launch /\ t.manifest = s.manifest
      /\ t.run = s.run /\ t.pending = s.pending /\ t.needLock = s.needLock
      /\ t.inNest = s.inNest
  BY DEF Screens
<1>3. SameContent(s, t)
  BY DEF Screens, SameContent
<1> QED
  BY <1>1, <1>2, <1>3

LEMMA DismissErrorIInv == ASSUME IInv, DismissError PROVE IInv'
<1> DEFINE s == [ui EXCEPT !.error = FALSE, !.external = FALSE]
<1>1. s \in Screens /\ Kept(ui, s) /\ s.view = ui.view /\ s.launch = ui.launch /\ s.rating = ui.rating
  <2>1. s \in Screens
    BY ViewTypes DEF Screens
  <2>2. SameContent(ui, s)
    BY ViewTypes DEF Screens, SameContent
  <2>3. /\ s.run = ui.run /\ s.pending = ui.pending /\ s.needLock = ui.needLock
        /\ s.inNest = ui.inNest /\ s.manifest = ui.manifest /\ s.view = ui.view
        /\ s.launch = ui.launch /\ s.rating = ui.rating
    BY ViewTypes DEF Screens
  <2> QED
    BY <2>1, <2>2, <2>3 DEF Kept
<1>2. ui' = s /\ service' = service /\ granted' = granted
  BY DEF DismissError, Shows
<1> HIDE DEF s
<1> QED
  BY <1>1, <1>2, ViewLemma

LEMMA PressStartIInv == ASSUME IInv, PressStart PROVE IInv'
<1> DEFINE s == Home(ui)
<1>1. s \in Screens /\ Kept(ui, s) /\ s.view = "Home" /\ s.launch = ui.launch
  BY ViewTypes, HomeLemma DEF Kept
<1>2. ui' = s /\ service' = service /\ granted' = granted
  BY DEF PressStart, Shows
<1>3. ~(ui.pending # None /\ ui.pending.kind \in {"Install", "Uninstall"})
  BY DEF PressStart, IInv, Control, TransferInv, Active
<1> HIDE DEF s
<1> QED
  BY <1>1, <1>2, <1>3, ViewLemma

LEMMA CancelTransferIInv == ASSUME IInv, CancelTransfer PROVE IInv'
<1>1. ui \in Screens /\ service' = service /\ granted' = granted
  BY ViewTypes DEF CancelTransfer, Shows
<1>2. CASE ui.run = None
  <2>1. ui' = ui
    BY <1>2 DEF CancelTransfer, Shows
  <2> QED
    BY <1>1, <2>1, ViewLemma DEF Kept, SameContent
<1>3. CASE ui.run # None
  <2> DEFINE r == [ui.run EXCEPT !.cancel = TRUE]
             s == [ui EXCEPT !.run = r]
  <2>1. ui.run \in Runs
    BY <1>1, <1>3 DEF Screens
  <2>2. r \in Runs /\ SameRun(ui.run, r)
    BY <2>1 DEF Runs, SameRun
  <2>3. ui' = s
    BY <1>1, <1>3 DEF CancelTransfer, Shows, Screens
  <2> HIDE DEF r
  <2>4. s \in Screens
    BY <1>1, <2>2 DEF Screens
  <2>5. /\ s.run = r /\ s.pending = ui.pending /\ s.needLock = ui.needLock /\ s.inNest = ui.inNest
        /\ SameContent(ui, s) /\ s.manifest = ui.manifest /\ s.view = ui.view
        /\ s.launch = ui.launch /\ s.rating = ui.rating
    BY <1>1 DEF Screens, SameContent
  <2> HIDE DEF s
  <2>6. r # None
    BY <2>2, ControllerAssumption
  <2> QED
    BY <1>1, <1>3, <2>2, <2>3, <2>4, <2>5, <2>6, ViewStep
<1> QED
  BY <1>2, <1>3

LEMMA GoBackIInv == ASSUME IInv, GoBack PROVE IInv'
<1> DEFINE v == ViewBehind(ui)
           s == [ui EXCEPT !.view = v, !.error = FALSE]
<1>1. ui \in Screens /\ ui.back \in {"Catalog", "Installed", "Updates"}
      /\ ui.rateBack \in {"Installed", "Detail"} /\ ui.view \in Views
  BY ViewTypes DEF Screens
<1>2. v \in Views \ {"Rating"}
  BY <1>1 DEF ViewBehind, Views
<1>3. /\ ui.view \in {"Parental", "Catalog", "Installed", "Updates"} => v = "Home"
      /\ ui.view = "Pin" => v = "Parental"
  BY DEF ViewBehind
<1>4. /\ ui' = s /\ service' = service /\ granted' = granted /\ ui.view # "Home"
      /\ ~(ui.view = "Transfer" /\ Active(ui))
  BY DEF GoBack, Shows
<1> HIDE DEF v
<1>5. s \in Screens
  BY <1>1, <1>2 DEF Screens
<1>6. Kept(ui, s) /\ s.view = v /\ s.launch = ui.launch /\ s.rating = ui.rating
  BY <1>1 DEF Screens, Kept, SameContent
<1>7. ~(ui.pending # None /\ ui.pending.kind \in {"Install", "Uninstall"})
  BY <1>4 DEF IInv, Control, TransferInv, Active
<1>8. ui.run # None /\ ui.run.job.kind = "Parental" =>
        v = "Home" \/ (v = "Parental" /\ ui.run.current)
  BY <1>3, <1>4 DEF IInv, Control, PinInv
<1>9. ui.pending # None /\ ui.pending.kind = "Parental" => v \in {"Home", "Parental"}
  BY <1>3, <1>4 DEF IInv, Control, PinInv
<1> HIDE DEF s
<1> QED
  BY <1>2, <1>4, <1>5, <1>6, <1>7, <1>8, <1>9, ViewLemma

(* From a view that is ready to another one that asks for nothing.         *)
LEMMA GoLemma ==
  ASSUME IInv, NEW x \in Views, Ready(x), NEW v \in Views, NEW e \in BOOLEAN,
         NEW p \in {"set", "unlock", "remove", None},
         ui' = [ui EXCEPT !.view = v, !.error = e] \/
         ui' = [ui EXCEPT !.view = v, !.error = e, !.pinAction = p],
         service' = service, granted' = granted,
         v # "Rating", x # "Transfer",
         x \in {"Home", "Parental", "Pin"} => v \in {"Parental", "Pin"}
  PROVE  IInv'
<1>1. ui \in Screens
  BY ViewTypes
<1>2. ui' \in Screens
  <2>1. [ui EXCEPT !.view = v, !.error = e] \in Screens
    BY <1>1 DEF Screens
  <2>2. [ui EXCEPT !.view = v, !.error = e, !.pinAction = p] \in Screens
    BY <1>1 DEF Screens
  <2> QED
    BY <2>1, <2>2
<1>3. Kept(ui, ui') /\ ui'.view = v /\ ui'.launch = ui.launch
  <2>1. SameContent(ui, ui')
    BY <1>1 DEF Screens, SameContent
  <2>2. /\ ui'.run = ui.run /\ ui'.pending = ui.pending /\ ui'.needLock = ui.needLock
        /\ ui'.inNest = ui.inNest /\ ui'.manifest = ui.manifest /\ ui'.view = v
        /\ ui'.launch = ui.launch
    BY <1>1 DEF Screens
  <2> QED
    BY <2>1, <2>2 DEF Kept
<1> QED
  BY <1>2, <1>3, ReadyLemma, ViewLemma

LEMMA OpenParentalIInv == ASSUME IInv, OpenParental PROVE IInv'
<1>1. "Home" \in Views /\ "Parental" \in Views
  BY DEF Views
<1> QED
  BY <1>1, GoLemma DEF OpenParental, Shows

LEMMA ChoosePinIInv ==
  ASSUME IInv, Ready("Parental"),
         Shows([ui EXCEPT !.view = "Pin", !.error = FALSE,
                          !.pinAction = IF ~ui.enabled THEN "set"
                                        ELSE IF ui.locked THEN "unlock"
                                        ELSE "remove"])
  PROVE  IInv'
<1>1. "Pin" \in Views /\ "Parental" \in Views
  BY DEF Views
<1> DEFINE p == IF ~ui.enabled THEN "set" ELSE IF ui.locked THEN "unlock" ELSE "remove"
<1>2. p \in {"set", "unlock", "remove", None}
  OBVIOUS
<1>3. /\ ui' = [ui EXCEPT !.view = "Pin", !.error = FALSE, !.pinAction = p]
      /\ service' = service /\ granted' = granted
  BY DEF Shows
<1> HIDE DEF p
<1> QED
  BY <1>1, <1>2, <1>3, GoLemma

LEMMA RefusePinIInv ==
  ASSUME IInv, Ready("Pin"), Shows([ui EXCEPT !.error = TRUE]) PROVE IInv'
<1> DEFINE s == [ui EXCEPT !.error = TRUE]
<1>1. s \in Screens /\ Kept(ui, s) /\ s.view = ui.view /\ s.launch = ui.launch /\ s.rating = ui.rating
  <2>1. s \in Screens
    BY ViewTypes DEF Screens
  <2>2. SameContent(ui, s)
    BY ViewTypes DEF Screens, SameContent
  <2>3. /\ s.run = ui.run /\ s.pending = ui.pending /\ s.needLock = ui.needLock
        /\ s.inNest = ui.inNest /\ s.manifest = ui.manifest /\ s.view = ui.view
        /\ s.launch = ui.launch /\ s.rating = ui.rating
    BY ViewTypes DEF Screens
  <2> QED
    BY <2>1, <2>2, <2>3 DEF Kept
<1>2. ui' = s /\ service' = service /\ granted' = granted
  BY DEF Shows
<1> HIDE DEF s
<1> QED
  BY <1>1, <1>2, ViewLemma

LEMMA ContinueIInv == ASSUME IInv, Continue PROVE IInv'
<1> DEFINE s == [ui EXCEPT !.view = "Detail"]
<1>1. "Detail" \in Views
  BY DEF Views
<1>2. s \in Screens /\ Kept(ui, s) /\ s.view = "Detail" /\ s.launch = ui.launch
  BY <1>1, ViewTypes DEF Screens, Kept, SameContent
<1>3. ui' = s /\ service' = service /\ granted' = granted /\ Ready("Transfer") /\ ~Active(ui)
  BY DEF Continue, Shows
<1> HIDE DEF s
<1> QED
  BY <1>2, <1>3, ReadyLemma, ViewLemma DEF Active

(* A game that is shown is rated, started or shown on its own.             *)
LEMMA RateIInv ==
  ASSUME IInv, NEW x \in {"Installed", "Detail"}, Ready(x), NEW g \in Games, Rate(g, x),
         ui.installed # {} \/ ui.manifest # None,
         Described /\ ui.locked => g \notin Mature
  PROVE  IInv'
<1> DEFINE s == [ui EXCEPT !.rating = g, !.rateBack = x, !.view = "Rating"]
<1>1. "Rating" \in Views
  BY DEF Views
<1>2. s \in Screens
  BY <1>1, ViewTypes DEF Screens
<1>3. Kept(ui, s) /\ s.view = "Rating" /\ s.launch = ui.launch /\ s.rating = g
  BY ViewTypes DEF Screens, Kept, SameContent
<1>4. ui' = s /\ service' = service /\ granted' = granted
  BY DEF Rate, Shows
<1> HIDE DEF s
<1> QED
  BY <1>2, <1>3, <1>4, ReadyLemma, ViewLemma

LEMMA LaunchIInv ==
  ASSUME IInv, NEW x \in {"Installed", "Detail"}, Ready(x), NEW g \in Games, Launch(g)
  PROVE  IInv'
<1>1. /\ ui' = [ui EXCEPT !.launch = g] \/ ui' = ui
      /\ service' = service /\ granted' = granted
  BY DEF Launch, Shows
<1>2. ui' \in Screens /\ Kept(ui, ui') /\ ui'.view = ui.view /\ ui'.rating = ui.rating
  BY <1>1, ViewTypes DEF Screens, Kept, SameContent
<1> QED
  BY <1>1, <1>2, ReadyLemma, ViewLemma

LEMMA OnInstalledIInv == ASSUME IInv, OnInstalled PROVE IInv'
<1>1. PICK g \in VisibleInstalled(ui) : Rate(g, "Installed") \/ Launch(g)
  BY DEF OnInstalled
<1>2. ui \in Screens /\ ui.installed \subseteq Games
  BY ViewTypes DEF Screens
<1>3. g \in ui.installed /\ g \in Games /\ (~ui.locked \/ ~LooksMature(ui, g))
  BY <1>1, <1>2 DEF VisibleInstalled
<1>4. Described /\ ui.locked => g \notin Mature
  BY <1>2, <1>3, LooksLemma DEF IInv, Content, MatureInv
<1> QED
  BY <1>1, <1>3, <1>4, RateIInv, LaunchIInv DEF OnInstalled

LEMMA OnInstalledDetailIInv == ASSUME IInv, OnInstalledDetail PROVE IInv'
<1>1. Ready("Detail") /\ ui.manifest # None
  BY DEF OnInstalledDetail
<1>2. ui.manifest \in Manifests /\ ui.manifest.game \in Games
  BY <1>1, ViewTypes DEF Screens, Manifests
<1>3. Described /\ ui.locked => ui.manifest.game \notin Mature
  BY <1>1 DEF IInv, Content, MatureInv
<1>4. CASE Launch(ui.manifest.game)
  BY <1>1, <1>2, <1>4, LaunchIInv
<1>5. CASE Rate(ui.manifest.game, "Detail")
  BY <1>1, <1>2, <1>3, <1>5, RateIInv
<1>6. CASE Shows([ui EXCEPT !.view = "Remove"])
  <2> DEFINE s == [ui EXCEPT !.view = "Remove"]
  <2>1. "Remove" \in Views
    BY DEF Views
  <2>2. s \in Screens /\ Kept(ui, s) /\ s.view = "Remove" /\ s.launch = ui.launch
    BY <2>1, ViewTypes DEF Screens, Kept, SameContent
  <2>3. ui' = s /\ service' = service /\ granted' = granted
    BY <1>6 DEF Shows
  <2> HIDE DEF s
  <2> QED
    BY <1>1, <2>2, <2>3, ReadyLemma, ViewLemma
<1> QED
  BY <1>4, <1>5, <1>6 DEF OnInstalledDetail

LEMMA LibraryChangedIInv == ASSUME IInv, TakeLibraryChanged PROVE IInv'
<1> DEFINE s == [ui EXCEPT !.changed = FALSE]
<1>1. ui \in Screens
  BY ViewTypes
<1>2. /\ ui' = s \/ ui' = [s EXCEPT !.external = TRUE, !.error = TRUE]
      /\ service' = service /\ granted' = granted
  BY DEF TakeLibraryChanged, Shows, ReportStatus
<1>3. ui' \in Screens
  <2>1. s \in Screens
    BY <1>1 DEF Screens
  <2>2. [s EXCEPT !.external = TRUE, !.error = TRUE] \in Screens
    BY <2>1 DEF Screens
  <2> QED
    BY <1>2, <2>1, <2>2
<1>4. Kept(ui, ui') /\ ui'.view = ui.view /\ ui'.launch = ui.launch /\ ui'.rating = ui.rating
  <2>1. SameContent(ui, ui')
    BY <1>1, <1>2 DEF Screens, SameContent
  <2>2. /\ ui'.run = ui.run /\ ui'.pending = ui.pending /\ ui'.needLock = ui.needLock
        /\ ui'.inNest = ui.inNest /\ ui'.manifest = ui.manifest /\ ui'.view = ui.view
        /\ ui'.launch = ui.launch /\ ui'.rating = ui.rating
    BY <1>1, <1>2 DEF Screens
  <2> QED
    BY <2>1, <2>2 DEF Kept
<1> QED
  BY <1>2, <1>3, <1>4, ViewLemma

-----------------------------------------------------------------------------
(* The buttons that ask the worker for something.                          *)

LEMMA AskLemma ==
  ASSUME IInv, NEW x, Ready(x), NEW s \in Screens, NEW j \in Jobs, ui' = Start(s, j),
         service' = service, granted' = granted, JobInv(j), j.kind # "Refresh",
         s.run = ui.run, s.pending = ui.pending, s.needLock = ui.needLock,
         s.inNest = ui.inNest, s.launch = ui.launch, s.view # "Rating",
         SameContent(ui, s), s.manifest \in {ui.manifest, None},
         j.kind \in {"Install", "Uninstall"} => s.view = "Transfer",
         j.kind = "Parental" => s.view = "Parental",
         j.kind \in {"Manifest", "Install"} => j.game \in Known(service),
         x \in {"Home", "Parental", "Pin"} =>
           \/ s.view \in {"Home", "Parental", "Pin"}
           \/ s.view \in {"Catalog", "Installed", "Updates"} /\ j.view = s.view
              /\ j.kind # "Image"
  PROVE  IInv'
BY ReadyLemma, JobStep

LEMMA BrowseIInv == ASSUME IInv, Browse PROVE IInv'
<1> DEFINE s == [ui EXCEPT !.view = "Catalog", !.error = FALSE]
           j == Job("Catalog", "Catalog", None, IF s.locked THEN "tame" ELSE "all")
<1>1. "Catalog" \in Views
  BY DEF Views
<1>2. /\ s \in Screens /\ s.view = "Catalog" /\ s.launch = ui.launch /\ s.manifest = ui.manifest
      /\ s.run = ui.run /\ s.pending = ui.pending /\ s.needLock = ui.needLock
      /\ s.inNest = ui.inNest /\ SameContent(ui, s)
  BY <1>1, ViewTypes, ShowLemma
<1>3. j \in Jobs /\ JobInv(j) /\ j.kind = "Catalog" /\ j.view = "Catalog"
  BY DEF Job, Jobs, JobInv, ViewsOf, Kinds, Views
<1>4. ui' = Start(s, j) /\ service' = service /\ granted' = granted
  BY DEF Browse, Shows, FetchCatalog
<1> HIDE DEF s, j
<1> QED
  BY <1>2, <1>3, <1>4, AskLemma DEF Browse

LEMMA OpenInstalledIInv == ASSUME IInv, OpenInstalled PROVE IInv'
<1> DEFINE s == [ui EXCEPT !.view = "Installed", !.error = FALSE]
           j == Job("Installed", "Installed", None, None)
<1>1. "Installed" \in Views
  BY DEF Views
<1>2. /\ s \in Screens /\ s.view = "Installed" /\ s.launch = ui.launch /\ s.manifest = ui.manifest
      /\ s.run = ui.run /\ s.pending = ui.pending /\ s.needLock = ui.needLock
      /\ s.inNest = ui.inNest /\ SameContent(ui, s)
  BY <1>1, ViewTypes, ShowLemma
<1>3. j \in Jobs /\ j.kind = "Installed" /\ j.view = "Installed" /\ j.what = None
  BY DEF Job, Jobs, Kinds, Views
<1>4. ui' = Start(s, j) /\ service' = service /\ granted' = granted
  BY DEF OpenInstalled, Shows
<1> HIDE DEF s, j
<1>5. JobInv(j)
  BY <1>3, ControllerAssumption DEF JobInv, ViewsOf
<1> QED
  BY <1>2, <1>3, <1>4, <1>5, AskLemma DEF OpenInstalled

LEMMA OpenUpdatesIInv == ASSUME IInv, OpenUpdates PROVE IInv'
<1> DEFINE s == [ui EXCEPT !.view = "Updates", !.error = FALSE]
           j == Job("Updates", "Updates", None, None)
<1>1. "Updates" \in Views
  BY DEF Views
<1>2. /\ s \in Screens /\ s.view = "Updates" /\ s.launch = ui.launch /\ s.manifest = ui.manifest
      /\ s.run = ui.run /\ s.pending = ui.pending /\ s.needLock = ui.needLock
      /\ s.inNest = ui.inNest /\ SameContent(ui, s)
  BY <1>1, ViewTypes, ShowLemma
<1>3. j \in Jobs /\ j.kind = "Updates" /\ j.view = "Updates" /\ j.what = None
  BY DEF Job, Jobs, Kinds, Views
<1>4. ui' = Start(s, j) /\ service' = service /\ granted' = granted
  BY DEF OpenUpdates, Shows
<1> HIDE DEF s, j
<1>5. JobInv(j)
  BY <1>3, ControllerAssumption DEF JobInv, ViewsOf
<1> QED
  BY <1>2, <1>3, <1>4, <1>5, AskLemma DEF OpenUpdates

LEMMA MoveSelectionIInv == ASSUME IInv, MoveSelection PROVE IInv'
<1>1. PICK x \in {"Catalog", "Installed", "Detail"} : Ready(x)
  BY DEF MoveSelection
<1>2. ui \in Screens /\ ui.view = x /\ x \in Views
  BY <1>1, ViewTypes, ReadyLemma DEF Views
<1>3. service' = service /\ granted' = granted /\ ui' \in FetchImage(ui)
  BY DEF MoveSelection, Shows
<1>4. CASE ui' = ui
  BY <1>2, <1>3, <1>4, ViewLemma DEF Kept, SameContent
<1>5. CASE \E g \in CurrentImage(ui) : ui' = Start(ui, Job("Image", ui.view, g, None))
  <2>1. PICK g \in CurrentImage(ui) : ui' = Start(ui, Job("Image", x, g, None))
    BY <1>2, <1>5
  <2>2. g \in Games
    BY <1>2, <2>1 DEF CurrentImage, VisibleInstalled, Screens, Manifests
  <2> DEFINE j == Job("Image", x, g, None)
  <2>3. j \in Jobs /\ j.kind = "Image" /\ j.view = x /\ j.what = None
    BY <1>2, <2>2 DEF Job, Jobs, Kinds
  <2> HIDE DEF j
  <2>4. JobInv(j)
    BY <2>3, ControllerAssumption DEF JobInv, ViewsOf
  <2>5. ui' = Start(ui, j)
    BY <2>1 DEF j
  <2> QED
    BY <1>1, <1>2, <1>3, <2>3, <2>4, <2>5, AskLemma DEF SameContent
<1> QED
  BY <1>3, <1>4, <1>5 DEF FetchImage

LEMMA DetailsIInv ==
  ASSUME IInv, NEW x \in {"Catalog", "Installed", "Updates"}, Ready(x),
         NEW g \in Games, g \in Known(service), Shows(Details(ui, g, x))
  PROVE  IInv'
<1> DEFINE s == [ui EXCEPT !.back = x, !.view = "Detail", !.manifest = None, !.error = FALSE]
           j == Job("Manifest", "Detail", g, None)
<1>1. "Detail" \in Views
  BY DEF Views
<1>2. /\ s \in Screens /\ s.view = "Detail" /\ s.launch = ui.launch /\ s.manifest = None
      /\ s.run = ui.run /\ s.pending = ui.pending /\ s.needLock = ui.needLock
      /\ s.inNest = ui.inNest /\ SameContent(ui, s)
  <2>1. s \in Screens
    BY <1>1, ViewTypes DEF Screens
  <2>2. SameContent(ui, s)
    BY ViewTypes DEF Screens, SameContent
  <2>3. /\ s.view = "Detail" /\ s.launch = ui.launch /\ s.manifest = None
        /\ s.run = ui.run /\ s.pending = ui.pending /\ s.needLock = ui.needLock
        /\ s.inNest = ui.inNest
    BY ViewTypes DEF Screens
  <2> QED
    BY <2>1, <2>2, <2>3
<1>3. j \in Jobs /\ j.kind = "Manifest" /\ j.view = "Detail" /\ j.what = None /\ j.game = g
  BY DEF Job, Jobs, Kinds, Views
<1>4. ui' = Start(s, j) /\ service' = service /\ granted' = granted
  BY DEF Details, Shows
<1> HIDE DEF s, j
<1>5. JobInv(j)
  BY <1>3, ControllerAssumption DEF JobInv, ViewsOf
<1> QED
  BY <1>2, <1>3, <1>4, <1>5, AskLemma

LEMMA OpenDetailsIInv == ASSUME IInv, OpenDetails PROVE IInv'
<1>1. /\ ui.catalog \subseteq Games /\ ui.updates \subseteq Games /\ ui.installed \subseteq Games
      /\ ui.catalog \cup ui.updates \cup ui.installed \subseteq Known(service)
  BY ViewTypes DEF Screens, IInv, Content, KnownInv
<1>2. VisibleInstalled(ui) \subseteq ui.installed
  BY DEF VisibleInstalled
<1> QED
  BY <1>1, <1>2, DetailsIInv DEF OpenDetails

LEMMA InstallGameIInv == ASSUME IInv, InstallGame PROVE IInv'
<1>1. Ready("Detail") /\ ui.manifest # None
  BY DEF InstallGame
<1>2. ui.manifest \in Manifests /\ ui.manifest.game \in Games /\ ui.manifest.game \in Known(service)
  BY <1>1, ViewTypes DEF Screens, Manifests, IInv, Content, KnownInv
<1>3. service' = service /\ granted' = granted /\ ui' = Installing(ui)
  BY DEF InstallGame, Shows
<1>4. CASE ui' = ui
  BY <1>3, <1>4, ViewTypes, ViewLemma DEF Kept, SameContent
<1>5. CASE ui' # ui
  <2> DEFINE s == [ui EXCEPT !.view = "Transfer", !.error = FALSE]
             j == Job("Install", "Transfer", ui.manifest.game, None)
  <2>1. "Transfer" \in Views
    BY DEF Views
  <2>2. /\ s \in Screens /\ s.view = "Transfer" /\ s.launch = ui.launch
        /\ s.manifest = ui.manifest /\ s.run = ui.run /\ s.pending = ui.pending
        /\ s.needLock = ui.needLock /\ s.inNest = ui.inNest /\ SameContent(ui, s)
    BY <2>1, ViewTypes, ShowLemma
  <2>3. /\ j \in Jobs /\ j.kind = "Install" /\ j.view = "Transfer" /\ j.what = None
        /\ j.game = ui.manifest.game
    BY <1>2 DEF Job, Jobs, Kinds, Views
  <2>4. ui' = Start(s, j)
    BY <1>3, <1>5 DEF Installing
  <2> HIDE DEF s, j
  <2>5. JobInv(j)
    BY <2>3, ControllerAssumption DEF JobInv, ViewsOf
  <2> QED
    BY <1>1, <1>2, <1>3, <2>2, <2>3, <2>4, <2>5, AskLemma
<1> QED
  BY <1>4, <1>5

LEMMA RemoveGameIInv == ASSUME IInv, RemoveGame PROVE IInv'
<1> DEFINE g == IF ui.manifest = None THEN None ELSE ui.manifest.game
           s == [ui EXCEPT !.view = "Transfer", !.error = FALSE]
           j == Job("Uninstall", "Transfer", g, None)
<1>1. "Transfer" \in Views /\ g \in Games \cup {None}
  BY ViewTypes DEF Views, Screens, Manifests
<1>2. /\ s \in Screens /\ s.view = "Transfer" /\ s.launch = ui.launch
      /\ s.manifest = ui.manifest /\ s.run = ui.run /\ s.pending = ui.pending
      /\ s.needLock = ui.needLock /\ s.inNest = ui.inNest /\ SameContent(ui, s)
  BY <1>1, ViewTypes, ShowLemma
<1>3. ui' = Start(s, j) /\ service' = service /\ granted' = granted
  BY DEF RemoveGame, Shows
<1> HIDE DEF g
<1>4. j \in Jobs /\ j.kind = "Uninstall" /\ j.view = "Transfer" /\ j.what = None
  BY <1>1 DEF Job, Jobs, Kinds
<1> HIDE DEF s, j
<1>5. JobInv(j)
  BY <1>4, ControllerAssumption DEF JobInv, ViewsOf
<1> QED
  BY <1>2, <1>3, <1>4, <1>5, AskLemma DEF RemoveGame

LEMMA SaveRatingIInv == ASSUME IInv, SaveRating PROVE IInv'
<1> DEFINE v == ui.rateBack
           s == [ui EXCEPT !.view = v]
           j == Job("Rating", v, ui.rating, None)
<1>1. v \in {"Installed", "Detail"} /\ v \in Views /\ ui.rating \in Games \cup {None}
  BY ViewTypes DEF Views, Screens
<1>2. ui' = Start(s, j) /\ service' = service /\ granted' = granted /\ Ready("Rating")
  BY DEF SaveRating, Shows
<1> HIDE DEF v
<1>3. /\ s \in Screens /\ s.view = v /\ s.launch = ui.launch
      /\ s.manifest = ui.manifest /\ s.run = ui.run /\ s.pending = ui.pending
      /\ s.needLock = ui.needLock /\ s.inNest = ui.inNest /\ SameContent(ui, s)
  BY <1>1, ViewTypes DEF Screens, SameContent
<1>4. j \in Jobs /\ j.kind = "Rating" /\ j.view = v /\ j.what = None
  BY <1>1 DEF Job, Jobs, Kinds
<1> HIDE DEF s, j
<1>5. JobInv(j)
  BY <1>1, <1>4, ControllerAssumption DEF JobInv, ViewsOf
<1> QED
  BY <1>1, <1>2, <1>3, <1>4, <1>5, AskLemma

LEMMA ParentalIInv ==
  ASSUME IInv, NEW x \in {"Parental", "Pin"}, Ready(x), NEW e \in BOOLEAN, NEW s,
         (s = [ui EXCEPT !.error = e] /\ x = "Parental") \/
         s = [ui EXCEPT !.view = "Parental"],
         NEW what \in {"set", "unlock", "lock", "remove", None},
         ui' = ParentalJob(s, what), service' = service, granted' = granted
  PROVE  IInv'
<1> DEFINE j == Job("Parental", "Parental", None, what)
<1>1. "Parental" \in Views /\ ui.view = x
  BY ReadyLemma DEF Views
<1>2. s \in Screens
  <2>1. [ui EXCEPT !.error = e] \in Screens
    BY ViewTypes DEF Screens
  <2>2. [ui EXCEPT !.view = "Parental"] \in Screens
    BY <1>1, ViewTypes DEF Screens
  <2> QED
    BY <2>1, <2>2
<1>3. /\ s.view = "Parental" /\ s.launch = ui.launch
      /\ s.manifest = ui.manifest /\ s.run = ui.run /\ s.pending = ui.pending
      /\ s.needLock = ui.needLock /\ s.inNest = ui.inNest /\ SameContent(ui, s)
  BY <1>1, ViewTypes DEF Screens, SameContent
<1>4. j \in Jobs /\ j.kind = "Parental" /\ j.view = "Parental" /\ j.what = what
  BY DEF Job, Jobs, Kinds, Views
<1>5. ui' = Start(s, j)
  BY DEF ParentalJob
<1> HIDE DEF j
<1>6. JobInv(j)
  BY <1>4 DEF JobInv, ViewsOf
<1> QED
  BY <1>2, <1>3, <1>4, <1>5, <1>6, AskLemma

LEMMA ChooseParentalIInv == ASSUME IInv, ChooseParental PROVE IInv'
<1>1. Ready("Parental")
  BY DEF ChooseParental
<1>2. CASE Shows(ParentalJob([ui EXCEPT !.error = FALSE], "lock"))
  BY <1>1, <1>2, ParentalIInv DEF Shows
<1>3. CASE Shows([ui EXCEPT !.view = "Pin", !.error = FALSE,
                            !.pinAction = IF ~ui.enabled THEN "set"
                                          ELSE IF ui.locked THEN "unlock"
                                          ELSE "remove"])
  BY <1>1, <1>3, ChoosePinIInv
<1> QED
  BY <1>2, <1>3 DEF ChooseParental

LEMMA ConfirmPinIInv == ASSUME IInv, ConfirmPin PROVE IInv'
<1>1. Ready("Pin")
  BY DEF ConfirmPin
<1>2. ui.pinAction \in {"set", "unlock", "lock", "remove", None}
  BY ViewTypes DEF Screens
<1>3. CASE Shows(ParentalJob([ui EXCEPT !.view = "Parental"], ui.pinAction))
  BY <1>1, <1>2, <1>3, ParentalIInv DEF Shows
<1>4. CASE Shows([ui EXCEPT !.error = TRUE])
  BY <1>1, <1>4, RefusePinIInv
<1> QED
  BY <1>3, <1>4 DEF ConfirmPin

-----------------------------------------------------------------------------
(* The three relocks.                                                      *)

(* What the relock leaves, with a field changed that only TransferInv and  *)
(* PinInv read.                                                            *)
LEMMA LeaveLemma ==
  ASSUME IInv, NEW t \in Screens, Control(t), Content(t, service),
         UnlockedInv(t, service, FALSE), LockedInv(t, FALSE),
         ui' \in Screens, ui'.run = t.run, ui'.pending = t.pending,
         ui'.needLock = t.needLock, SameContent(t, ui'), ui'.manifest = t.manifest,
         ui'.view = t.view,
         ui'.rating = t.rating, ui'.launch \in {t.launch, None},
         t.pending # None => t.pending.kind = "Refresh",
         service' = service, granted' = FALSE
  PROVE  IInv'
<1>1. Control(ui')
  <2>1. RunInv(ui') /\ ForceInv(ui')
    BY DEF Control, RunInv, ForceInv, SameContent
  <2>2. PinInv(ui')
    BY DEF Control, PinInv
  <2>3. TransferInv(ui')
    BY DEF TransferInv
  <2> QED
    BY <2>1, <2>2, <2>3 DEF Control
<1>2. Content(ui', service)
  <2>1. SyncInv(ui', service)
    BY DEF Content, SyncInv, SameContent
  <2>2. KnownInv(ui', service)
    BY DEF Content, KnownInv, SameContent
  <2>3. MatureInv(ui')
    BY DEF Content, MatureInv, SameContent
  <2> QED
    BY <2>1, <2>2, <2>3 DEF Content
<1>3. UnlockedInv(ui', service, FALSE) /\ LockedInv(ui', FALSE)
  BY DEF UnlockedInv, LockedInv, SameContent
<1> QED
  BY <1>1, <1>2, <1>3, ViewTypes DEF IInv, TypeInv, Control, Content, UnlockedInv, LockedInv

LEMMA BackToShellIInv == ASSUME IInv, BackToShell PROVE IInv'
<1> DEFINE t == Relock(ui)
<1>1. ui.view = "Home" /\ ui' = [t EXCEPT !.inNest = FALSE]
      /\ granted' = FALSE /\ service' = service
  BY DEF BackToShell
<1>2. /\ t \in Screens /\ Control(t) /\ Content(t, service)
      /\ UnlockedInv(t, service, FALSE) /\ LockedInv(t, FALSE)
      /\ t.pending # None => t.pending.kind = "Refresh"
  BY <1>1, ViewTypes, RelockLemma DEF IInv
<1> HIDE DEF t
<1>3. /\ ui' \in Screens /\ ui'.run = t.run /\ ui'.pending = t.pending
      /\ ui'.needLock = t.needLock /\ SameContent(t, ui') /\ ui'.manifest = t.manifest
      /\ ui'.view = t.view /\ ui'.rating = t.rating /\ ui'.launch = t.launch
  BY <1>1, <1>2 DEF Screens, SameContent
<1> QED
  BY <1>1, <1>2, <1>3, LeaveLemma

LEMMA TakeLaunchPathIInv == ASSUME IInv, TakeLaunchPath PROVE IInv'
<1> DEFINE t == Relock(ui)
<1>1. PICK failed \in BOOLEAN :
        ui' = [[t EXCEPT !.launch = None] EXCEPT !.external = failed, !.error = failed]
  BY DEF TakeLaunchPath, ReportStatus
<1>2. ui.launch # None /\ granted' = FALSE /\ service' = service
  BY DEF TakeLaunchPath
<1>3. ~(ui.run # None /\ ui.run.job.kind = "Parental")
  BY <1>2 DEF IInv, Control, PinInv
<1>4. /\ t \in Screens /\ Control(t) /\ Content(t, service)
      /\ UnlockedInv(t, service, FALSE) /\ LockedInv(t, FALSE)
      /\ t.pending # None => t.pending.kind = "Refresh"
  BY <1>3, ViewTypes, RelockLemma DEF IInv
<1> HIDE DEF t
<1>5. /\ ui' \in Screens /\ ui'.run = t.run /\ ui'.pending = t.pending
      /\ ui'.needLock = t.needLock /\ SameContent(t, ui') /\ ui'.manifest = t.manifest
      /\ ui'.view = t.view /\ ui'.rating = t.rating /\ ui'.launch = None
  <2>1. [t EXCEPT !.launch = None] \in Screens
    BY <1>4 DEF Screens
  <2>2. ui' \in Screens
    <3> DEFINE q == [t EXCEPT !.launch = None]
    <3>1. q \in Screens
      BY <2>1
    <3> HIDE DEF q
    <3>2. [q EXCEPT !.external = failed, !.error = failed] \in Screens
      BY <3>1 DEF Screens
    <3> QED
      BY <1>1, <3>2 DEF q
  <2> QED
    BY <1>1, <1>4, <2>2 DEF Screens, SameContent
<1> QED
  BY <1>2, <1>4, <1>5, LeaveLemma

LEMMA OpenIInv == ASSUME IInv, Open PROVE IInv'
<1> DEFINE k == Locking(ui)
           f == FilterMature(k)
           h == Home(f)
           u == [h EXCEPT !.inNest = TRUE]
           j == Job("Refresh", "Home", None, "open")
<1>1. ui' = Start(u, j) /\ granted' = FALSE /\ service' = service
  BY DEF Open
<1>2. j \in Jobs /\ j.kind = "Refresh" /\ JobInv(j)
  BY DEF Job, Jobs, JobInv, ViewsOf, Kinds, Views
<1>3. /\ k \in Screens /\ k.manifest = ui.manifest /\ k.view = ui.view /\ k.launch = ui.launch
      /\ k.pending = ui.pending /\ k.needLock /\ k.rating = ui.rating
  BY ViewTypes, OutdatedLemma
<1>4. Described /\ k.manifest # None => (k.manifest.mature <=> k.manifest.game \in Mature)
  BY <1>3 DEF IInv, Content, MatureInv
<1> HIDE DEF k
<1>5. f \in Screens /\ Filtered(k, f) /\ SamePlace(k, f) /\ f.run = k.run /\ f.pending = k.pending
  BY <1>3, <1>4, FilterLemma
<1> HIDE DEF f
<1>6. /\ h \in Screens /\ SameContent(f, h) /\ h.manifest = f.manifest
      /\ h.view = "Home" /\ h.launch = f.launch /\ h.needLock = f.needLock
      /\ h.run = f.run /\ h.pending = f.pending /\ h.rating = f.rating
  BY <1>5, HomeLemma
<1> HIDE DEF h
<1>7. /\ u \in Screens /\ SameContent(h, u) /\ u.manifest = h.manifest
      /\ u.view = "Home" /\ u.launch = h.launch /\ u.needLock = h.needLock
      /\ u.run = h.run /\ u.pending = h.pending /\ u.rating = h.rating
  BY <1>6 DEF Screens, SameContent
<1> HIDE DEF u
<1>8. Filtered(k, u)
  BY <1>5, <1>6, <1>7 DEF Filtered, SameContent
<1>9. ui.run # None /\ ui.run.job.kind = "Parental" => ui.launch = None
  BY DEF IInv, Control, PinInv
<1>10. Relocked(ui, u)
  BY <1>3, <1>5, <1>6, <1>7, <1>8, <1>9 DEF Relocked, SamePlace, k
<1> DEFINE t == Start(u, j)
<1>11. /\ t \in Screens /\ Control(t) /\ Content(t, service)
       /\ UnlockedInv(t, service, FALSE) /\ LockedInv(t, FALSE)
  BY <1>2, <1>7, <1>10, ViewTypes, RelockedLemma DEF IInv
<1> HIDE DEF t, j
<1> QED
  BY <1>1, <1>11, ViewTypes DEF t, IInv, TypeInv, Content, UnlockedInv, LockedInv

-----------------------------------------------------------------------------
(* The worker.                                                             *)

(* The worker has come further with the job of s; v has become w.          *)
Worked(s, t, v, w) ==
  /\ t.run \in Runs /\ t.run # None /\ t.run.job = s.run.job /\ t.run.current = s.run.current
  /\ t.pending = s.pending /\ t.inNest = s.inNest /\ t.view = s.view /\ t.launch = s.launch
  /\ t.rating = s.rating /\ t.manifest = s.manifest /\ SameContent(s, t)
  /\ w.installed \subseteq Known(w) /\ Known(v) \subseteq Known(w)

LEMMA WorkedLemma ==
  ASSUME IInv, ui.run # None, ui' \in Screens, service' \in Services, granted' = granted,
         Worked(ui, ui', service, service'),
         ui'.needLock => ui.needLock, ui'.needLock => ui.run.step # "begin",
         ui'.run.step # "begin",
         \/ ui.run.job.kind = "Parental"
         \/ /\ service'.pin = service.pin
            /\ service'.unlocked = service.unlocked \/ ui.force,
         ui'.run.step = "done" /\ ui'.run.ok =>
           /\ ui.run.job.kind \in {"Catalog", "Updates"} =>
                ui'.run.got \subseteq Known(service') \cap Games
           /\ ui.run.job.kind = "Manifest" =>
                \E m \in Manifests : /\ ui'.run.got = {m} /\ m.game \in Known(service')
                                     /\ Described => (m.mature <=> m.game \in Mature),
         UnlockedInv(ui', service', granted)
  PROVE  IInv'
<1>1. /\ ui \in Screens /\ granted \in BOOLEAN
      /\ RunInv(ui) /\ ForceInv(ui) /\ PinInv(ui) /\ TransferInv(ui)
      /\ SyncInv(ui, service) /\ KnownInv(ui, service) /\ MatureInv(ui)
      /\ LockedInv(ui, granted)
  BY DEF IInv, TypeInv, Control, Content
<1>2. RunInv(ui')
  BY <1>1 DEF RunInv, Worked
<1>3. ForceInv(ui')
  BY <1>1 DEF ForceInv, Worked, SameContent
<1>4. PinInv(ui')
  BY <1>1 DEF PinInv, Worked
<1>5. TransferInv(ui')
  BY <1>1 DEF TransferInv, Worked
<1>6. SyncInv(ui', service')
  BY <1>1 DEF SyncInv, Worked, SameContent
<1>7. KnownInv(ui', service')
  BY <1>1 DEF KnownInv, Worked, SameContent
<1>8. MatureInv(ui')
  BY <1>1 DEF MatureInv, Worked, SameContent
<1>9. LockedInv(ui', granted)
  BY <1>1 DEF LockedInv, Worked, SameContent
<1> QED
  BY <1>1, <1>2, <1>3, <1>4, <1>5, <1>6, <1>7, <1>8, <1>9
  DEF IInv, TypeInv, Control, Content

LEMMA WorkerBeginsIInv == ASSUME IInv, WorkerBegins PROVE IInv'
<1> DEFINE r == [ui.run EXCEPT !.step = "run"]
<1>1. /\ ui.run # None /\ ui.run.step = "begin" /\ granted' = granted
      /\ service' = IF ui.needLock THEN [service EXCEPT !.unlocked = FALSE] ELSE service
      /\ ui' = [ui EXCEPT !.run.step = "run", !.needLock = FALSE]
  BY DEF WorkerBegins
<1>2. ui \in Screens /\ service \in Services /\ ui.run \in Runs
  BY <1>1, ViewTypes DEF Screens
<1>3. ui' = [ui EXCEPT !.run = r, !.needLock = FALSE]
  BY <1>1, <1>2 DEF Screens
<1>4. r \in Runs /\ r.job = ui.run.job /\ r.current = ui.run.current /\ r.step = "run"
  BY <1>2 DEF Runs
<1>5. r # None
  BY <1>4, ControllerAssumption
<1> HIDE DEF r
<1>6. /\ ui' \in Screens /\ ui'.run = r /\ ~ui'.needLock
      /\ ui'.pending = ui.pending /\ ui'.inNest = ui.inNest /\ ui'.view = ui.view
      /\ ui'.launch = ui.launch /\ ui'.rating = ui.rating /\ ui'.manifest = ui.manifest
      /\ SameContent(ui, ui')
  BY <1>2, <1>3, <1>4 DEF Screens, SameContent
<1>7. /\ service' \in Services /\ service'.installed = service.installed
      /\ service'.cached = service.cached /\ service'.pin = service.pin
      /\ service'.unlocked = (service.unlocked /\ ~ui.needLock)
  BY <1>1, <1>2 DEF Services
<1>8. Worked(ui, ui', service, service')
  BY <1>4, <1>5, <1>6, <1>7 DEF Worked, Known, IInv, Content, KnownInv
<1>9. UnlockedInv(ui', service', granted)
  <2>1. service'.unlocked => service.unlocked /\ ~ui.needLock
    BY <1>7
  <2>2. service.unlocked => service.pin
    BY DEF IInv, UnlockedInv
  <2>3. ui.run # None /\ ui.run.step = "begin"
    BY <1>1
  <2>4. service'.unlocked /\ ~granted =>
          r.job.kind = "Refresh" /\ r.step # "done"
    BY <1>4, <2>1, <2>3 DEF IInv, UnlockedInv
  <2> QED
    BY <1>4, <1>5, <1>6, <1>7, <2>1, <2>2, <2>4 DEF UnlockedInv
<1>10. service'.unlocked = service.unlocked \/ ui.force
  BY <1>1, <1>7 DEF IInv, Control, ForceInv
<1> QED
  BY <1>1, <1>4, <1>6, <1>7, <1>8, <1>9, <1>10, WorkedLemma

(* A job of this kind may end like that, the service v having become w.    *)
Answered(kind, what, ok, got, v, w) ==
  /\ w \in Services /\ got \in SUBSET (Games \cup Manifests)
  /\ w.installed \subseteq Known(w) /\ Known(v) \subseteq Known(w)
  /\ kind \in {"Catalog", "Updates"} /\ ok => got \subseteq Known(w) \cap Games
  /\ kind = "Manifest" /\ ok =>
       \E m \in Manifests : /\ got = {m} /\ m.game \in Known(w)
                            /\ Described => (m.mature <=> m.game \in Mature)
  /\ w.unlocked => w.pin
  /\ IF kind = "Parental"
       THEN ~w.unlocked \/ (ok /\ what = "unlock") \/ (~ok /\ w.unlocked = v.unlocked)
       ELSE /\ w.pin = v.pin
            /\ IF kind = "Refresh" THEN ~w.unlocked ELSE w.unlocked = v.unlocked

LEMMA ResultLemma ==
  ASSUME IInv, NEW kind, Running(kind), NEW ok \in BOOLEAN, NEW got, NEW changed \in BOOLEAN,
         Result(ok, got, changed), Answered(kind, ui.run.job.what, ok, got, service, service')
  PROVE  IInv'
<1> DEFINE r == [ui.run EXCEPT !.step = "done", !.ok = ok, !.got = got, !.changed = changed]
<1>1. /\ ui.run # None /\ ui.run.step = "run" /\ granted' = granted /\ ui.run.job.kind = kind
      /\ ui' = [ui EXCEPT !.run.step = "done", !.run.ok = ok, !.run.got = got,
                          !.run.changed = changed]
  BY DEF Running, Result
<1>2. /\ ui \in Screens /\ service \in Services /\ ui.run \in Runs
      /\ service' \in Services /\ got \in SUBSET (Games \cup Manifests)
  BY <1>1, ViewTypes DEF Screens, Answered
<1>3. ui' = [ui EXCEPT !.run = r]
  BY <1>1, <1>2 DEF Screens
<1>4. /\ r \in Runs /\ r.job = ui.run.job /\ r.current = ui.run.current /\ r.step = "done"
      /\ r.ok = ok /\ r.got = got
  BY <1>2 DEF Runs
<1>5. r # None
  BY <1>4, ControllerAssumption
<1> HIDE DEF r
<1>6. /\ ui' \in Screens /\ ui'.run = r /\ ui'.needLock = ui.needLock
      /\ ui'.pending = ui.pending /\ ui'.inNest = ui.inNest /\ ui'.view = ui.view
      /\ ui'.launch = ui.launch /\ ui'.rating = ui.rating /\ ui'.manifest = ui.manifest
      /\ SameContent(ui, ui')
  BY <1>2, <1>3, <1>4 DEF Screens, SameContent
<1>7. Worked(ui, ui', service, service')
  BY <1>4, <1>5, <1>6 DEF Worked, Answered
<1>8. /\ service' \in Services => service'.unlocked \in BOOLEAN
      /\ UnlockedInv(ui, service, granted) /\ ForceInv(ui)
  BY DEF Services, IInv, Control
<1>9. UnlockedInv(ui', service', granted)
  <2>0. service'.unlocked => service'.pin
    BY DEF Answered
  <2>1. CASE ~service'.unlocked
    BY <2>1 DEF UnlockedInv
  <2>2. CASE service'.unlocked /\ service.unlocked /\ kind # "Refresh" /\ (kind = "Parental" => ~ok)
    BY <1>1, <1>4, <1>6, <1>8, <2>0, <2>2 DEF UnlockedInv
  <2>3. CASE service'.unlocked /\ kind = "Parental" /\ ok /\ ui.run.job.what = "unlock"
    <3>1. /\ ui'.run # None /\ ui'.run.job.kind = "Parental" /\ ui'.run.step = "done"
          /\ ui'.run.ok /\ ui'.run.job.what = "unlock"
      <4>1. r.job.kind = "Parental" /\ r.ok /\ r.job.what = "unlock"
        BY <1>1, <1>4, <2>3
      <4> QED
        BY <1>4, <1>5, <1>6, <4>1
    <3> QED
      BY <2>0, <3>1 DEF UnlockedInv
  <2> QED
    BY <1>1, <2>1, <2>2, <2>3 DEF Answered
<1>10. \/ kind = "Parental"
       \/ service'.pin = service.pin /\ (service'.unlocked = service.unlocked \/ ui.force)
  BY <1>1, <1>8 DEF ForceInv, Answered
<1>11. ok =>
         /\ ui.run.job.kind \in {"Catalog", "Updates"} => got \subseteq Known(service') \cap Games
         /\ ui.run.job.kind = "Manifest" =>
              \E m \in Manifests : /\ got = {m} /\ m.game \in Known(service')
                                   /\ Described => (m.mature <=> m.game \in Mature)
  BY <1>1 DEF Answered
<1> QED
  BY <1>1, <1>2, <1>4, <1>6, <1>7, <1>9, <1>10, <1>11, WorkedLemma

(* What the service holds before the worker acts on it.                    *)
LEMMA ServiceFacts ==
  ASSUME IInv
  PROVE  /\ service \in Services /\ service.installed \subseteq Known(service)
         /\ service.unlocked \in BOOLEAN /\ service.pin \in BOOLEAN
         /\ service.unlocked => service.pin
         /\ service.installed \subseteq Games /\ service.cached \subseteq Games
BY DEF IInv, TypeInv, Services, Content, KnownInv, UnlockedInv

LEMMA FailsIInv ==
  ASSUME IInv, NEW kind, Running(kind), kind # "Refresh", Fails PROVE IInv'
<1>1. service' = service /\ Result(FALSE, {}, FALSE)
  BY DEF Fails
<1>2. Answered(kind, ui.run.job.what, FALSE, {}, service, service')
  BY <1>1, ServiceFacts DEF Answered
<1> QED
  BY <1>1, <1>2, ResultLemma

LEMMA RunRefreshIInv == ASSUME IInv, RunRefresh PROVE IInv'
<1>1. Running("Refresh") /\ service' = [service EXCEPT !.unlocked = FALSE]
  BY DEF RunRefresh
<1>2. /\ service' \in Services /\ service'.installed = service.installed
      /\ service'.cached = service.cached /\ service'.pin = service.pin /\ ~service'.unlocked
  BY <1>1, ServiceFacts DEF Services
<1>3. PICK ok \in BOOLEAN, changed \in BOOLEAN : Result(ok, {}, changed)
  BY DEF RunRefresh
<1>4. Answered("Refresh", ui.run.job.what, ok, {}, service, service')
  BY <1>2, ServiceFacts DEF Answered, Known
<1> QED
  BY <1>1, <1>3, <1>4, ResultLemma

(* A page adds to the cache and names no game that is not there then.      *)
LEMMA PageLemma ==
  ASSUME IInv, NEW mature \in BOOLEAN, NEW page \in Page(mature),
         service' = [service EXCEPT !.cached = page.cached]
  PROVE  /\ service' \in Services /\ service'.installed = service.installed
         /\ service'.pin = service.pin /\ service'.unlocked = service.unlocked
         /\ Known(service) \subseteq Known(service')
         /\ page.entries \subseteq Known(service') \cap Games
<1>1. page.cached \subseteq Games /\ service.cached \subseteq page.cached
      /\ page.entries \subseteq page.cached
  BY ServiceFacts DEF Page
<1>2. /\ service' \in Services /\ service'.installed = service.installed
      /\ service'.pin = service.pin /\ service'.unlocked = service.unlocked
      /\ service'.cached = page.cached
  BY <1>1, ServiceFacts DEF Services
<1> QED
  BY <1>1, <1>2 DEF Known

LEMMA RunCatalogIInv == ASSUME IInv, RunCatalog PROVE IInv'
<1>1. Running("Catalog")
  BY DEF RunCatalog
<1>2. CASE \E page \in Page(ui.run.job.what = "all" /\ ~ServiceLocked) :
             /\ Result(TRUE, page.entries, FALSE)
             /\ service' = [service EXCEPT !.cached = page.cached]
  <2> DEFINE all == ui.run.job.what = "all" /\ ~ServiceLocked
  <2>1. all \in BOOLEAN
    BY DEF ServiceLocked
  <2>2. PICK page \in Page(all) : /\ Result(TRUE, page.entries, FALSE)
                                  /\ service' = [service EXCEPT !.cached = page.cached]
    BY <1>2
  <2> HIDE DEF all
  <2>3. /\ service' \in Services /\ service'.installed = service.installed
        /\ service'.pin = service.pin /\ service'.unlocked = service.unlocked
        /\ Known(service) \subseteq Known(service')
        /\ page.entries \subseteq Known(service') \cap Games
    BY <2>1, <2>2, PageLemma
  <2>4. Answered("Catalog", ui.run.job.what, TRUE, page.entries, service, service')
    BY <2>3, ServiceFacts DEF Answered
  <2> QED
    BY <1>1, <2>2, <2>4, ResultLemma
<1>3. CASE Fails
  BY <1>1, <1>3, FailsIInv
<1> QED
  BY <1>2, <1>3 DEF RunCatalog

LEMMA RunUpdatesIInv == ASSUME IInv, RunUpdates PROVE IInv'
<1>1. Running("Updates")
  BY DEF RunUpdates
<1>2. CASE \E page \in Page(~ServiceLocked) :
             /\ \E newer \in SUBSET (page.entries \cap service.installed) :
                  Result(TRUE, newer, FALSE)
             /\ service' = [service EXCEPT !.cached = page.cached]
  <2> DEFINE all == ~ServiceLocked
  <2>1. all \in BOOLEAN
    BY DEF ServiceLocked
  <2>2. PICK page \in Page(all) :
             /\ \E newer \in SUBSET (page.entries \cap service.installed) :
                  Result(TRUE, newer, FALSE)
             /\ service' = [service EXCEPT !.cached = page.cached]
    BY <1>2
  <2>3. PICK newer \in SUBSET (page.entries \cap service.installed) : Result(TRUE, newer, FALSE)
    BY <2>2
  <2> HIDE DEF all
  <2>4. /\ service' \in Services /\ service'.installed = service.installed
        /\ service'.pin = service.pin /\ service'.unlocked = service.unlocked
        /\ Known(service) \subseteq Known(service')
        /\ page.entries \subseteq Known(service') \cap Games
    BY <2>1, <2>2, PageLemma
  <2>5. Answered("Updates", ui.run.job.what, TRUE, newer, service, service')
    BY <2>3, <2>4, ServiceFacts DEF Answered
  <2> QED
    BY <1>1, <2>3, <2>5, ResultLemma
<1>3. CASE Fails
  BY <1>1, <1>3, FailsIInv
<1> QED
  BY <1>2, <1>3 DEF RunUpdates

LEMMA MadeIInv ==
  ASSUME IInv, Running("Manifest"), service' = service,
         NEW g \in Games, g \in Known(service), NEW mature \in BOOLEAN,
         Described => (mature <=> g \in Mature), Result(TRUE, {Manifest(g, mature)}, FALSE)
  PROVE  IInv'
<1> DEFINE m == Manifest(g, mature)
<1>1. m \in Manifests /\ m.game = g /\ m.mature = mature
  BY DEF Manifest, Manifests
<1>2. Result(TRUE, {m}, FALSE)
  OBVIOUS
<1> HIDE DEF m
<1>3. Answered("Manifest", ui.run.job.what, TRUE, {m}, service, service')
  BY <1>1, ServiceFacts DEF Answered
<1> QED
  BY <1>2, <1>3, ResultLemma

LEMMA RunManifestIInv == ASSUME IInv, RunManifest PROVE IInv'
<1> DEFINE g == ui.run.job.game
           classified == g \in service.cached
           mature == classified /\ g \in Mature
<1>1. Running("Manifest") /\ service' = service
  BY DEF RunManifest
<1>2. ui.run # None /\ ui.run \in Runs /\ ui.run.job \in Jobs /\ JobInv(ui.run.job)
      /\ ui.run.job.kind = "Manifest"
  BY <1>1, ViewTypes DEF Running, Screens, Runs, IInv, Control, RunInv
<1>3. g \in Games /\ g \in Known(service)
  BY <1>2 DEF Jobs, JobInv, IInv, Content, KnownInv
<1>4. CASE g \notin Legacy /\ Result(TRUE, {Manifest(g, g \in Mature)}, FALSE)
  <2> DEFINE b == g \in Mature
  <2>1. b \in BOOLEAN /\ (b <=> g \in Mature)
    OBVIOUS
  <2>2. Result(TRUE, {Manifest(g, b)}, FALSE)
    BY <1>4
  <2> HIDE DEF b
  <2> QED
    BY <1>1, <1>3, <2>1, <2>2, MadeIInv
<1>5. CASE g \in service.installed /\ Result(TRUE, {Manifest(g, mature)}, FALSE)
  <2> DEFINE m == Manifest(g, mature)
  <2>1. mature \in BOOLEAN /\ (Described => (mature <=> g \in Mature))
    BY <1>3 DEF Known, Described
  <2> HIDE DEF mature
  <2> QED
    BY <1>1, <1>3, <1>5, <2>1, MadeIInv
<1>6. CASE Result(FALSE, {}, FALSE)
  BY <1>1, <1>6, FailsIInv DEF Fails
<1> QED
  BY <1>4, <1>5, <1>6 DEF RunManifest

LEMMA RunImageIInv == ASSUME IInv, RunImage PROVE IInv'
<1>1. Running("Image") /\ service' = service
  BY DEF RunImage
<1>2. PICK changed \in BOOLEAN : Result(TRUE, {}, changed)
  BY DEF RunImage
<1>3. Answered("Image", ui.run.job.what, TRUE, {}, service, service')
  BY <1>1, ServiceFacts DEF Answered
<1> QED
  BY <1>1, <1>2, <1>3, ResultLemma

LEMMA RunRatingsIInv == ASSUME IInv, RunRatings PROVE IInv'
<1>1. PICK kind \in {"Installed", "Rating"} : Running(kind)
  BY DEF RunRatings
<1>2. Result(TRUE, {}, FALSE) /\ service' = service
  BY DEF RunRatings
<1>3. Answered(kind, ui.run.job.what, TRUE, {}, service, service')
  BY <1>2, ServiceFacts DEF Answered
<1> QED
  BY <1>1, <1>2, <1>3, ResultLemma

LEMMA RunInstallIInv == ASSUME IInv, RunInstall PROVE IInv'
<1> DEFINE g == ui.run.job.game
<1>1. Running("Install")
  BY DEF RunInstall
<1>2. CASE Fails
  BY <1>1, <1>2, FailsIInv
<1>3. CASE /\ service' = [service EXCEPT !.installed = @ \cup {g}]
           /\ Result(TRUE, {}, TRUE)
  <2>1. g \in Known(service)
    BY <1>1 DEF Running, IInv, Content, KnownInv
  <2>2. g \in Games
    BY <2>1, ServiceFacts, ControllerAssumption DEF Known
  <2> HIDE DEF g
  <2>3. /\ service' \in Services /\ service'.installed = service.installed \cup {g}
        /\ service'.pin = service.pin /\ service'.unlocked = service.unlocked
        /\ service'.cached = service.cached
    BY <1>3, <2>2, ServiceFacts DEF Services
  <2>4. Answered("Install", ui.run.job.what, TRUE, {}, service, service')
    BY <2>1, <2>3, ServiceFacts DEF Answered, Known
  <2> QED
    BY <1>1, <1>3, <2>4, ResultLemma
<1> QED
  BY <1>2, <1>3 DEF RunInstall

LEMMA RunUninstallIInv == ASSUME IInv, RunUninstall PROVE IInv'
<1> DEFINE g == ui.run.job.game
<1>1. Running("Uninstall")
  BY DEF RunUninstall
<1>2. CASE Fails
  BY <1>1, <1>2, FailsIInv
<1>3. CASE /\ service' = [service EXCEPT !.installed = @ \ {g}]
           /\ Result(TRUE, {}, TRUE)
  <2> HIDE DEF g
  <2>1. /\ service' \in Services /\ service'.installed = service.installed \ {g}
        /\ service'.pin = service.pin /\ service'.unlocked = service.unlocked
        /\ service'.cached = service.cached
    BY <1>3, ServiceFacts DEF Services
  <2>2. Answered("Uninstall", ui.run.job.what, TRUE, {}, service, service')
    BY <2>1, ServiceFacts DEF Answered, Known
  <2> QED
    BY <1>1, <1>3, <2>2, ResultLemma
<1> QED
  BY <1>2, <1>3 DEF RunUninstall

LEMMA RunParentalIInv == ASSUME IInv, RunParental PROVE IInv'
<1> DEFINE done(pin, unlocked) ==
             /\ service' = [service EXCEPT !.pin = pin, !.unlocked = unlocked]
             /\ Result(TRUE, {}, FALSE)
<1>1. Running("Parental")
  BY DEF RunParental
<1>2. CASE Fails
  BY <1>1, <1>2, FailsIInv
<1>3. ASSUME NEW pin \in BOOLEAN, NEW unlocked \in BOOLEAN, unlocked => pin,
             unlocked => ui.run.job.what = "unlock", done(pin, unlocked)
      PROVE  IInv'
  <2>1. /\ service' \in Services /\ service'.installed = service.installed
        /\ service'.pin = pin /\ service'.unlocked = unlocked
        /\ service'.cached = service.cached
    BY <1>3, ServiceFacts DEF Services
  <2>2. Answered("Parental", ui.run.job.what, TRUE, {}, service, service')
    BY <1>3, <2>1, ServiceFacts DEF Answered, Known
  <2> QED
    BY <1>1, <1>3, <2>2, ResultLemma
<1>4. \/ Fails \/ done(TRUE, FALSE) \/ done(service.pin, FALSE) \/ done(FALSE, FALSE)
      \/ done(TRUE, TRUE) /\ ui.run.job.what = "unlock"
  BY DEF RunParental
<1> QED
  BY <1>2, <1>3, <1>4, ServiceFacts

-----------------------------------------------------------------------------
(* The poll.                                                               *)

(* What a result leaves: the screen agrees with the service, and what is   *)
(* locked is gone from it.                                                 *)
Settled(s, v, t) ==
  /\ t.run = None /\ t.pending = s.pending /\ t.needLock = s.needLock /\ t.inNest = s.inNest
  /\ t.view = s.view /\ t.launch = s.launch /\ t.rating = s.rating
  /\ t.enabled = v.pin /\ t.locked = (v.pin /\ (t.force \/ ~v.unlocked))
  /\ t.force <=> s.force /\ ~Unlocks(s.run)
  /\ t.catalog \cup t.updates \cup t.installed \subseteq Known(v)
  /\ t.manifest # None => t.manifest.game \in Known(v)
  /\ Described =>
       /\ t.manifest # None => (t.manifest.mature <=> t.manifest.game \in Mature)
       /\ t.locked => /\ t.catalog \cap Mature = {} /\ t.updates \cap Mature = {}
                      /\ t.manifest # None => t.manifest.game \notin Mature

Done == ui.run # None /\ ui.run.step = "done"

(* What the service says, and then what the view had asked for.            *)
Told(s, r) ==
  LET force == s.force /\ ~Unlocks(r)
      visible == s.view = r.job.view /\ s.pending = None
  IN [s EXCEPT
        !.run = None,
        !.installed = service.installed, !.cached = service.cached,
        !.force = force, !.enabled = service.pin,
        !.locked = LockedNow(force),
        !.changed = @ \/ r.changed,
        !.error = IF visible /\ ~s.external THEN ~r.ok ELSE @]
Given(t, r) ==
  IF ~r.ok THEN t
  ELSE CASE r.job.kind = "Catalog" -> [t EXCEPT !.catalog = r.got]
         [] r.job.kind = "Manifest" -> [t EXCEPT !.manifest = CHOOSE m \in r.got : TRUE]
         [] r.job.kind = "Updates" -> [t EXCEPT !.updates = r.got]
         [] OTHER -> t

LEMMA ToldLemma ==
  ASSUME IInv, Done
  PROVE  LET t == Told(ui, ui.run)
         IN /\ t \in Screens
            /\ t.run = None /\ t.pending = ui.pending /\ t.needLock = ui.needLock
            /\ t.inNest = ui.inNest /\ t.view = ui.view /\ t.launch = ui.launch
            /\ t.rating = ui.rating /\ t.catalog = ui.catalog /\ t.updates = ui.updates
            /\ t.manifest = ui.manifest /\ t.installed = service.installed
            /\ t.enabled = service.pin
            /\ t.locked = (service.pin /\ (t.force \/ ~service.unlocked))
            /\ t.force <=> ui.force /\ ~Unlocks(ui.run)
<1> DEFINE force == ui.force /\ ~Unlocks(ui.run)
           locked == LockedNow(force)
           changed == ui.changed \/ ui.run.changed
           error == IF (ui.view = ui.run.job.view /\ ui.pending = None) /\ ~ui.external
                      THEN ~ui.run.ok ELSE ui.error
           t == [ui EXCEPT
                   !.run = None,
                   !.installed = service.installed, !.cached = service.cached,
                   !.force = force, !.enabled = service.pin,
                   !.locked = locked, !.changed = changed, !.error = error]
<1>1. ui \in Screens /\ ui.error \in BOOLEAN
  BY ViewTypes DEF Screens
<1>2. force \in BOOLEAN /\ locked \in BOOLEAN /\ changed \in BOOLEAN /\ error \in BOOLEAN
  BY <1>1 DEF LockedNow
<1>3. Told(ui, ui.run) = t
  BY <1>1 DEF Told, Screens
<1>4. locked = (service.pin /\ (force \/ ~service.unlocked))
  BY DEF LockedNow
<1>5. force <=> ui.force /\ ~Unlocks(ui.run)
  OBVIOUS
<1> HIDE DEF force, locked, changed, error
<1>6. t \in Screens
  <2> DEFINE q == [ui EXCEPT !.run = None, !.installed = service.installed,
                             !.cached = service.cached]
  <2>1. q \in Screens
    BY <1>1, ServiceFacts DEF Screens
  <2>2. t = [[q EXCEPT !.force = force, !.enabled = service.pin, !.locked = locked]
               EXCEPT !.changed = changed, !.error = error]
    BY <1>1 DEF Screens
  <2>3. service.pin \in BOOLEAN
    BY ServiceFacts
  <2> HIDE DEF q, t
  <2> QED
    <3> DEFINE r == [q EXCEPT !.force = force, !.enabled = service.pin, !.locked = locked]
    <3>1. r \in Screens
      BY <1>2, <2>1, <2>3 DEF Screens
    <3> HIDE DEF r
    <3>2. [r EXCEPT !.changed = changed, !.error = error] \in Screens
      BY <1>2, <3>1 DEF Screens
    <3> QED
      BY <2>2, <3>2 DEF r
<1>7. /\ t.run = None /\ t.pending = ui.pending /\ t.needLock = ui.needLock
      /\ t.inNest = ui.inNest /\ t.view = ui.view /\ t.launch = ui.launch
      /\ t.rating = ui.rating /\ t.catalog = ui.catalog /\ t.updates = ui.updates
      /\ t.manifest = ui.manifest /\ t.installed = service.installed
      /\ t.enabled = service.pin /\ t.locked = locked /\ t.force = force
  BY <1>1 DEF Screens
<1> HIDE DEF t
<1> QED
  BY <1>3, <1>4, <1>5, <1>6, <1>7

LEMMA GivenLemma ==
  ASSUME IInv, Done, NEW t \in Screens,
         t.catalog = ui.catalog, t.updates = ui.updates, t.manifest = ui.manifest
  PROVE  LET u == Given(t, ui.run)
         IN /\ u \in Screens /\ SamePlace(t, u) /\ u.run = t.run /\ u.pending = t.pending
            /\ u.enabled = t.enabled /\ u.locked = t.locked /\ u.force = t.force
            /\ u.installed = t.installed
            /\ u.catalog \cup u.updates \subseteq Known(service)
            /\ u.manifest # None =>
                 /\ u.manifest.game \in Known(service)
                 /\ Described => (u.manifest.mature <=> u.manifest.game \in Mature)
<1>1. /\ ui.catalog \cup ui.updates \subseteq Known(service)
      /\ ui.manifest # None =>
           /\ ui.manifest.game \in Known(service)
           /\ Described => (ui.manifest.mature <=> ui.manifest.game \in Mature)
  BY DEF IInv, Content, KnownInv, MatureInv
<1>2. KnownInv(ui, service)
  BY DEF IInv, Content
<1>3. CASE Given(t, ui.run) = t
  BY <1>1, <1>3 DEF SamePlace
<1>4. CASE /\ ui.run.ok /\ ui.run.job.kind = "Catalog"
           /\ Given(t, ui.run) = [t EXCEPT !.catalog = ui.run.got]
  <2> DEFINE c == ui.run.got
  <2>1. c \subseteq Known(service) /\ c \subseteq Games
    BY <1>2, <1>4 DEF Done, KnownInv
  <2> HIDE DEF c
  <2>2. [t EXCEPT !.catalog = c] \in Screens
    BY <2>1 DEF Screens
  <2> QED
    BY <1>1, <1>4, <2>1, <2>2 DEF Screens, SamePlace, c
<1>5. CASE /\ ui.run.ok /\ ui.run.job.kind = "Updates"
           /\ Given(t, ui.run) = [t EXCEPT !.updates = ui.run.got]
  <2> DEFINE c == ui.run.got
  <2>1. c \subseteq Known(service) /\ c \subseteq Games
    BY <1>2, <1>5 DEF Done, KnownInv
  <2> HIDE DEF c
  <2>2. [t EXCEPT !.updates = c] \in Screens
    BY <2>1 DEF Screens
  <2> QED
    BY <1>1, <1>5, <2>1, <2>2 DEF Screens, SamePlace, c
<1>6. CASE /\ ui.run.ok /\ ui.run.job.kind = "Manifest"
           /\ Given(t, ui.run) = [t EXCEPT !.manifest = CHOOSE m \in ui.run.got : TRUE]
  <2> DEFINE c == CHOOSE m \in ui.run.got : TRUE
  <2>1. PICK m \in Manifests : /\ ui.run.got = {m} /\ m.game \in Known(service)
                               /\ Described => (m.mature <=> m.game \in Mature)
    BY <1>2, <1>6 DEF Done, KnownInv
  <2>2. c = m
    BY <2>1
  <2>3. Given(t, ui.run) = [t EXCEPT !.manifest = m]
    BY <1>6, <2>2
  <2> HIDE DEF c
  <2>4. [t EXCEPT !.manifest = m] \in Screens
    BY <2>1 DEF Screens
  <2>5. LET u == [t EXCEPT !.manifest = m]
        IN /\ SamePlace(t, u) /\ u.run = t.run /\ u.pending = t.pending
           /\ u.enabled = t.enabled /\ u.locked = t.locked /\ u.force = t.force
           /\ u.installed = t.installed /\ u.catalog = t.catalog /\ u.updates = t.updates
           /\ u.manifest = m
    BY DEF Screens, SamePlace
  <2> QED
    BY <1>1, <2>1, <2>3, <2>4, <2>5
<1> QED
  BY <1>3, <1>4, <1>5, <1>6 DEF Given

LEMMA AppliedLemma ==
  ASSUME IInv, Done
  PROVE  Applied(ui, ui.run) \in Screens /\ Settled(ui, service, Applied(ui, ui.run))
<1> DEFINE t == Told(ui, ui.run)
           u == Given(t, ui.run)
           f == FilterMature(u)
           blocked == /\ u.locked /\ u.manifest # None /\ u.manifest.mature
                      /\ u.view = "Detail"
           e == f.error \/ blocked
           a == [f EXCEPT !.error = e]
<1>1. Applied(ui, ui.run) = [f EXCEPT !.error = @ \/ blocked]
  BY DEF Applied, Told, Given
<1>2. /\ t \in Screens
      /\ t.run = None /\ t.pending = ui.pending /\ t.needLock = ui.needLock
      /\ t.inNest = ui.inNest /\ t.view = ui.view /\ t.launch = ui.launch
      /\ t.rating = ui.rating /\ t.catalog = ui.catalog /\ t.updates = ui.updates
      /\ t.manifest = ui.manifest /\ t.installed = service.installed
      /\ t.enabled = service.pin
      /\ t.locked = (service.pin /\ (t.force \/ ~service.unlocked))
      /\ t.force <=> ui.force /\ ~Unlocks(ui.run)
  BY ToldLemma
<1> HIDE DEF t
<1>3. /\ u \in Screens /\ SamePlace(t, u) /\ u.run = t.run /\ u.pending = t.pending
      /\ u.enabled = t.enabled /\ u.locked = t.locked /\ u.force = t.force
      /\ u.installed = t.installed
      /\ u.catalog \cup u.updates \subseteq Known(service)
      /\ u.manifest # None =>
           /\ u.manifest.game \in Known(service)
           /\ Described => (u.manifest.mature <=> u.manifest.game \in Mature)
  BY <1>2, GivenLemma
<1> HIDE DEF u
<1>4. f \in Screens /\ Filtered(u, f) /\ SamePlace(u, f) /\ f.run = u.run /\ f.pending = u.pending
  BY <1>3, FilterLemma
<1> HIDE DEF f, blocked
<1>5. e \in BOOLEAN /\ Applied(ui, ui.run) = a
  BY <1>1, <1>4 DEF Screens
<1> HIDE DEF e
<1>6. a \in Screens
  BY <1>4, <1>5 DEF Screens
<1>7. /\ SameContent(f, a) /\ SamePlace(f, a) /\ a.manifest = f.manifest /\ a.run = f.run
      /\ a.pending = f.pending
  BY <1>4 DEF Screens, SameContent, SamePlace
<1> HIDE DEF a
<1>8. /\ a.run = None /\ a.pending = ui.pending /\ a.needLock = ui.needLock
      /\ a.inNest = ui.inNest /\ a.view = ui.view /\ a.launch = ui.launch
      /\ a.rating = ui.rating /\ a.enabled = t.enabled /\ a.locked = t.locked
      /\ a.force = t.force
  BY <1>2, <1>3, <1>4, <1>7 DEF SamePlace, SameContent, Filtered
<1>9. /\ a.catalog \subseteq u.catalog /\ a.updates \subseteq u.updates
      /\ a.installed = service.installed /\ a.manifest \in {u.manifest, None}
      /\ Described /\ a.locked =>
           /\ a.catalog \cap Mature = {} /\ a.updates \cap Mature = {}
           /\ a.manifest # None => a.manifest.game \notin Mature
  BY <1>2, <1>3, <1>4, <1>7 DEF SameContent, Filtered
<1>10. Settled(ui, service, a)
  BY <1>2, <1>3, <1>8, <1>9, ServiceFacts DEF Settled
<1> QED
  BY <1>5, <1>6, <1>10

(* What the running job leaves behind once its result is taken, z being    *)
(* the screen then.                                                        *)
LEMMA SettledLemma ==
  ASSUME IInv, Done, NEW a \in Screens, Settled(ui, service, a), NEW z \in Screens,
         ui' = z, service' = service,
         granted' = IF ui.run.ok /\ ui.run.job.kind = "Parental"
                      THEN ui.run.job.what = "unlock" /\ ui.run.current ELSE granted,
         SameContent(a, z), SamePlace(a, z), z.manifest = a.manifest, z.pending = None,
         ui.pending # None => z.run = NewRun(ui.pending),
         z.run # None /\ ui.pending = None =>
           \E j \in Jobs : z.run = NewRun(j) /\ j.kind = "Image" /\ JobInv(j)
  PROVE  IInv'
<1>1. /\ ui \in Screens /\ service \in Services /\ granted \in BOOLEAN
      /\ RunInv(ui) /\ ForceInv(ui) /\ PinInv(ui) /\ TransferInv(ui)
      /\ SyncInv(ui, service) /\ KnownInv(ui, service) /\ MatureInv(ui)
      /\ UnlockedInv(ui, service, granted) /\ ui.run # None /\ ui.run.step = "done"
  BY DEF IInv, TypeInv, Control, Content, Done
<1>2. /\ z.enabled = service.pin /\ z.locked = (service.pin /\ (z.force \/ ~service.unlocked))
      /\ z.force <=> ui.force /\ ~Unlocks(ui.run)
      /\ z.needLock = ui.needLock /\ z.view = ui.view /\ z.launch = ui.launch
      /\ z.rating = ui.rating /\ z.pending = None
  BY DEF Settled, SameContent, SamePlace
<1>3. z.run # None =>
        /\ z.run.current /\ z.run.step = "begin" /\ JobInv(z.run.job)
        /\ IF ui.pending # None THEN z.run.job = ui.pending ELSE z.run.job.kind = "Image"
  <2>1. \A j : NewRun(j).job = j /\ NewRun(j).current /\ NewRun(j).step = "begin"
    BY DEF NewRun
  <2>2. CASE ui.pending # None
    BY <1>1, <2>1, <2>2 DEF RunInv
  <2>3. CASE ui.pending = None
    BY <2>1, <2>3
  <2> QED
    BY <2>2, <2>3
<1>4. ui.pending # None => z.run # None
  <2>1. ui.pending # None => NewRun(ui.pending) \in Runs
    BY <1>1 DEF NewRun, Runs, Screens
  <2> QED
    BY <2>1, ControllerAssumption
<1>5. Unlocks(ui.run) => ui.run.ok /\ ui.run.job.what = "unlock" /\ ui.run.current
                         /\ ui.run.job.kind = "Parental"
  BY <1>1 DEF Unlocks, RunInv, JobInv
<1>6. RunInv(z)
  BY <1>2, <1>3 DEF RunInv
<1>7. ForceInv(z)
  BY <1>1, <1>2, <1>3, <1>5 DEF ForceInv, RunInv
<1>8. PinInv(z)
  BY <1>1, <1>2, <1>3 DEF PinInv
<1>9. TransferInv(z)
  BY <1>2 DEF TransferInv
<1>10. Content(z, service)
  <2>1. SyncInv(z, service)
    BY <1>2 DEF SyncInv
  <2>2. KnownInv(z, service)
    BY <1>1, <1>2, <1>3 DEF KnownInv, Settled, SameContent
  <2>3. Described /\ z.locked /\ z.view = "Rating" => z.rating \notin Mature
    <3> SUFFICES ASSUME Described, z.locked, z.view = "Rating" PROVE z.rating \notin Mature
      OBVIOUS
    <3>1. ui.run.job.kind # "Parental" /\ ui.view = "Rating"
      BY <1>1, <1>2 DEF PinInv
    <3>2. ui.locked = (service.pin /\ (ui.force \/ ~service.unlocked))
      BY <1>1, <3>1 DEF SyncInv
    <3>3. ui.locked
      BY <1>2, <1>5, <3>1, <3>2
    <3> QED
      BY <1>1, <1>2, <3>1, <3>3 DEF MatureInv
  <2>4. MatureInv(z)
    BY <2>3 DEF MatureInv, Settled, SameContent
  <2> QED
    BY <2>1, <2>2, <2>4 DEF Content
<1>11. service.unlocked /\ ~granted' =>
         \/ z.needLock
         \/ z.run # None /\ z.run.job.kind = "Refresh" /\ z.run.step # "done"
  <2> SUFFICES ASSUME service.unlocked, ~granted', ~ui.needLock
               PROVE  z.run # None /\ z.run.job.kind = "Refresh" /\ z.run.step # "done"
    BY <1>2
  <2>1. ui.run.job.kind = "Parental" /\ ~ui.run.current
    <3>1. CASE ui.run.ok /\ ui.run.job.kind = "Parental"
      <4>1. ui.run.job.what = "unlock"
        BY <1>1, <3>1 DEF UnlockedInv
      <4> QED
        BY <3>1, <4>1
    <3>2. CASE ~(ui.run.ok /\ ui.run.job.kind = "Parental")
      BY <1>1, <3>2 DEF UnlockedInv
    <3> QED
      BY <3>1, <3>2
  <2>2. ui.pending # None /\ ui.pending.kind = "Refresh"
    BY <1>1, <2>1 DEF PinInv
  <2> QED
    BY <1>3, <1>4, <2>2
<1>12. UnlockedInv(z, service, granted')
  BY <1>1, <1>3, <1>11 DEF UnlockedInv
<1>13. LockedInv(z, granted')
  BY <1>2, <1>7, <1>11 DEF LockedInv, ForceInv
<1>14. granted' \in BOOLEAN
  BY <1>1
<1> QED
  BY <1>1, <1>6, <1>7, <1>8, <1>9, <1>10, <1>12, <1>13, <1>14
  DEF IInv, TypeInv, Control, Content

LEMMA TickIInv == ASSUME IInv, Tick PROVE IInv'
<1> DEFINE a == Applied(ui, ui.run)
<1>1. /\ Done /\ ui' \in AfterResult(a, ui.run) /\ service' = service
      /\ granted' = IF ui.run.ok /\ ui.run.job.kind = "Parental"
                      THEN ui.run.job.what = "unlock" /\ ui.run.current ELSE granted
  BY DEF Tick, Done
<1>2. a \in Screens /\ Settled(ui, service, a)
  BY <1>1, AppliedLemma
<1> HIDE DEF a
<1>3. a.run = None /\ a.pending = ui.pending /\ a.view = ui.view
  BY <1>2 DEF Settled
<1>4. CASE ui.pending # None
  <2>1. ui.pending \in Jobs
    BY <1>4, ViewTypes DEF Screens
  <2>2. ui' = Start(a, ui.pending)
    BY <1>1, <1>3, <1>4 DEF AfterResult
  <2>3. /\ ui' \in Screens /\ SameContent(a, ui') /\ SamePlace(a, ui')
        /\ ui'.manifest = a.manifest /\ ui'.run = NewRun(ui.pending) /\ ui'.pending = None
    BY <1>2, <1>3, <2>1, <2>2, StartLemma
  <2> QED
    BY <1>1, <1>2, <1>4, <2>3, SettledLemma
<1>5. CASE ui.pending = None /\ ui' = a
  BY <1>1, <1>2, <1>3, <1>5, SettledLemma DEF SameContent, SamePlace
<1>6. CASE ui.pending = None /\ \E g \in CurrentImage(a) : ui' = Start(a, Job("Image", a.view, g, None))
  <2>1. PICK g \in CurrentImage(a) : ui' = Start(a, Job("Image", a.view, g, None))
    BY <1>6
  <2> DEFINE x == a.view
             j == Job("Image", x, g, None)
  <2>2. g \in Games /\ x \in {"Catalog", "Installed", "Detail", "Remove"}
    BY <1>2, <2>1 DEF CurrentImage, VisibleInstalled, Screens, Manifests
  <2> HIDE DEF x
  <2>3. j \in Jobs /\ j.kind = "Image" /\ j.view = x /\ j.what = None
    BY <2>2 DEF Job, Jobs, Kinds, Views
  <2> HIDE DEF j
  <2>4. JobInv(j)
    BY <2>2, <2>3, ControllerAssumption DEF JobInv, ViewsOf
  <2>5. ui' = Start(a, j)
    BY <2>1 DEF j, x
  <2>6. /\ ui' \in Screens /\ SameContent(a, ui') /\ SamePlace(a, ui')
        /\ ui'.manifest = a.manifest /\ ui'.run = NewRun(j) /\ ui'.pending = None
    BY <1>2, <1>3, <2>3, <2>5, StartLemma
  <2> QED
    BY <1>1, <1>2, <1>6, <2>3, <2>4, <2>6, SettledLemma
<1> QED
  BY <1>1, <1>3, <1>4, <1>5, <1>6 DEF AfterResult, FetchImage

-----------------------------------------------------------------------------
(* The invariant, and what it shows.                                       *)

LEMMA NextIInv == IInv /\ [Next]_vars => IInv'
<1> SUFFICES ASSUME IInv, [Next]_vars PROVE IInv'
  OBVIOUS
<1>1. CASE Player
  BY <1>1, OpenIInv, DismissErrorIInv, PressStartIInv, BackToShellIInv, CancelTransferIInv,
     GoBackIInv, BrowseIInv, OpenInstalledIInv, OpenUpdatesIInv, OpenParentalIInv,
     MoveSelectionIInv, OpenDetailsIInv, OnInstalledIInv, InstallGameIInv,
     OnInstalledDetailIInv, RemoveGameIInv, ContinueIInv, SaveRatingIInv,
     ChooseParentalIInv, ConfirmPinIInv
  DEF Player
<1>2. CASE Worker
  BY <1>2, WorkerBeginsIInv, RunRefreshIInv, RunCatalogIInv, RunUpdatesIInv, RunManifestIInv,
     RunImageIInv, RunInstallIInv, RunUninstallIInv, RunRatingsIInv, RunParentalIInv
  DEF Worker
<1>3. CASE Poll
  BY <1>3, TickIInv, LibraryChangedIInv, TakeLaunchPathIInv DEF Poll
<1>4. CASE UNCHANGED vars
  BY <1>4 DEF vars, IInv, TypeInv, Control, Content, RunInv, ForceInv, PinInv, TransferInv,
              UnlockedInv, LockedInv, SyncInv, KnownInv, MatureInv
<1> QED
  BY <1>1, <1>2, <1>3, <1>4 DEF Next

LEMMA InvariantLemma == Spec => []IInv
BY InitIInv, NextIInv, PTL DEF Spec

(* Types: the fields of the UI thread, of the job under way and of the     *)
(* service stay of the types that the code declares.                       *)
THEOREM TypeCorrect == Spec => []TypeInv
<1>1. IInv => TypeInv
  BY DEF IInv
<1> QED
  BY <1>1, InvariantLemma, PTL

(* A job started since the last relock finds the service locked unless the *)
(* PIN was given in between, whatever was waiting, running or late.        *)
THEOREM RelockCorrect == Spec => []RelockKept
<1>1. IInv => RelockKept
  BY DEF IInv, Control, RunInv, UnlockedInv, RelockKept
<1> QED
  BY <1>1, InvariantLemma, PTL

(* Without the PIN no mature game is on the screen and the service stays   *)
(* locked, if the catalog describes every game that the PIN hides.         *)
THEOREM LockCorrect == Described => (Spec => []LockHolds)
<1>1. ASSUME IInv, Described PROVE LockHolds
  <2>1. RelockKept
    BY <1>1 DEF IInv, Control, RunInv, UnlockedInv, RelockKept
  <2>2. MatureNeedsPin
    <3> SUFFICES ASSUME ui.enabled, ~granted PROVE Shown \cap Mature = {}
      BY DEF MatureNeedsPin
    <3>1. ui \in Screens /\ MatureInv(ui) /\ ui.locked
      BY <1>1 DEF IInv, TypeInv, Content, LockedInv
    <3>2. /\ ui.catalog \cap Mature = {} /\ ui.updates \cap Mature = {}
          /\ ui.manifest # None =>
               /\ ui.manifest.mature <=> ui.manifest.game \in Mature
               /\ ui.manifest.game \notin Mature
          /\ ui.view = "Rating" => ui.rating \notin Mature
      BY <1>1, <3>1 DEF MatureInv
    <3>3. VisibleInstalled(ui) \cap Mature = {}
      BY <3>1, <3>2, LooksLemma DEF VisibleInstalled
    <3> QED
      BY <3>2, <3>3 DEF Shown
  <2> QED
    BY <2>1, <2>2 DEF LockHolds
<1> SUFFICES ASSUME Described PROVE Spec => []LockHolds
  OBVIOUS
<1>2. IInv => LockHolds
  BY <1>1
<1> QED
  BY <1>2, InvariantLemma, PTL

(* While a transfer waits nothing but the progress screen's own buttons    *)
(* and the worker can do anything.                                         *)
LEMMA TransferStep ==
  ASSUME IInv, Next, ui.pending # None, ui.pending.kind \in {"Install", "Uninstall"}
  PROVE  ui'.pending = ui.pending \/ (ui'.run # None /\ ui'.run.job = ui.pending)
<1>1. /\ ui \in Screens /\ ui.run # None /\ ui.view = "Transfer" /\ ui.inNest
      /\ ui.launch = None /\ Active(ui)
  BY DEF IInv, TypeInv, Control, RunInv, TransferInv, Active
<1>2. ASSUME NEW x, Ready(x) PROVE x = "Transfer"
  BY <1>1, <1>2 DEF Ready
<1>3. CASE Player
  <2>1. CASE DismissError
    BY <1>1, <2>1 DEF DismissError, Shows, Screens
  <2>2. CASE CancelTransfer
    BY <1>1, <2>2 DEF CancelTransfer, Shows, Screens
  <2>3. ~Open /\ ~PressStart /\ ~BackToShell /\ ~GoBack /\ ~Continue
    BY <1>1 DEF Open, PressStart, BackToShell, GoBack, Continue
  <2>4. /\ ~Browse /\ ~OpenInstalled /\ ~OpenUpdates /\ ~OpenParental /\ ~MoveSelection
        /\ ~OpenDetails /\ ~OnInstalled /\ ~InstallGame /\ ~OnInstalledDetail
        /\ ~RemoveGame /\ ~SaveRating /\ ~ChooseParental /\ ~ConfirmPin
    BY <1>2 DEF Browse, OpenInstalled, OpenUpdates, OpenParental, MoveSelection, OpenDetails,
                OnInstalled, InstallGame, OnInstalledDetail, RemoveGame, SaveRating,
                ChooseParental, ConfirmPin
  <2> QED
    BY <1>3, <2>1, <2>2, <2>3, <2>4 DEF Player
<1>4. CASE Worker
  <2>1. CASE WorkerBegins
    BY <1>1, <2>1 DEF WorkerBegins, Screens
  <2>2. ASSUME NEW ok, NEW got, NEW changed, Result(ok, got, changed)
        PROVE  ui'.pending = ui.pending
    BY <1>1, <2>2 DEF Result, Screens
  <2>3. WorkerBegins \/ \E ok, got, changed : Result(ok, got, changed)
    BY <1>4 DEF Worker, RunRefresh, RunCatalog, RunUpdates, RunManifest, RunImage, RunInstall,
                RunUninstall, RunRatings, RunParental, Fails
  <2> QED
    BY <2>1, <2>2, <2>3
<1>5. CASE Tick
  <2> DEFINE a == Applied(ui, ui.run)
  <2>1. Done /\ ui' \in AfterResult(a, ui.run)
    BY <1>5 DEF Tick, Done
  <2>2. a \in Screens /\ a.run = None /\ a.pending = ui.pending
    BY <2>1, AppliedLemma DEF Settled
  <2> HIDE DEF a
  <2>3. ui' = Start(a, ui.pending) /\ ui.pending \in Jobs
    BY <1>1, <2>1, <2>2 DEF AfterResult, Screens
  <2>4. ui'.run = NewRun(ui.pending)
    BY <2>2, <2>3, StartLemma
  <2>5. NewRun(ui.pending) \in Runs /\ NewRun(ui.pending).job = ui.pending
    BY <2>3 DEF NewRun, Runs
  <2> QED
    BY <2>4, <2>5, ControllerAssumption
<1>6. ~TakeLibraryChanged /\ ~TakeLaunchPath
  BY <1>1 DEF TakeLibraryChanged, TakeLaunchPath
<1> QED
  BY <1>3, <1>4, <1>5, <1>6 DEF Next, Poll

(* An installation or a removal that waits for the worker is never         *)
(* replaced by another job: it is the next one that runs.                  *)
THEOREM TransfersCorrect == Spec => TransfersKept
<1>1. IInv /\ [Next]_vars => [~Gone({"Install", "Uninstall"})]_vars
  BY TransferStep DEF Gone
<1> QED
  BY <1>1, InvariantLemma, PTL DEF Spec, TransfersKept
=============================================================================
