--------------------------- MODULE ScreensProofs ---------------------------
(***************************************************************************)
(* Proofs about the three parts of the shell's loop that share the screen  *)
(* and its lists: the input (EvdevInput, whose variables, Init, Next and   *)
(* Spec have the plain names), the Wi-Fi and Bluetooth screens (Wireless)  *)
(* and the screens (Shell).  Each theorem is of one of the three           *)
(* specifications; nothing but None is common to them.                     *)
(*                                                                         *)
(* For any devices, networks, games, consoles and bounds: a game has its   *)
(* controls, what is pressed in it is not the shell's, and a remapping     *)
(* does not capture the button that began it; an unchecked selection is in *)
(* range, a password stays with its network, a queued action meets its     *)
(* device; a selection stays on its game, Browse comes back, what is shown *)
(* is current and launches are as asked.                                   *)
(***************************************************************************)
EXTENDS EvdevInput, Wireless, Shell, FiniteSetTheorems, WellFoundedInduction, TLAPS

(***************************************************************************)
(*                         Induction, and lists                            *)
(***************************************************************************)

LEMMA Smallest == ASSUME NEW P, P \subseteq Nat, P # {} PROVE \E m \in P : \A k \in P : ~(k < m)
<1> DEFINE R == OpToRel(<, Nat)
<1>1. IsWellFoundedOn(R, Nat)
  BY NatLessThanWellFounded, Zenon
<1>2. \A x, y \in Nat : x < y => <<x, y>> \in R
  BY Zenon DEF OpToRel
<1>3. \E x \in P : \A y \in P : <<y, x>> \notin R
  <2> HIDE DEF R
  <2> QED BY <1>1, WFMin
<1> QED
  BY <1>2, <1>3

(* Induction over the naturals, of a set.                                  *)
LEMMA Induction ==
  ASSUME NEW P, 0 \in P, \A n \in Nat : n \in P => n + 1 \in P
  PROVE  Nat \subseteq P
<1>1. SUFFICES ASSUME Nat \ P # {} PROVE FALSE
  OBVIOUS
<1>2. PICK m \in Nat \ P : \A k \in Nat \ P : ~(k < m)
  BY <1>1, Smallest
<1>3. m # 0 /\ m - 1 \in Nat /\ m - 1 < m /\ (m - 1) + 1 = m
  BY <1>2
<1> QED
  BY <1>2, <1>3

Filtered(rows, T, n, f) ==
  f = [i \in 0..n |->
        IF i = 0 THEN <<>>
        ELSE IF rows[i] \in T THEN Append(f[i - 1], rows[i]) ELSE f[i - 1]]

LEMMA FilterExists ==
  ASSUME NEW rows, NEW T
  PROVE  \A n \in Nat : \E f : Filtered(rows, T, n, f)
<1> DEFINE P == {n \in Nat : \E f : Filtered(rows, T, n, f)}
<1>1. 0 \in P
  <2>1. Filtered(rows, T, 0, [i \in 0..0 |-> <<>>])
    BY DEF Filtered
  <2> QED BY <2>1
<1>2. ASSUME NEW n \in Nat, n \in P PROVE n + 1 \in P
  <2>1. PICK f : Filtered(rows, T, n, f)
    BY <1>2
  <2> DEFINE g == [i \in 0..(n + 1) |-> IF i \in 0..n THEN f[i] ELSE IF rows[n + 1] \in T THEN Append(f[n], rows[n + 1]) ELSE f[n]]
             h == [i \in 0..(n + 1) |->
        IF i = 0 THEN <<>>
        ELSE IF rows[i] \in T THEN Append(g[i - 1], rows[i]) ELSE g[i - 1]]
  <2>2. ASSUME NEW i \in 0..(n + 1) PROVE g[i] = h[i]
    <3>1. CASE i = 0
      BY <3>1, <2>1 DEF Filtered
    <3>2. CASE i # 0 /\ i \in 0..n
      <4>1. i - 1 \in 0..n /\ i - 1 \in 0..(n + 1)
        BY <3>2
      <4> QED BY <4>1, <3>2, <2>1 DEF Filtered
    <3>3. CASE i = n + 1
      <4>1. i - 1 = n /\ n \in 0..n /\ n \in 0..(n + 1) /\ i # 0 /\ i \notin 0..n
        BY <3>3
      <4> QED BY <4>1, <3>3
    <3> QED BY <3>1, <3>2, <3>3
  <2>3. g = h
    BY <2>2
  <2>4. Filtered(rows, T, n + 1, g)
    BY <2>3, Zenon DEF Filtered
  <2> QED BY <2>4
<1>3. Nat \subseteq P
  <2> HIDE DEF P
  <2> QED BY <1>1, <1>2, Induction
<1> QED BY <1>3

LEMMA KeptFilters ==
  ASSUME NEW rows, NEW T, Len(rows) \in Nat
  PROVE \E f : Filtered(rows, T, Len(rows), f) /\ Kept(rows, T) = f[Len(rows)]
<1>1. \E f : Filtered(rows, T, Len(rows), f)
  BY FilterExists
<1> DEFINE c == CHOOSE f : Filtered(rows, T, Len(rows), f)
<1>2. Filtered(rows, T, Len(rows), c)
  BY <1>1, Zenon
<1>3. Kept(rows, T) = c[Len(rows)]
  BY Zenon DEF Kept, Filtered
<1> QED BY <1>2, <1>3

(* One element more of the list.                                           *)
LEMMA FilterStep ==
  ASSUME NEW rows, NEW T, NEW f, NEW n \in Nat, n < Len(rows), Len(rows) \in Nat,
         Filtered(rows, T, Len(rows), f)
  PROVE  f[n + 1] = IF rows[n + 1] \in T THEN Append(f[n], rows[n + 1]) ELSE f[n]
<1>1. n + 1 \in 0..Len(rows) /\ n + 1 # 0 /\ (n + 1) - 1 = n
  OBVIOUS
<1> QED BY <1>1 DEF Filtered

LEMMA AppendRange ==
  ASSUME NEW S, NEW s \in Seq(S), NEW x \in S
  PROVE  Append(s, x) \in Seq(S) /\ Range(Append(s, x)) = Range(s) \cup {x}
<1>1. /\ Append(s, x) \in Seq(S) /\ DOMAIN Append(s, x) = 1..(Len(s) + 1)
      /\ \A i \in 1..Len(s) : Append(s, x)[i] = s[i]
      /\ Append(s, x)[Len(s) + 1] = x /\ DOMAIN s = 1..Len(s) /\ Len(s) \in Nat
  OBVIOUS
<1>2. ASSUME NEW y \in Range(Append(s, x)) PROVE y \in Range(s) \cup {x}
  BY <1>1, <1>2 DEF Range
<1>3. ASSUME NEW y \in Range(s) PROVE y \in Range(Append(s, x))
  BY <1>1, <1>3 DEF Range
<1>4. x \in Range(Append(s, x))
  BY <1>1 DEF Range
<1> QED BY <1>1, <1>2, <1>3, <1>4

LEMMA AppendInjects ==
  ASSUME NEW S, NEW s \in Seq(S), NEW x \in S, IsInjective(s), x \notin Range(s)
  PROVE  IsInjective(Append(s, x))
<1>1. /\ DOMAIN Append(s, x) = 1..(Len(s) + 1)
      /\ \A i \in 1..Len(s) : Append(s, x)[i] = s[i]
      /\ Append(s, x)[Len(s) + 1] = x /\ DOMAIN s = 1..Len(s) /\ Len(s) \in Nat
  OBVIOUS
<1> DEFINE t == Append(s, x)
<1>2. ASSUME NEW i \in DOMAIN t, NEW j \in DOMAIN t, t[i] = t[j] PROVE i = j
  <2>1. (i \in 1..Len(s) \/ i = Len(s) + 1) /\ (j \in 1..Len(s) \/ j = Len(s) + 1)
    BY <1>1, <1>2
  <2>2. \A k \in 1..Len(s) : s[k] # x
    BY <1>1 DEF Range
  <2> QED BY <2>1, <2>2, <1>1, <1>2 DEF IsInjective
<1> QED BY <1>2 DEF IsInjective

(* What Kept gives: the elements of the list that are in T, none twice if  *)
(* the list has none twice.                                                *)
LEMMA KeptList ==
  ASSUME NEW S, NEW rows \in Seq(S), NEW T
  PROVE  /\ Kept(rows, T) \in Seq(S)
         /\ Range(Kept(rows, T)) = Range(rows) \cap T
         /\ IsInjective(rows) => IsInjective(Kept(rows, T))
<1> DEFINE N == Len(rows)
           Upto(n) == {rows[j] : j \in 1..n}
<1>1. N \in Nat /\ DOMAIN rows = 1..N /\ \A j \in 1..N : rows[j] \in S
  OBVIOUS
<1>2. PICK f : Filtered(rows, T, N, f) /\ Kept(rows, T) = f[N]
  BY <1>1, KeptFilters
<1> DEFINE Good(n) == /\ f[n] \in Seq(S)
                      /\ Range(f[n]) = Upto(n) \cap T
                      /\ IsInjective(rows) => IsInjective(f[n])
           P == {n \in Nat : n <= N => Good(n)}
<1>3. 0 \in P
  <2>1. f[0] = <<>>
    BY <1>1, <1>2 DEF Filtered
  <2>2. <<>> \in Seq(S) /\ Range(<<>>) = {} /\ IsInjective(<<>>)
    BY DEF Range, IsInjective
  <2>3. Upto(0) = {}
    OBVIOUS
  <2> QED BY <2>1, <2>2, <2>3
<1>4. ASSUME NEW n \in Nat, n \in P PROVE n + 1 \in P
  <2>1. SUFFICES ASSUME n + 1 <= N PROVE Good(n + 1)
    OBVIOUS
  <2>2. Good(n) /\ n < N /\ n + 1 \in 1..N
    BY <1>1, <1>4, <2>1
  <2> DEFINE x == rows[n + 1]
  <2>3. f[n + 1] = IF x \in T THEN Append(f[n], x) ELSE f[n]
    BY <1>1, <1>2, <2>2, FilterStep
  <2>4. Upto(n + 1) = Upto(n) \cup {x} /\ x \in S
    BY <1>1, <2>2
  <2>5. ASSUME IsInjective(rows) PROVE x \notin Upto(n)
    <3>1. ASSUME NEW j \in 1..n, rows[j] = x PROVE FALSE
      <4>1. j \in DOMAIN rows /\ n + 1 \in DOMAIN rows /\ j # n + 1
        BY <1>1, <2>2
      <4> QED BY <4>1, <3>1, <2>5, Zenon DEF IsInjective
    <3> QED BY <3>1
  <2> HIDE DEF x, Upto
  <2>6. CASE x \notin T
    <3>1. f[n + 1] = f[n]
      BY <2>3, <2>6
    <3>2. Upto(n + 1) \cap T = Upto(n) \cap T
      BY <2>4, <2>6
    <3> QED BY <2>2, <3>1, <3>2
  <2>7. CASE x \in T
    <3>1. f[n + 1] = Append(f[n], x)
      BY <2>3, <2>7
    <3>2. f[n] \in Seq(S) /\ x \in S
      BY <2>2, <2>4
    <3>3. f[n + 1] \in Seq(S) /\ Range(f[n + 1]) = Range(f[n]) \cup {x}
      BY <3>1, <3>2, AppendRange
    <3>4. Range(f[n + 1]) = Upto(n + 1) \cap T
      BY <3>3, <2>2, <2>4, <2>7
    <3>5. ASSUME IsInjective(rows) PROVE IsInjective(f[n + 1])
      <4>1. IsInjective(f[n]) /\ x \notin Range(f[n])
        BY <3>5, <2>2, <2>5
      <4> QED BY <3>1, <3>2, <4>1, AppendInjects
    <3> QED BY <3>3, <3>4, <3>5
  <2> QED BY <2>6, <2>7
<1>5. N \in P
  <2>1. Nat \subseteq P
    <3> HIDE DEF P
    <3> QED BY <1>3, <1>4, Induction
  <2> QED BY <2>1, <1>1
<1>6. Good(N) /\ Upto(N) = Range(rows)
  <2>1. Good(N)
    BY <1>5, <1>1
  <2>2. Upto(N) = Range(rows)
    BY <1>1 DEF Range
  <2> QED BY <2>1, <2>2
<1> QED BY <1>2, <1>6

-----------------------------------------------------------------------------
(***************************************************************************)
(*                              The input                                  *)
(***************************************************************************)

Events   == [pad : Pads, button : Buttons, press : BOOLEAN, game : BOOLEAN]
Devs     == [pad : Pads, live : BOOLEAN, grabbed : BOOLEAN, refused : BOOLEAN,
             unread : Seq(Events)]
Profile  == [map : [Buttons -> Buttons], keys : [Buttons -> Buttons \cup {None}]]
Captures == [device : Pads, step : 1..Len(CaptureOrder), arming : BOOLEAN, early : BOOLEAN,
             armed : Buttons, profile : Profile]
Holds    == [held : BOOLEAN, chord : BOOLEAN, short : BOOLEAN, new : BOOLEAN]

DeviceTypes ==
  /\ plugged \in [Paths -> Pads \cup {None}]
  /\ down \subseteq [pad : Pads, button : Buttons, game : BOOLEAN]
  /\ devs \in [Paths -> Devs \cup {None}]
  /\ changed \in BOOLEAN /\ known \subseteq Pads
  /\ frame \in [Paths -> Seq(Events)]

CaptureTypes ==
  /\ capture \in Captures \cup {None} /\ profiles \in [Pads -> Profile \cup {None}]
  /\ starter \in (Pads \X Buttons) \cup {None}

ScreenTypes ==
  /\ CaptureTypes /\ hold \in Holds /\ screen \in {"menu", "setup"} /\ waiting \in BOOLEAN

(* The variables of the model and what they may hold.                      *)
InputTypes ==
  /\ DeviceTypes /\ ScreenTypes
  /\ ignore \in {"no", "unread", "read"}
  /\ running \in BOOLEAN /\ gamePress \in BOOLEAN
  /\ moves \in Nat /\ games \in Nat

(* Input is ignored only between games.                                    *)
PlayInv ==
  /\ running => ignore = "no" /\ Handled
  /\ waiting => ignore = "no" /\ ~running

InGame(e) == e.press /\ e.game

(* What was pressed during a game waits in a queue until the first poll    *)
(* after it, and what that poll read is handled while input is ignored.    *)
QueueInv ==
  /\ \A p \in Paths : \A i \in DOMAIN frame[p] : InGame(frame[p][i]) => ignore = "read"
  /\ \A p \in Paths : devs[p] # None =>
       \A i \in DOMAIN devs[p].unread :
         InGame(devs[p].unread[i]) => running \/ ignore = "unread"

(* A Start that may still be short was pressed after the last game.        *)
HoldInv == hold.short /\ ignore = "no" /\ ~running => hold.new

(* The remapping waits for the button that began it.                       *)
ArmInv ==
  capture # None =>
    /\ capture.early => capture.arming
    /\ starter # None => capture.arming /\ starter = <<capture.device, capture.armed>>

InputInv ==
  InputTypes /\ PlayInv /\ QueueInv /\ HoldInv /\ ArmInv /\ GamesHaveControls /\ GameInputIgnored

-----------------------------------------------------------------------------
(* The devices.                                                            *)

LEMMA PortLemma == \A i \in DOMAIN Ports : i \in Nat /\ Ports[i] \in Paths
BY EvdevInputAssumption

LEMMA EmptyLemma == <<>> \in Seq(Events)
OBVIOUS

(* What is wanted is there.                                                *)
LEMMA DesiredLemma ==
  ASSUME NEW at \in [Paths -> Pads \cup {None}]
  PROVE  Desired[at] \subseteq {p \in Paths : at[p] # None}
<1> DEFINE there == {p \in Paths : at[p] # None}
<1>1. ASSUME NEW Score, NEW without PROVE Best(at, Score, without) \subseteq there
  BY PortLemma DEF Best
<1>2. SelectPrimaryPath(at) \subseteq there
  BY <1>1, PortLemma DEF SelectPrimaryPath
<1>3. Desired[at] = (IF {p \in Paths : at[p] # None /\ IsGamepad(at[p])} # {}
                     THEN {p \in Paths : at[p] # None /\ IsGamepad(at[p])}
                     ELSE SelectPrimaryPath(at)) \cup Best(at, KeyboardScore, {})
  BY DEF Desired
<1> QED
  BY <1>1, <1>2, <1>3

LEMMA OpenLemma ==
  ASSUME NEW pad \in Pads, NEW how
  PROVE  /\ Open(pad, how) \in Devs \cup {None}
         /\ Open(pad, how) # None => Open(pad, how).unread = <<>>
<1> DEFINE d == [pad |-> pad, live |-> TRUE, grabbed |-> how = "grabbed",
                 refused |-> how = "open", unread |-> <<>>]
<1>1. d \in Devs /\ d.unread = <<>>
  BY EmptyLemma DEF Devs
<1>2. Open(pad, how) \in {None, d}
  BY DEF Open
<1> HIDE DEF d
<1> QED
  BY <1>1, <1>2

(* The devices after a look at the ports: known ones, or newly opened.     *)
LEMMA RefreshLemma ==
  ASSUME DeviceTypes, NEW how
  PROVE  LET d == RefreshDevices(devs, how)
         IN /\ d \in [Paths -> Devs \cup {None}]
            /\ \A p \in Paths : d[p] # None => d[p] = devs[p] \/ d[p].unread = <<>>
<1> DEFINE d == RefreshDevices(devs, how)
<1>1. ASSUME NEW p \in Paths
      PROVE  /\ d[p] \in Devs \cup {None}
             /\ d[p] # None => d[p] = devs[p] \/ d[p].unread = <<>>
  <2>1. CASE p \notin Desired[plugged]
    BY <2>1 DEF RefreshDevices
  <2>2. CASE p \in Desired[plugged] /\ devs[p] = None
    <3>1. plugged[p] \in Pads
      BY <2>2, DesiredLemma DEF DeviceTypes
    <3>2. d[p] = Open(plugged[p], how[p])
      BY <2>2 DEF RefreshDevices
    <3> QED
      BY <3>1, <3>2, OpenLemma
  <2>3. CASE p \in Desired[plugged] /\ devs[p] # None
    BY <2>3 DEF RefreshDevices, DeviceTypes
  <2> QED
    BY <2>1, <2>2, <2>3
<1>2. d = [p \in Paths |-> d[p]]
  BY DEF RefreshDevices
<1> QED
  BY <1>1, <1>2

LEMMA ReadLemma ==
  ASSUME NEW d \in [Paths -> Devs \cup {None}]
  PROVE  /\ AfterRead(d) \in [Paths -> Devs \cup {None}]
         /\ \A p \in Paths : AfterRead(d)[p] # None => AfterRead(d)[p].unread = <<>>
         /\ Read(d) \in [Paths -> Seq(Events)]
         /\ \A p \in Paths : Read(d)[p] = <<>> \/ (d[p] # None /\ Read(d)[p] = d[p].unread)
<1> DEFINE a == AfterRead(d)
           r == Read(d)
<1>1. ASSUME NEW p \in Paths
      PROVE  a[p] \in Devs \cup {None} /\ (a[p] # None => a[p].unread = <<>>)
  <2>1. a[p] = None \/ (d[p] # None /\ a[p] = [d[p] EXCEPT !.unread = <<>>])
    BY DEF AfterRead, RemoveDevices
  <2>2. ASSUME NEW x \in Devs
        PROVE  [x EXCEPT !.unread = <<>>] \in Devs /\ [x EXCEPT !.unread = <<>>].unread = <<>>
    BY EmptyLemma DEF Devs
  <2>3. d[p] \in Devs \cup {None}
    OBVIOUS
  <2> HIDE DEF a
  <2> QED
    BY <2>1, <2>2, <2>3
<1>2. ASSUME NEW p \in Paths
      PROVE  r[p] \in Seq(Events) /\ (r[p] = <<>> \/ (d[p] # None /\ r[p] = d[p].unread))
  <2>1. r[p] = <<>> \/ (d[p] # None /\ r[p] = d[p].unread)
    BY DEF Read
  <2>2. d[p] # None => d[p].unread \in Seq(Events)
    BY DEF Devs
  <2> HIDE DEF r
  <2> QED
    BY <2>1, <2>2, EmptyLemma
<1>3. a = [p \in Paths |-> a[p]] /\ r = [p \in Paths |-> r[p]]
  BY DEF AfterRead, Read
<1> QED
  BY <1>1, <1>2, <1>3

LEMMA PadsLemma ==
  ASSUME NEW d \in [Paths -> Devs \cup {None}]
  PROVE  PadsOf(d) \subseteq Pads
BY DEF PadsOf, Devs

-----------------------------------------------------------------------------
(* The steps of devices, games, time and fingers.                          *)

LEMMA ShellSame ==
  ASSUME InputInv, UNCHANGED <<shell, ignore, running>>
  PROVE  /\ ScreenTypes' /\ HoldInv' /\ ArmInv' /\ GameInputIgnored'
         /\ ignore' \in {"no", "unread", "read"} /\ running' \in BOOLEAN /\ gamePress' \in BOOLEAN
<1>1. ScreenTypes' /\ gamePress' \in BOOLEAN
  BY DEF InputInv, InputTypes, ScreenTypes, CaptureTypes, shell
<1>2. HoldInv' /\ ArmInv' /\ GameInputIgnored'
  BY DEF InputInv, HoldInv, ArmInv, GameInputIgnored, shell
<1>3. ignore' \in {"no", "unread", "read"} /\ running' \in BOOLEAN
  BY DEF InputInv, InputTypes
<1> QED
  BY <1>1, <1>2, <1>3

(* A device that has read everything has nothing of a game left.           *)
LEMMA PollIInv ==
  ASSUME InputInv, NEW due \in BOOLEAN, NEW how, PollDevices(due, how) PROVE InputInv'
<1> DEFINE d == IF due THEN RefreshDevices(devs, how) ELSE devs
<1>1. /\ ~running /\ ~waiting /\ Handled /\ changed' = FALSE
      /\ devs' = AfterRead(d) /\ frame' = Read(d)
      /\ known' = (IF changed \/ Changed(devs, d) \/ Hung(d) # {} THEN PadsOf(devs') ELSE known)
      /\ ignore' = (IF ignore = "unread" THEN "read" ELSE ignore)
      /\ UNCHANGED <<plugged, down, running, shell, moves, games>>
  BY DEF PollDevices
<1>2. DeviceTypes /\ ignore \in {"no", "unread", "read"} /\ running \in BOOLEAN
  BY DEF InputInv, InputTypes
<1>3. /\ d \in [Paths -> Devs \cup {None}]
      /\ \A p \in Paths : d[p] # None => d[p] = devs[p] \/ d[p].unread = <<>>
  BY <1>2, RefreshLemma DEF DeviceTypes
<1> HIDE DEF d
<1>4. /\ devs' \in [Paths -> Devs \cup {None}]
      /\ \A p \in Paths : devs'[p] # None => devs'[p].unread = <<>>
      /\ frame' \in [Paths -> Seq(Events)]
      /\ \A p \in Paths : frame'[p] = <<>> \/ (d[p] # None /\ frame'[p] = d[p].unread)
  BY <1>1, <1>3, ReadLemma
<1>5. DeviceTypes'
  BY <1>1, <1>2, <1>4, PadsLemma DEF DeviceTypes
<1>6. ScreenTypes' /\ ArmInv' /\ GameInputIgnored' /\ gamePress' \in BOOLEAN /\ waiting' = waiting
      /\ hold' = hold
  BY <1>1 DEF InputInv, InputTypes, ScreenTypes, CaptureTypes, ArmInv, GameInputIgnored, shell
<1>7. InputTypes'
  BY <1>1, <1>2, <1>5, <1>6 DEF InputInv, InputTypes
<1>8. PlayInv' /\ HoldInv' /\ GamesHaveControls'
  BY <1>1, <1>2, <1>6 DEF InputInv, PlayInv, HoldInv, GamesHaveControls
<1>9. QueueInv'
  <2>1. ASSUME NEW p \in Paths, NEW i \in DOMAIN frame'[p], InGame(frame'[p][i])
        PROVE  ignore' = "read"
    <3>1. d[p] # None /\ frame'[p] = d[p].unread /\ d[p].unread # <<>>
      BY <1>4, <2>1
    <3>2. devs[p] # None /\ frame'[p] = devs[p].unread
      BY <1>3, <3>1
    <3>3. ignore = "unread"
      BY <1>1, <2>1, <3>2 DEF InputInv, QueueInv
    <3> QED
      BY <1>1, <3>3
  <2> QED
    BY <1>4, <2>1 DEF QueueInv
<1> QED
  BY <1>6, <1>7, <1>8, <1>9 DEF InputInv

(* The same devices, but for the grabs.                                    *)
Regrab(x, b, c) == [x EXCEPT !.grabbed = b, !.refused = c]

LEMMA RegrabLemma ==
  ASSUME NEW x \in Devs, NEW b \in BOOLEAN, NEW c \in BOOLEAN
  PROVE  /\ Regrab(x, b, c) \in Devs /\ Regrab(x, b, c).live = x.live
         /\ Regrab(x, b, c).unread = x.unread /\ Regrab(x, b, c).grabbed = b
BY DEF Devs, Regrab

LEMMA GrabLemma ==
  ASSUME NEW d \in [Paths -> Devs \cup {None}], NEW g, NEW f, NEW e,
         \A p \in Paths : d[p] # None => g[p] \in BOOLEAN /\ f[p] \in BOOLEAN,
         e = [p \in Paths |-> IF d[p] = None THEN None ELSE Regrab(d[p], g[p], f[p])]
  PROVE  /\ e \in [Paths -> Devs \cup {None}]
         /\ \A p \in Paths : e[p] # None =>
              /\ d[p] # None /\ e[p].live = d[p].live /\ e[p].unread = d[p].unread
              /\ e[p].grabbed = g[p]
<1>1. ASSUME NEW p \in Paths
      PROVE  /\ e[p] \in Devs \cup {None}
             /\ e[p] # None =>
                  /\ d[p] # None /\ e[p].live = d[p].live /\ e[p].unread = d[p].unread
                  /\ e[p].grabbed = g[p]
  BY RegrabLemma
<1> QED
  BY <1>1

LEMMA RunGameIInv == ASSUME InputInv, RunGame PROVE InputInv'
<1>1. /\ waiting /\ Handled /\ waiting' = FALSE /\ running' = TRUE /\ games' = games + 1
      /\ devs' = ReleaseDeviceGrabs
      /\ UNCHANGED <<plugged, down, changed, known, frame, ignore, hold, screen, capture,
                     profiles, starter, gamePress, moves>>
  BY DEF RunGame
<1>2. DeviceTypes /\ ignore = "no" /\ ~running
  BY <1>1 DEF InputInv, InputTypes, PlayInv
<1>3. /\ devs' \in [Paths -> Devs \cup {None}]
      /\ \A p \in Paths : devs'[p] # None =>
           /\ devs[p] # None /\ devs'[p].live = devs[p].live
           /\ devs'[p].unread = devs[p].unread
           /\ devs'[p].grabbed = (devs[p].grabbed /\ ~devs[p].live)
  <2> DEFINE g == [p \in Paths |-> devs[p].grabbed /\ ~devs[p].live]
             f == [p \in Paths |-> FALSE]
  <2>1. \A p \in Paths : devs[p] # None => g[p] \in BOOLEAN /\ f[p] \in BOOLEAN
    BY <1>2 DEF DeviceTypes, Devs
  <2>2. devs' = [p \in Paths |-> IF devs[p] = None THEN None ELSE Regrab(devs[p], g[p], f[p])]
    BY <1>1 DEF ReleaseDeviceGrabs, Regrab
  <2>3. \A p \in Paths : g[p] = (devs[p].grabbed /\ ~devs[p].live)
    OBVIOUS
  <2> HIDE DEF g, f
  <2>0. devs \in [Paths -> Devs \cup {None}]
    BY <1>2 DEF DeviceTypes
  <2>4. /\ devs' \in [Paths -> Devs \cup {None}]
        /\ \A p \in Paths : devs'[p] # None =>
             /\ devs[p] # None /\ devs'[p].live = devs[p].live
             /\ devs'[p].unread = devs[p].unread /\ devs'[p].grabbed = g[p]
    BY <2>0, <2>1, <2>2, GrabLemma
  <2> QED
    BY <2>3, <2>4
<1>4. InputTypes'
  <2>1. DeviceTypes'
    BY <1>1, <1>2, <1>3 DEF DeviceTypes
  <2>2. ScreenTypes'
    BY <1>1 DEF InputInv, InputTypes, ScreenTypes, CaptureTypes
  <2> QED
    BY <1>1, <1>2, <2>1, <2>2 DEF InputInv, InputTypes
<1>5. PlayInv' /\ HoldInv' /\ ArmInv' /\ GameInputIgnored'
  BY <1>1, <1>2 DEF InputInv, PlayInv, HoldInv, ArmInv, GameInputIgnored, Handled
<1>6. QueueInv'
  BY <1>1, <1>2, <1>3 DEF InputInv, QueueInv
<1>7. GamesHaveControls'
  BY <1>3 DEF GamesHaveControls
<1> QED
  BY <1>4, <1>5, <1>6, <1>7 DEF InputInv

LEMMA GameEndsIInv == ASSUME InputInv, NEW how, GameEnds(how) PROVE InputInv'
<1> DEFINE d == RefreshDevices(devs, how)
           g == [p \in Paths |-> Grabs(d[p], how[p])]
           f == [p \in Paths |-> ~Grabs(d[p], how[p])]
<1>1. /\ running /\ running' = FALSE /\ devs' = AcquireDeviceGrabs(how)
      /\ changed' = (changed \/ Changed(devs, devs')) /\ ignore' = "unread"
      /\ screen' \in {"menu", screen} /\ hold' = [hold EXCEPT !.new = FALSE]
      /\ UNCHANGED <<plugged, down, known, frame, capture, profiles, waiting, starter,
                     gamePress, moves, games>>
  BY DEF GameEnds, IgnoreFromNow
<1>2. DeviceTypes /\ ScreenTypes /\ ~waiting /\ Handled
  BY <1>1 DEF InputInv, InputTypes, PlayInv
<1>3. d \in [Paths -> Devs \cup {None}]
  BY <1>2, RefreshLemma
<1>4. devs' \in [Paths -> Devs \cup {None}]
  <2>1. devs' = [p \in Paths |-> IF d[p] = None THEN None ELSE Regrab(d[p], g[p], f[p])]
    BY <1>1 DEF AcquireDeviceGrabs, Regrab
  <2> HIDE DEF d
  <2>2. \A p \in Paths : d[p] # None => g[p] \in BOOLEAN /\ f[p] \in BOOLEAN
    BY <1>3 DEF Grabs, Devs
  <2> HIDE DEF g, f
  <2> QED
    BY <1>3, <2>1, <2>2, GrabLemma
<1>5. InputTypes'
  <2>1. changed' \in BOOLEAN
    BY <1>1, <1>2 DEF DeviceTypes, Changed
  <2>2. DeviceTypes'
    BY <1>1, <1>2, <1>4, <2>1 DEF DeviceTypes
  <2>3. hold' \in Holds
    BY <1>1, <1>2 DEF ScreenTypes, Holds
  <2>4. ScreenTypes'
    BY <1>1, <1>2, <2>3 DEF ScreenTypes, CaptureTypes
  <2> QED
    BY <1>1, <2>2, <2>4 DEF InputInv, InputTypes
<1>6. PlayInv' /\ HoldInv' /\ ArmInv' /\ GamesHaveControls' /\ GameInputIgnored'
  BY <1>1, <1>2 DEF InputInv, PlayInv, HoldInv, ArmInv, GamesHaveControls, GameInputIgnored
<1>7. QueueInv'
  BY <1>1, <1>2 DEF QueueInv, Handled
<1> QED
  BY <1>5, <1>6, <1>7 DEF InputInv

LEMMA IgnoreEndsIInv == ASSUME InputInv, IgnoreEnds PROVE InputInv'
<1>1. /\ ignore = "read" /\ Handled /\ ignore' = "no" /\ hold' = [hold EXCEPT !.short = FALSE]
      /\ UNCHANGED <<plugged, down, devs, changed, known, frame, screen, capture, profiles,
                     waiting, running, starter, gamePress, moves, games>>
  BY DEF IgnoreEnds
<1>2. DeviceTypes /\ ScreenTypes /\ ~waiting /\ ~running
  BY <1>1 DEF InputInv, InputTypes, PlayInv
<1>3. hold' \in Holds /\ hold'.short = FALSE
  BY <1>1, <1>2 DEF ScreenTypes, Holds
<1>4. DeviceTypes' /\ ScreenTypes'
  BY <1>1, <1>2, <1>3 DEF DeviceTypes, ScreenTypes, CaptureTypes
<1>5. InputTypes'
  BY <1>1, <1>4 DEF InputInv, InputTypes
<1>6. PlayInv' /\ HoldInv' /\ ArmInv' /\ GamesHaveControls' /\ GameInputIgnored'
  BY <1>1, <1>2, <1>3 DEF InputInv, PlayInv, HoldInv, ArmInv, GamesHaveControls, GameInputIgnored
<1>7. QueueInv'
  BY <1>1, <1>2 DEF InputInv, QueueInv, Handled
<1> QED
  BY <1>5, <1>6, <1>7 DEF InputInv

LEMMA ArmDelayEndsIInv == ASSUME InputInv, ArmDelayEnds PROVE InputInv'
<1>1. /\ capture # None /\ capture' = [capture EXCEPT !.early = FALSE]
      /\ UNCHANGED <<plugged, down, devs, changed, known, frame, ignore, hold, screen, profiles,
                     waiting, running, starter, gamePress, moves, games>>
  BY DEF ArmDelayEnds
<1>2. DeviceTypes /\ ScreenTypes /\ capture \in Captures
  BY <1>1 DEF InputInv, InputTypes, ScreenTypes, CaptureTypes
<1>3. /\ capture' \in Captures /\ ~capture'.early /\ capture'.arming = capture.arming
      /\ capture'.device = capture.device /\ capture'.armed = capture.armed
  BY <1>1, <1>2 DEF Captures
<1>4. DeviceTypes' /\ ScreenTypes'
  BY <1>1, <1>2, <1>3 DEF DeviceTypes, ScreenTypes, CaptureTypes
<1>5. InputTypes'
  BY <1>1, <1>4 DEF InputInv, InputTypes
<1>6. PlayInv' /\ QueueInv' /\ HoldInv' /\ GamesHaveControls' /\ GameInputIgnored'
  BY <1>1 DEF InputInv, PlayInv, Handled, QueueInv, HoldInv, GamesHaveControls, GameInputIgnored
<1>7. ArmInv'
  BY <1>1, <1>3 DEF InputInv, ArmInv
<1> QED
  BY <1>5, <1>6, <1>7 DEF InputInv

(* What a key adds to a queue, and that it changes nothing else.           *)
LEMMA KeyLemma ==
  ASSUME DeviceTypes, NEW p \in Paths, plugged[p] # None, NEW b \in Buttons,
         NEW press \in BOOLEAN, NEW game \in BOOLEAN, Key(p, b, press, game)
  PROVE  /\ devs' \in [Paths -> Devs \cup {None}]
         /\ \A q \in Paths : devs'[q] # None =>
              /\ devs[q] # None /\ devs'[q].live = devs[q].live
              /\ devs'[q].grabbed = devs[q].grabbed
              /\ \A i \in DOMAIN devs'[q].unread :
                   \/ i \in DOMAIN devs[q].unread /\ devs'[q].unread[i] = devs[q].unread[i]
                   \/ InGame(devs'[q].unread[i]) => press /\ game
<1> DEFINE e == [pad |-> plugged[p], button |-> b, press |-> press, game |-> game]
<1>1. CASE devs[p] = None \/ ~devs[p].live
  BY <1>1 DEF Key, DeviceTypes
<1>2. CASE devs[p] # None /\ devs[p].live
  <2>1. devs' = [devs EXCEPT ![p].unread = Append(@, e)]
    BY <1>2 DEF Key
  <2>2. devs[p] \in Devs /\ plugged[p] \in Pads
    BY <1>2 DEF DeviceTypes
  <2>3. e \in Events /\ (InGame(e) => press /\ game)
    BY <2>2 DEF Events, InGame
  <2> HIDE DEF e
  <2> DEFINE u == devs[p].unread
             v == Append(u, e)
             x == [devs[p] EXCEPT !.unread = v]
  <2>4. u \in Seq(Events)
    BY <2>2 DEF Devs
  <2>5. v \in Seq(Events)
    BY <2>3, <2>4
  <2>6. \A i \in DOMAIN v : (i \in DOMAIN u /\ v[i] = u[i]) \/ v[i] = e
    BY <2>3, <2>4
  <2>7. devs' = [devs EXCEPT ![p] = x]
    BY <1>2, <2>1
  <2> HIDE DEF v
  <2>8. x \in Devs /\ x.live = devs[p].live /\ x.grabbed = devs[p].grabbed /\ x.unread = v
    BY <2>2, <2>5 DEF Devs
  <2> HIDE DEF x
  <2>9. devs' \in [Paths -> Devs \cup {None}]
    BY <2>7, <2>8 DEF DeviceTypes
  <2>10. \A q \in Paths : devs'[q] = IF q = p THEN x ELSE devs[q]
    BY <2>7 DEF DeviceTypes
  <2> QED
    BY <1>2, <2>3, <2>6, <2>8, <2>9, <2>10
<1> QED
  BY <1>1, <1>2

(* A key of a device; a press now is one of the game that runs.            *)
LEMMA KeyIInv ==
  ASSUME InputInv, NEW p \in Paths, plugged[p] # None, NEW b \in Buttons,
         NEW press \in BOOLEAN, NEW game \in BOOLEAN, Key(p, b, press, game),
         press => game = running,
         down' \subseteq [pad : Pads, button : Buttons, game : BOOLEAN], moves' \in Nat,
         UNCHANGED <<plugged, changed, known, frame, ignore, running, shell, games>>
  PROVE  InputInv'
<1>1. DeviceTypes /\ running \in BOOLEAN /\ ignore \in {"no", "unread", "read"}
  BY DEF InputInv, InputTypes
<1>2. /\ devs' \in [Paths -> Devs \cup {None}]
      /\ \A q \in Paths : devs'[q] # None =>
           /\ devs[q] # None /\ devs'[q].live = devs[q].live
           /\ devs'[q].grabbed = devs[q].grabbed
           /\ \A i \in DOMAIN devs'[q].unread :
                \/ i \in DOMAIN devs[q].unread /\ devs'[q].unread[i] = devs[q].unread[i]
                \/ InGame(devs'[q].unread[i]) => press /\ game
  BY <1>1, KeyLemma
<1>3. DeviceTypes'
  BY <1>1, <1>2 DEF DeviceTypes
<1>4. InputTypes' /\ HoldInv' /\ ArmInv' /\ GameInputIgnored'
  BY <1>3, ShellSame DEF InputInv, InputTypes
<1>5. PlayInv'
  BY DEF InputInv, PlayInv, Handled, shell
<1>6. GamesHaveControls'
  BY <1>2 DEF InputInv, GamesHaveControls
<1>7. QueueInv'
  BY <1>1, <1>2 DEF InputInv, QueueInv
<1> QED
  BY <1>4, <1>5, <1>6, <1>7 DEF InputInv

LEMMA PressKeyIInv ==
  ASSUME InputInv, NEW p \in Paths, NEW b \in Buttons, PressKey(p, b) PROVE InputInv'
<1>1. DeviceTypes /\ running \in BOOLEAN /\ moves \in Nat
  BY DEF InputInv, InputTypes
<1>2. /\ plugged[p] # None /\ moves' = moves + 1
      /\ down' = down \cup {[pad |-> plugged[p], button |-> b, game |-> running]}
      /\ Key(p, b, TRUE, running)
      /\ UNCHANGED <<plugged, changed, known, frame, ignore, running, shell, games>>
  BY DEF PressKey
<1>3. down' \subseteq [pad : Pads, button : Buttons, game : BOOLEAN] /\ moves' \in Nat
  BY <1>1, <1>2 DEF DeviceTypes
<1> QED
  BY <1>1, <1>2, <1>3, KeyIInv

LEMMA RepeatKeyIInv ==
  ASSUME InputInv, NEW p \in Paths, RepeatKey(p) PROVE InputInv'
<1>1. PICK k \in down : k.pad = plugged[p] /\ Key(p, k.button, TRUE, running)
  BY DEF RepeatKey
<1>2. /\ moves' = moves + 1
      /\ UNCHANGED <<plugged, down, changed, known, frame, ignore, running, shell, games>>
  BY DEF RepeatKey
<1>3. DeviceTypes /\ moves \in Nat /\ running \in BOOLEAN
  BY DEF InputInv, InputTypes
<1>4. k.pad \in Pads /\ k.button \in Buttons
  BY <1>3 DEF DeviceTypes
<1>5. plugged[p] # None
  BY <1>1, <1>4, EvdevInputAssumption
<1>6. down' \subseteq [pad : Pads, button : Buttons, game : BOOLEAN] /\ moves' \in Nat
  BY <1>2, <1>3 DEF DeviceTypes
<1> QED
  BY <1>1, <1>2, <1>3, <1>4, <1>5, <1>6, KeyIInv

LEMMA ReleaseKeyIInv ==
  ASSUME InputInv, NEW p \in Paths, ReleaseKey(p) PROVE InputInv'
<1>1. PICK k \in down : k.pad = plugged[p] /\ down' = down \ {k} /\ Key(p, k.button, FALSE, k.game)
  BY DEF ReleaseKey
<1>2. UNCHANGED <<plugged, changed, known, frame, ignore, running, shell, moves, games>>
  BY DEF ReleaseKey
<1>3. DeviceTypes /\ moves \in Nat
  BY DEF InputInv, InputTypes
<1>4. k.pad \in Pads /\ k.button \in Buttons /\ k.game \in BOOLEAN
  BY <1>3 DEF DeviceTypes
<1>5. plugged[p] # None
  BY <1>1, <1>4, EvdevInputAssumption
<1>6. down' \subseteq [pad : Pads, button : Buttons, game : BOOLEAN] /\ moves' \in Nat
  BY <1>1, <1>2, <1>3 DEF DeviceTypes
<1> QED
  BY <1>1, <1>2, <1>4, <1>5, <1>6, KeyIInv

LEMMA UnplugIInv ==
  ASSUME InputInv, NEW p \in Paths, Unplug(p) PROVE InputInv'
<1>1. /\ moves' = moves + 1 /\ plugged' = [plugged EXCEPT ![p] = None]
      /\ down' = {k \in down : k.pad # plugged[p]}
      /\ devs' = (IF devs[p] = None THEN devs ELSE [devs EXCEPT ![p].live = FALSE])
      /\ UNCHANGED <<changed, known, frame, ignore, running, shell, games>>
  BY DEF Unplug
<1>2. DeviceTypes /\ moves \in Nat
  BY DEF InputInv, InputTypes
<1>3. /\ devs' \in [Paths -> Devs \cup {None}]
      /\ \A q \in Paths : devs'[q] # None =>
           /\ devs[q] # None /\ (devs'[q].live => devs[q].live)
           /\ devs'[q].grabbed = devs[q].grabbed /\ devs'[q].unread = devs[q].unread
  <2>1. CASE devs[p] = None
    BY <1>1, <1>2, <2>1 DEF DeviceTypes
  <2>2. CASE devs[p] # None
    <3> DEFINE x == [devs[p] EXCEPT !.live = FALSE]
    <3>1. devs' = [devs EXCEPT ![p] = x]
      BY <1>1, <2>2
    <3>2. x \in Devs /\ ~x.live /\ x.grabbed = devs[p].grabbed /\ x.unread = devs[p].unread
      BY <1>2, <2>2 DEF DeviceTypes, Devs
    <3> HIDE DEF x
    <3> QED
      BY <1>2, <2>2, <3>1, <3>2 DEF DeviceTypes
  <2> QED
    BY <2>1, <2>2
<1>4. DeviceTypes'
  BY <1>1, <1>2, <1>3 DEF DeviceTypes
<1>5. InputTypes' /\ HoldInv' /\ ArmInv' /\ GameInputIgnored'
  BY <1>1, <1>2, <1>4, ShellSame DEF InputInv, InputTypes
<1>6. PlayInv'
  BY <1>1 DEF InputInv, PlayInv, Handled, shell
<1>7. GamesHaveControls' /\ QueueInv'
  BY <1>1, <1>3 DEF InputInv, GamesHaveControls, QueueInv
<1> QED
  BY <1>5, <1>6, <1>7 DEF InputInv

LEMMA PlugIInv ==
  ASSUME InputInv, NEW p \in Paths, NEW pad \in Pads, Plug(p, pad) PROVE InputInv'
<1>1. /\ plugged' = [plugged EXCEPT ![p] = pad]
      /\ UNCHANGED <<down, devs, changed, known, frame, ignore, running, shell, moves, games>>
  BY DEF Plug
<1>2. DeviceTypes'
  BY <1>1 DEF InputInv, InputTypes, DeviceTypes
<1>3. InputTypes' /\ HoldInv' /\ ArmInv' /\ GameInputIgnored'
  BY <1>1, <1>2, ShellSame DEF InputInv, InputTypes
<1>4. PlayInv' /\ GamesHaveControls' /\ QueueInv'
  BY <1>1 DEF InputInv, PlayInv, Handled, GamesHaveControls, QueueInv, shell
<1> QED
  BY <1>3, <1>4 DEF InputInv

-----------------------------------------------------------------------------
(* One event.                                                              *)

LEMMA IdentityLemma == Identity \in Profile
BY DEF Identity, Profile

(* A remapping that begins waits for the button that began it.             *)
LEMMA BeginLemma ==
  ASSUME CaptureTypes, NEW e \in Events, BeginCapture(e)
  PROVE  CaptureTypes' /\ ArmInv'
<1> DEFINE f == IF profiles[e.pad] = None THEN Identity ELSE profiles[e.pad]
           c == [device |-> e.pad, step |-> 1, arming |-> TRUE, early |-> TRUE,
                 armed |-> e.button, profile |-> f]
<1>1. capture' = c /\ starter' = <<e.pad, e.button>> /\ profiles' = profiles
  BY DEF BeginCapture
<1>2. e.pad \in Pads /\ e.button \in Buttons
  BY DEF Events
<1>3. f \in Profile
  BY <1>2, IdentityLemma DEF CaptureTypes
<1>4. 1 \in 1..Len(CaptureOrder)
  BY EvdevInputAssumption
<1> HIDE DEF f
<1>5. /\ c \in Captures /\ c.arming /\ c.device = e.pad /\ c.armed = e.button
  BY <1>2, <1>3, <1>4 DEF Captures
<1> HIDE DEF c
<1> QED
  BY <1>1, <1>2, <1>5 DEF CaptureTypes, ArmInv

LEMMA AssignedLemma ==
  ASSUME NEW e \in Events, capture \in Captures
  PROVE  Assigned(e) \in Profile
<1>1. /\ e.button \in Buttons /\ capture.profile \in Profile
      /\ CaptureOrder[capture.step] \in Buttons
  BY EvdevInputAssumption DEF Events, Captures
<1>2. ASSUME NEW f \in Profile, NEW b \in Buttons, NEW t \in Buttons
      PROVE  [f EXCEPT !.keys[b] = t] \in Profile /\ [f EXCEPT !.map[b] = t] \in Profile
  <2>1. /\ [f.keys EXCEPT ![b] = t] \in [Buttons -> Buttons \cup {None}]
        /\ [f.map EXCEPT ![b] = t] \in [Buttons -> Buttons]
    BY DEF Profile
  <2> QED
    BY <2>1 DEF Profile
<1> QED
  BY <1>1, <1>2 DEF Assigned

LEMMA NextStepLemma ==
  ASSUME capture \in Captures, NEW f \in Profile, NextStep(f)
  PROVE  /\ capture' \in Captures \cup {None}
         /\ capture' # None => capture'.early = capture.early
<1>1. CASE capture.step = Len(CaptureOrder)
  BY <1>1 DEF NextStep
<1>2. CASE capture.step # Len(CaptureOrder)
  <2>1. capture' = [capture EXCEPT !.step = capture.step + 1, !.arming = FALSE, !.profile = f]
    BY <1>2 DEF NextStep, Captures
  <2>2. capture.step + 1 \in 1..Len(CaptureOrder)
    BY <1>2, EvdevInputAssumption DEF Captures
  <2> QED
    BY <2>1, <2>2 DEF Captures
<1> QED
  BY <1>1, <1>2

(* An event of a remapping; nothing is assigned while it waits.            *)
LEMMA CaptureLemma ==
  ASSUME CaptureTypes, ArmInv, NEW e \in Events, capture # None, HandleCaptureInputEvent(e)
  PROVE  /\ CaptureTypes' /\ ArmInv' /\ UNCHANGED <<hold, screen, waiting>>
         /\ <<e.pad, e.button>> = starter => UNCHANGED profiles
<1>1. /\ IF e.pad # capture.device \/ (Arming(e) /\ (capture.early \/ e.press))
         THEN UNCHANGED <<capture, profiles>>
         ELSE IF Arming(e) \/ e.press
         THEN capture' = [capture EXCEPT !.arming = FALSE] /\ UNCHANGED profiles
         ELSE CaptureRelease(e)
      /\ starter' = (IF /\ e.pad = capture.device /\ ~capture.early
                        /\ ~(e.press /\ <<e.pad, e.button>> = starter)
                     THEN None ELSE starter)
      /\ UNCHANGED <<hold, screen, waiting>>
  BY DEF HandleCaptureInputEvent
<1>2. capture \in Captures
  BY DEF CaptureTypes
<1>3. capture.early => capture.arming /\ Arming(e)
  BY DEF ArmInv, Arming
<1>4. CASE UNCHANGED <<capture, profiles>>
  BY <1>1, <1>4 DEF CaptureTypes, ArmInv
<1>0. e.pad \in Pads /\ e.button \in Buttons
  BY DEF Events
(* A repeat of the button that began it is of no consequence.              *)
<1>8. ASSUME <<e.pad, e.button>> = starter
      PROVE  Arming(e)
  <2>1. starter # None
    BY <1>0, <1>8, EvdevInputAssumption
  <2> QED
    BY <1>8, <2>1 DEF ArmInv, Arming
<1>5. CASE /\ e.pad = capture.device /\ ~capture.early /\ ~(Arming(e) /\ e.press)
           /\ capture' = [capture EXCEPT !.arming = FALSE] /\ UNCHANGED profiles
  <2>1. capture' \in Captures /\ ~capture'.early
    BY <1>2, <1>5 DEF Captures
  <2>2. starter' = None
    BY <1>1, <1>5, <1>8
  <2> QED
    BY <1>1, <1>5, <2>1, <2>2 DEF CaptureTypes, ArmInv
<1>6. CASE e.pad = capture.device /\ ~capture.early /\ ~Arming(e) /\ CaptureRelease(e)
  <2>1. starter' = None
    BY <1>1, <1>6, <1>8
  <2>2. capture.profile \in Profile /\ Assigned(e) \in Profile
    BY <1>2, AssignedLemma DEF Captures
  <2>3. \E f \in {Assigned(e), capture.profile} : NextStep(f)
    BY <1>6 DEF CaptureRelease
  <2>4. /\ capture' \in Captures \cup {None}
        /\ capture' # None => capture'.early = capture.early
    BY <1>2, <2>2, <2>3, NextStepLemma
  <2>5. profiles' \in [Pads -> Profile \cup {None}]
    BY <1>6, <2>2 DEF CaptureRelease, CaptureTypes
  <2>6. <<e.pad, e.button>> # starter
    BY <1>6, <1>8
  <2>7. CaptureTypes' /\ ArmInv'
    BY <1>6, <2>1, <2>4, <2>5 DEF CaptureTypes, ArmInv
  <2> QED
    BY <1>1, <2>6, <2>7
<1>7. \/ UNCHANGED <<capture, profiles>>
      \/ /\ e.pad = capture.device /\ ~capture.early /\ ~(Arming(e) /\ e.press)
         /\ capture' = [capture EXCEPT !.arming = FALSE] /\ UNCHANGED profiles
      \/ e.pad = capture.device /\ ~capture.early /\ ~Arming(e) /\ CaptureRelease(e)
  BY <1>1, <1>3
<1> QED
  BY <1>4, <1>5, <1>6, <1>7

(* A button moves nothing but the screen, the remapping and the launch.    *)
LEMMA ButtonLemma ==
  ASSUME ScreenTypes, ArmInv, NEW e \in Events, NEW b, HandleButton(b, e)
  PROVE  /\ CaptureTypes' /\ ArmInv' /\ screen' \in {"menu", "setup"} /\ waiting' \in BOOLEAN
<1>1. CASE screen = "menu"
  <2>1. UNCHANGED <<capture, profiles, starter>>
    BY <1>1 DEF HandleButton
  <2>2. screen' \in {"menu", "setup"} /\ waiting' \in BOOLEAN
    BY <1>1 DEF HandleButton, ScreenTypes
  <2> QED
    BY <2>1, <2>2 DEF ScreenTypes, CaptureTypes, ArmInv
<1>2. CASE screen # "menu"
  <2>1. /\ UNCHANGED waiting
        /\ \/ BeginCapture(e) /\ UNCHANGED screen
           \/ profiles' = [profiles EXCEPT ![e.pad] = None] /\ UNCHANGED <<screen, capture, starter>>
           \/ screen' = "menu" /\ UNCHANGED <<capture, profiles, starter>>
           \/ UNCHANGED <<screen, capture, profiles, starter>>
    BY <1>2 DEF HandleButton
  <2>2. CASE BeginCapture(e) /\ UNCHANGED screen
    BY <2>1, <2>2, BeginLemma DEF ScreenTypes
  <2>3. CASE /\ profiles' = [profiles EXCEPT ![e.pad] = None]
             /\ UNCHANGED <<screen, capture, starter>>
    BY <2>1, <2>3 DEF ScreenTypes, CaptureTypes, ArmInv
  <2>4. CASE screen' = "menu" /\ UNCHANGED <<capture, profiles, starter>>
    BY <2>1, <2>4 DEF ScreenTypes, CaptureTypes, ArmInv
  <2>5. CASE UNCHANGED <<screen, capture, profiles, starter>>
    BY <2>1, <2>5 DEF ScreenTypes, CaptureTypes, ArmInv
  <2> QED
    BY <2>1, <2>2, <2>3, <2>4, <2>5
<1> QED
  BY <1>1, <1>2

(* A release does something only as the end of a Start that may have been  *)
(* short.                                                                  *)
LEMMA ShellButtonLemma ==
  ASSUME ScreenTypes, ArmInv, NEW e \in Events, NEW b, ShellButton(b, e)
  PROVE  /\ ScreenTypes' /\ ArmInv'
         /\ hold'.short => hold'.new \/ (hold.short /\ hold'.new = hold.new)
         /\ ~e.press /\ ~hold.short => ~Moved /\ ~(hold'.chord /\ ~hold.chord)
<1>0. hold \in Holds /\ e.press \in BOOLEAN
  BY DEF ScreenTypes, Events
<1>1. CASE b = "Start" /\ e.press
  <2>1. /\ hold' = hold \/ (hold' \in Holds /\ hold'.new)
        /\ UNCHANGED <<screen, capture, profiles, waiting, starter>>
    <3> DEFINE h == [held |-> TRUE, chord |-> FALSE, short |-> TRUE, new |-> TRUE]
    <3>1. h \in Holds /\ h.new
      BY DEF Holds
    <3>2. StartPressed
      BY <1>1 DEF ShellButton
    <3> QED
      BY <3>1, <3>2 DEF StartPressed
  <2> QED
    BY <1>0, <1>1, <2>1 DEF ScreenTypes, CaptureTypes, ArmInv
<1>2. CASE b = "Start" /\ ~e.press
  <2>1. StartReleased(e)
    BY <1>2 DEF ShellButton
  <2>2. /\ hold' \in Holds /\ ~hold'.chord /\ hold'.short = hold.short /\ hold'.new = hold.new
    BY <1>0, <2>1 DEF StartReleased, Holds
  <2>3. \/ hold.short /\ HandleButton("Start", e)
        \/ UNCHANGED <<screen, capture, profiles, waiting, starter>>
    BY <2>1 DEF StartReleased
  <2>4. CASE hold.short /\ HandleButton("Start", e)
    BY <2>2, <2>4, ButtonLemma DEF ScreenTypes
  <2>5. CASE UNCHANGED <<screen, capture, profiles, waiting, starter>>
    BY <2>2, <2>5 DEF ScreenTypes, CaptureTypes, ArmInv, Moved
  <2> QED
    BY <2>3, <2>4, <2>5
<1>3. CASE b # "Start" /\ (b = None \/ ~e.press)
  <2>1. UNCHANGED <<hold, screen, capture, profiles, waiting, starter>>
    BY <1>3 DEF ShellButton
  <2> QED
    BY <2>1 DEF ScreenTypes, CaptureTypes, ArmInv, Moved
<1>4. CASE b # "Start" /\ b # None /\ e.press
  <2>1. AdjustVolume \/ (HandleButton(b, e) /\ UNCHANGED hold)
    BY <1>4 DEF ShellButton
  <2>2. CASE AdjustVolume
    <3>1. hold' \in Holds /\ hold'.short = hold.short /\ hold'.new = hold.new
      BY <1>0, <2>2 DEF AdjustVolume, Holds
    <3> QED
      BY <1>4, <2>2, <3>1 DEF AdjustVolume, ScreenTypes, CaptureTypes, ArmInv
  <2>3. CASE HandleButton(b, e) /\ UNCHANGED hold
    BY <1>4, <2>3, ButtonLemma DEF ScreenTypes
  <2> QED
    BY <2>1, <2>2, <2>3
<1> QED
  BY <1>0, <1>1, <1>2, <1>3, <1>4

LEMMA HeadLemma ==
  ASSUME DeviceTypes, NEW p \in Paths, frame[p] # <<>>
  PROVE  /\ Head(frame[p]) \in Events /\ 1 \in DOMAIN frame[p] /\ Head(frame[p]) = frame[p][1]
         /\ Tail(frame[p]) \in Seq(Events)
         /\ \A i \in DOMAIN Tail(frame[p]) :
              i + 1 \in DOMAIN frame[p] /\ Tail(frame[p])[i] = frame[p][i + 1]
BY DEF DeviceTypes

LEMMA HandleEventIInv ==
  ASSUME InputInv, NEW p \in Paths, HandleEvent(p) PROVE InputInv'
<1> DEFINE e == Head(frame[p])
<1>1. /\ ~running /\ frame[p] # <<>>
      /\ IF Ignored THEN UNCHANGED <<hold, screen, capture, profiles, waiting, starter>>
         ELSE IF Remapping THEN HandleCaptureInputEvent(e)
         ELSE ShellButton(ApplyInputMapping(e.pad, e.button), e)
      /\ gamePress' = (IF ~(Moved \/ (hold'.chord /\ ~hold.chord)) THEN gamePress
                       ELSE e.game /\ (e.press \/ ~(hold.new \/ Remapping)))
      /\ frame' = [frame EXCEPT ![p] = Tail(frame[p])]
      /\ UNCHANGED <<plugged, down, devs, changed, known, ignore, running, moves, games>>
  BY DEF HandleEvent
<1>2. /\ DeviceTypes /\ ScreenTypes /\ ArmInv /\ ignore \in {"no", "unread", "read"}
      /\ hold \in Holds
  BY DEF InputInv, InputTypes, ScreenTypes
<1>3. e \in Events /\ (InGame(e) => ignore = "read")
  BY <1>1, <1>2, HeadLemma DEF InputInv, QueueInv
<1> HIDE DEF e
<1>4. DeviceTypes' /\ QueueInv'
  <2>1. frame' \in [Paths -> Seq(Events)]
    BY <1>1, <1>2, HeadLemma DEF DeviceTypes
  <2>2. ASSUME NEW q \in Paths, NEW i \in DOMAIN frame'[q], InGame(frame'[q][i])
        PROVE  ignore' = "read"
    <3>1. CASE q # p
      BY <1>1, <1>2, <2>2, <3>1 DEF InputInv, QueueInv, DeviceTypes
    <3>2. CASE q = p
      <4>1. frame'[q] = Tail(frame[p])
        BY <1>1, <1>2, <3>2 DEF DeviceTypes
      <4>2. i + 1 \in DOMAIN frame[p] /\ frame'[q][i] = frame[p][i + 1]
        BY <1>1, <1>2, <2>2, <4>1, HeadLemma
      <4> QED
        BY <1>1, <2>2, <4>2 DEF InputInv, QueueInv
    <3> QED
      BY <3>1, <3>2
  <2>3. DeviceTypes'
    BY <1>1, <1>2, <2>1 DEF DeviceTypes
  <2> QED
    BY <1>1, <2>2, <2>3 DEF InputInv, QueueInv
<1>5. ScreenTypes' /\ ArmInv' /\ HoldInv' /\ (ignore # "no" => UNCHANGED waiting)
  <2>1. CASE Ignored
    BY <1>1, <1>2, <2>1 DEF InputInv, HoldInv, Ignored, ScreenTypes, CaptureTypes, ArmInv
  <2>2. CASE ~Ignored /\ Remapping
    <3>1. CaptureTypes' /\ ArmInv' /\ UNCHANGED <<hold, screen, waiting>>
      BY <1>1, <1>2, <1>3, <2>2, CaptureLemma DEF ScreenTypes, Remapping
    <3> QED
      BY <1>1, <1>2, <3>1 DEF InputInv, HoldInv, ScreenTypes
  <2>3. CASE ~Ignored /\ ~Remapping
    <3>1. /\ ScreenTypes' /\ ArmInv'
          /\ hold'.short => hold'.new \/ (hold.short /\ hold'.new = hold.new)
      BY <1>1, <1>2, <1>3, <2>3, ShellButtonLemma
    <3> QED
      BY <1>1, <2>3, <3>1 DEF InputInv, HoldInv, Ignored
  <2> QED
    BY <2>1, <2>2, <2>3
<1>6. gamePress' = FALSE
  <2>1. gamePress = FALSE
    BY DEF InputInv, InputTypes, GameInputIgnored
  <2>2. CASE ~(Moved \/ (hold'.chord /\ ~hold.chord))
    BY <1>1, <2>1, <2>2
  <2>3. CASE Moved \/ (hold'.chord /\ ~hold.chord)
    <3>1. ~Ignored
      BY <1>1, <2>3 DEF Moved
    <3>2. e.press \/ hold.short \/ Remapping
      BY <1>1, <1>2, <1>3, <2>3, <3>1, ShellButtonLemma
    <3>3. hold.short => hold.new
      BY <1>1, <3>1 DEF InputInv, HoldInv, Ignored
    <3>4. e.press => ~e.game
      BY <1>3, <3>1 DEF InGame, Ignored
    <3>5. gamePress' = (e.game /\ (e.press \/ ~(hold.new \/ Remapping)))
      BY <1>1, <2>3
    <3> QED
      BY <1>2, <1>3, <3>2, <3>3, <3>4, <3>5 DEF Events, Holds
  <2> QED
    BY <2>2, <2>3
<1>7. InputTypes'
  BY <1>1, <1>4, <1>5, <1>6 DEF InputInv, InputTypes
<1>8. PlayInv'
  BY <1>1, <1>5 DEF InputInv, PlayInv
<1>9. GamesHaveControls' /\ GameInputIgnored'
  BY <1>1, <1>6 DEF GamesHaveControls, GameInputIgnored
<1> QED
  BY <1>4, <1>5, <1>7, <1>8, <1>9 DEF InputInv

-----------------------------------------------------------------------------
(* The theorems.                                                           *)

LEMMA InputInit == Init => InputInv
<1> SUFFICES ASSUME Init PROVE InputInv
  OBVIOUS
<1>1. devs \in [Paths -> Devs \cup {None}] /\ \A p \in Paths : devs[p] # None => devs[p].unread = <<>>
  <2>1. ASSUME NEW p \in Paths, p \in Desired[InitiallyAt], NEW h
        PROVE  /\ Open(InitiallyAt[p], h) \in Devs \cup {None}
               /\ Open(InitiallyAt[p], h) # None => Open(InitiallyAt[p], h).unread = <<>>
    BY <2>1, DesiredLemma, OpenLemma, EvdevInputAssumption
  <2>2. PICK how \in Outcomes(Desired[InitiallyAt]) :
          devs = [p \in Paths |-> IF p \in Desired[InitiallyAt]
                                  THEN Open(InitiallyAt[p], how[p]) ELSE None]
    BY DEF Init
  <2> QED
    BY <2>1, <2>2
<1>2. frame \in [Paths -> Seq(Events)] /\ Handled
  BY EmptyLemma DEF Init, Handled
<1>3. DeviceTypes
  BY <1>1, <1>2, PadsLemma, EvdevInputAssumption DEF Init, DeviceTypes
<1>4. ScreenTypes
  BY DEF Init, ScreenTypes, CaptureTypes, Holds
<1>5. InputTypes
  BY <1>3, <1>4 DEF Init, InputTypes
<1>6. PlayInv /\ QueueInv
  BY <1>1, <1>2 DEF Init, PlayInv, QueueInv, Handled
<1>7. HoldInv /\ ArmInv /\ GamesHaveControls /\ GameInputIgnored
  BY DEF Init, HoldInv, ArmInv, GamesHaveControls, GameInputIgnored
<1> QED
  BY <1>5, <1>6, <1>7 DEF InputInv

LEMMA InputNext == InputInv /\ [Next]_vars => InputInv'
<1> SUFFICES ASSUME InputInv, [Next]_vars PROVE InputInv'
  OBVIOUS
<1>1. ASSUME NEW due \in BOOLEAN, NEW how, PollDevices(due, how) PROVE InputInv'
  BY <1>1, PollIInv
<1>2. ASSUME NEW p \in Paths, HandleEvent(p) PROVE InputInv'
  BY <1>2, HandleEventIInv
<1>3. CASE RunGame
  BY <1>3, RunGameIInv
<1>4. ASSUME NEW how, GameEnds(how) PROVE InputInv'
  BY <1>4, GameEndsIInv
<1>5. CASE IgnoreEnds
  BY <1>5, IgnoreEndsIInv
<1>6. CASE ArmDelayEnds
  BY <1>6, ArmDelayEndsIInv
<1>7. ASSUME NEW p \in Paths, NEW b \in Buttons, PressKey(p, b) PROVE InputInv'
  BY <1>7, PressKeyIInv
<1>8. ASSUME NEW p \in Paths, ReleaseKey(p) PROVE InputInv'
  BY <1>8, ReleaseKeyIInv
<1>12. ASSUME NEW p \in Paths, RepeatKey(p) PROVE InputInv'
  BY <1>12, RepeatKeyIInv
<1>9. ASSUME NEW p \in Paths, Unplug(p) PROVE InputInv'
  BY <1>9, UnplugIInv
<1>10. ASSUME NEW p \in Paths, NEW pad \in Pads, Plug(p, pad) PROVE InputInv'
  BY <1>10, PlugIInv
<1>11. CASE UNCHANGED vars
  <2>1. InputTypes'
    BY <1>11 DEF InputInv, InputTypes, DeviceTypes, ScreenTypes, CaptureTypes, vars, shell
  <2>2. PlayInv' /\ QueueInv' /\ HoldInv' /\ ArmInv'
    BY <1>11 DEF InputInv, PlayInv, Handled, QueueInv, HoldInv, ArmInv, vars, shell
  <2>3. GamesHaveControls' /\ GameInputIgnored'
    BY <1>11 DEF InputInv, GamesHaveControls, GameInputIgnored, vars, shell
  <2> QED
    BY <2>1, <2>2, <2>3 DEF InputInv
<1> QED
  BY <1>1, <1>2, <1>3, <1>4, <1>5, <1>6, <1>7, <1>8, <1>9, <1>10, <1>11, <1>12 DEF Next

LEMMA InputInvariance == Spec => []InputInv
BY InputInit, InputNext, PTL DEF Spec

(* All variables keep their types.                                         *)
THEOREM InputTypesCorrect == Spec => []InputTypes
<1>1. InputInv => InputTypes
  BY DEF InputInv
<1> QED
  BY <1>1, InputInvariance, PTL

(* A game that runs has every device that is plugged in: the shell gives   *)
(* up all its grabs and takes none, whatever comes and goes meanwhile.     *)
THEOREM ControlsCorrect == Spec => []GamesHaveControls
<1>1. InputInv => GamesHaveControls
  BY DEF InputInv
<1> QED
  BY <1>1, InputInvariance, PTL

(* What was pressed or repeated in a game never moves the shell: it is     *)
(* read within the time that ignores it, and a Start that was held into    *)
(* the game is no short one when it is let go.  A repeat after that time   *)
(* is a press of its own, and a remapping may take the release of any key. *)
THEOREM IgnoredCorrect == Spec => []GameInputIgnored
<1>1. InputInv => GameInputIgnored
  BY DEF InputInv
<1> QED
  BY <1>1, InputInvariance, PTL

LEMMA TailLemma ==
  ASSUME DeviceTypes, NEW p \in Paths, frame[p] # <<>>
  PROVE  Tail(frame[p]) # frame[p]
<1>1. frame[p] \in Seq(Events)
  BY DEF DeviceTypes
<1>2. Len(Tail(frame[p])) = Len(frame[p]) - 1 /\ Len(frame[p]) \in Nat
  BY <1>1
<1>3. Len(Tail(frame[p])) # Len(frame[p])
  BY <1>2
<1> QED
  BY <1>3

LEMMA ReleaseStep ==
  ASSUME InputInv, [Next]_vars, NEW p \in Paths, frame[p] # <<>>, frame'[p] = Tail(frame[p]),
         Remapping, <<Head(frame[p]).pad, Head(frame[p]).button>> = starter
  PROVE  UNCHANGED profiles
<1>1. CASE \A q \in Paths : ~HandleEvent(q)
  BY <1>1 DEF Next, PollDevices, RunGame, GameEnds, IgnoreEnds, ArmDelayEnds, PressKey, RepeatKey,
              ReleaseKey, Unplug, Plug, vars, shell
<1>2. ASSUME NEW q \in Paths, HandleEvent(q) PROVE UNCHANGED profiles
  <2>1. DeviceTypes /\ ScreenTypes /\ ArmInv
    BY DEF InputInv, InputTypes
  <2>2. frame' = [frame EXCEPT ![q] = Tail(frame[q])]
    BY <1>2 DEF HandleEvent
  <2>3. q = p
    BY <2>1, <2>2, TailLemma DEF DeviceTypes
  <2> DEFINE e == Head(frame[p])
  <2>4. e \in Events
    BY <2>1, HeadLemma
  <2>5. Ignored \/ HandleCaptureInputEvent(e)
    BY <1>2, <2>3 DEF HandleEvent
  <2>6. CASE Ignored
    BY <1>2, <2>6 DEF HandleEvent
  <2>7. CASE HandleCaptureInputEvent(e)
    BY <2>1, <2>4, <2>7, CaptureLemma DEF ScreenTypes, Remapping
  <2> QED
    BY <2>5, <2>6, <2>7
<1> QED
  BY <1>1, <1>2

(* The release of the button that began a remapping assigns nothing.       *)
THEOREM OwnReleaseCorrect == Spec => OwnReleaseFree
<1>1. InputInv /\ [Next]_vars =>
        [\A p \in Paths :
           LET e == Head(frame[p])
           IN frame[p] # <<>> /\ frame'[p] = Tail(frame[p]) /\ Remapping
                /\ <<e.pad, e.button>> = starter => UNCHANGED profiles]_vars
  BY ReleaseStep
<1> QED
  BY <1>1, InputInvariance, PTL DEF Spec, OwnReleaseFree

-----------------------------------------------------------------------------
(***************************************************************************)
(*                          Wi-Fi and Bluetooth                            *)
(***************************************************************************)

(* The Wi-Fi screen.                                                       *)

Nets == [ssid : Networks, active : BOOLEAN]

WifiStates ==
  [view : {"Overview", "Networks", "Password", "Country"}, sel : Nat, nets : Seq(Nets),
   ssid : Networks \cup {None}, password : Seq(Networks \cup {None}), entry : Nat,
   connected : Networks \cup {None}]

AirStates == [near : SUBSET Networks, joined : Networks \cup {None}]

(* In every view the selection is among what it shows, of a record w.      *)
InView(w) ==
  /\ w.view = "Overview" => w.sel < Rows
  /\ w.view = "Password" => w.sel < KeyCount
  /\ w.view = "Country" => w.sel < LetterCount

OwnPassword(w) == Range(w.password) \subseteq {w.ssid, None}

WifiGood(w) == w \in WifiStates /\ InView(w) /\ OwnPassword(w)

WifiInv == WifiGood(wifi) /\ air \in AirStates

LEMMA RemainderRange ==
  ASSUME NEW a \in Nat, NEW n \in Nat, n > 0
  PROVE  a % n \in Nat /\ a % n < n
  OBVIOUS

(* A step on a grid of keys stays on it.                                   *)
LEMMA StepsRange ==
  ASSUME NEW count \in Nat, NEW columns \in Nat, columns <= count, count > 0,
         NEW sel \in Nat, sel < count, NEW i \in Steps(sel, count, columns)
  PROVE  i \in Nat /\ i < count
<1>1. {sel + 1, sel + count - 1, sel + columns, sel + count - columns} \subseteq Nat
  OBVIOUS
<1>2. \E a \in Nat : i = a % count
  BY <1>1 DEF Steps
<1> QED BY <1>2, RemainderRange

(* A step in a list, from wherever the selection is.                       *)
LEMMA StepsNat ==
  ASSUME NEW count \in Nat, count > 0, NEW sel \in Nat, NEW i \in Steps(sel, count, 1)
  PROVE  i \in Nat /\ i < count
<1>1. {sel + 1, sel + count - 1} \subseteq Nat
  OBVIOUS
<1>2. \E a \in Nat : i = a % count
  BY <1>1 DEF Steps
<1> QED BY <1>2, RemainderRange

LEMMA ClampRange ==
  ASSUME NEW sel \in Nat, NEW count \in Nat
  PROVE  /\ Clamp(sel, count) \in Nat /\ Clamp(sel, count) <= sel
         /\ count # 0 => Clamp(sel, count) < count
  BY DEF Clamp

LEMMA KeyboardSizes ==
  /\ KeyCount \in Nat /\ KeyCount > 0 /\ KeyColumns \in Nat /\ KeyColumns <= KeyCount
  /\ LetterCount \in Nat /\ LetterCount > 0 /\ LetterColumns \in Nat /\ LetterColumns <= LetterCount
  BY WirelessAssumption

LEMMA NoNetwork == None \notin Networks
  BY WirelessAssumption, Zenon

LEMMA EmptyPassword == <<>> \in Seq(Networks \cup {None}) /\ Range(<<>>) = {} /\ <<>> \in Seq(Nets)
  BY DEF Range

LEMMA WifiInitGood == WirelessInit => WifiInv
<1> SUFFICES ASSUME WirelessInit PROVE WifiInv
  OBVIOUS
<1>1. air \in AirStates
  BY DEF WirelessInit, AirStates
<1>2. wifi = [view |-> "Overview", sel |-> 0, nets |-> <<>>, ssid |-> None,
              password |-> <<>>, entry |-> 0, connected |-> None]
  BY DEF WirelessInit
<1>3. wifi \in WifiStates
  BY <1>2, EmptyPassword DEF WifiStates
<1>4. InView(wifi) /\ OwnPassword(wifi)
  BY <1>2, EmptyPassword DEF InView, OwnPassword, Rows
<1> QED BY <1>1, <1>3, <1>4 DEF WifiInv, WifiGood

LEMMA WifiFields ==
  ASSUME NEW w \in WifiStates
  PROVE  /\ w.view \in {"Overview", "Networks", "Password", "Country"} /\ w.sel \in Nat
         /\ w.nets \in Seq(Nets) /\ w.ssid \in Networks \cup {None}
         /\ w.password \in Seq(Networks \cup {None}) /\ w.entry \in Nat
         /\ w.connected \in Networks \cup {None}
  BY DEF WifiStates

(* The selection moves.                                                    *)
LEMMA MovedGood ==
  ASSUME NEW w, WifiGood(w), NEW sel \in Nat,
         InView([w EXCEPT !.sel = sel])
  PROVE  WifiGood([w EXCEPT !.sel = sel])
<1> DEFINE v == [w EXCEPT !.sel = sel]
<1>1. w \in WifiStates /\ OwnPassword(w)
  BY DEF WifiGood
<1>2. v \in WifiStates
  BY <1>1 DEF WifiStates
<1>3. v.password = w.password /\ v.ssid = w.ssid
  BY <1>1 DEF WifiStates
<1> QED BY <1>1, <1>2, <1>3 DEF WifiGood, OwnPassword

LEMMA ToolsWifiGood ==
  ASSUME WifiInv, ToolsWifi PROVE WifiGood(wifi')
<1>1. wifi \in WifiStates
  BY DEF WifiInv, WifiGood
<1>2. wifi' = [wifi EXCEPT !.view = "Overview", !.sel = 0, !.nets = <<>>, !.password = <<>>,
                           !.entry = 0]
  BY DEF ToolsWifi
<1>3. wifi' \in WifiStates
  BY <1>1, <1>2, EmptyPassword DEF WifiStates
<1>4. wifi'.view = "Overview" /\ wifi'.sel = 0 /\ wifi'.password = <<>>
  BY <1>1, <1>2 DEF WifiStates
<1> QED BY <1>3, <1>4, EmptyPassword DEF WifiGood, InView, OwnPassword, Rows

LEMMA OverviewGood ==
  ASSUME WifiInv, wifi.view = "Overview", OverviewButton PROVE WifiGood(wifi')
<1>1. wifi \in WifiStates /\ WifiGood(wifi) /\ wifi.sel \in Nat /\ wifi.sel < 3
  BY DEF WifiInv, WifiGood, InView, WifiStates, Rows
<1>2. CASE \E sel \in Steps(wifi.sel, Rows, 1) : wifi' = [wifi EXCEPT !.sel = sel]
  <2>1. PICK sel \in Steps(wifi.sel, 3, 1) : wifi' = [wifi EXCEPT !.sel = sel]
    BY <1>2 DEF Rows
  <2>2. sel \in Nat /\ sel < 3
    BY <1>1, StepsNat
  <2>3. wifi'.view = "Overview" /\ wifi'.sel = sel
    BY <1>1, <2>1 DEF WifiStates
  <2> QED BY <1>1, <2>1, <2>2, <2>3, MovedGood DEF InView, Rows
<1>3. CASE ChooseWifiRow
  <2>1. CASE wifi' = [wifi EXCEPT !.view = "Networks", !.sel = 0]
    <3>1. wifi' \in WifiStates
      BY <1>1, <2>1 DEF WifiStates
    <3>2. wifi'.view = "Networks" /\ wifi'.password = wifi.password /\ wifi'.ssid = wifi.ssid
      BY <1>1, <2>1 DEF WifiStates
    <3> QED BY <1>1, <3>1, <3>2 DEF WifiGood, InView, OwnPassword
  <2>2. CASE UNCHANGED wifi
    BY <1>1, <2>2
  <2>3. CASE wifi' = [wifi EXCEPT !.view = "Country", !.sel = 0, !.entry = 0]
    <3>1. wifi' \in WifiStates
      BY <1>1, <2>3 DEF WifiStates
    <3>2. /\ wifi'.view = "Country" /\ wifi'.sel = 0
          /\ wifi'.password = wifi.password /\ wifi'.ssid = wifi.ssid
      BY <1>1, <2>3 DEF WifiStates
    <3> QED BY <1>1, <3>1, <3>2, KeyboardSizes DEF WifiGood, InView, OwnPassword
  <2> QED BY <1>3, <2>1, <2>2, <2>3, Zenon DEF ChooseWifiRow
<1>4. CASE UNCHANGED wifi
  BY <1>1, <1>4
<1> QED BY <1>2, <1>3, <1>4, Zenon DEF OverviewButton

LEMMA ChosenNetwork ==
  ASSUME WifiInv, wifi.nets # <<>>
  PROVE  /\ Clamp(wifi.sel, Len(wifi.nets)) \in Nat
         /\ wifi.nets[Clamp(wifi.sel, Len(wifi.nets)) + 1] \in Nets
<1>1. wifi.nets \in Seq(Nets) /\ wifi.sel \in Nat
  BY WifiFields DEF WifiInv, WifiGood
<1>2. Len(wifi.nets) \in Nat /\ Len(wifi.nets) # 0
  BY <1>1
<1>3. /\ Clamp(wifi.sel, Len(wifi.nets)) \in Nat
      /\ Clamp(wifi.sel, Len(wifi.nets)) < Len(wifi.nets)
  BY <1>1, <1>2, ClampRange
<1>4. Clamp(wifi.sel, Len(wifi.nets)) + 1 \in 1..Len(wifi.nets)
  BY <1>2, <1>3
<1> QED BY <1>1, <1>3, <1>4

LEMMA NetworksGood ==
  ASSUME WifiInv, wifi.view = "Networks", NetworksButton PROVE WifiGood(wifi')
<1>1. wifi \in WifiStates /\ WifiGood(wifi) /\ wifi.sel \in Nat /\ wifi.nets \in Seq(Nets)
  BY WifiFields DEF WifiInv, WifiGood
<1>2. CASE MoveNetworks
  <2>1. PICK sel \in Steps(wifi.sel, Len(wifi.nets), 1) : wifi' = [wifi EXCEPT !.sel = sel]
    BY <1>2 DEF MoveNetworks
  <2>2. sel \in Nat
    <3>1. Len(wifi.nets) \in Nat /\ Len(wifi.nets) > 0
      BY <1>1, <1>2 DEF MoveNetworks
    <3> QED BY <3>1, <1>1, StepsNat
  <2>3. wifi'.view = "Networks"
    BY <1>1, <2>1 DEF WifiStates
  <2> QED BY <1>1, <2>1, <2>2, <2>3, MovedGood DEF InView
<1>3. CASE ChooseNetwork
  <2> DEFINE sel == Clamp(wifi.sel, Len(wifi.nets))
             net == wifi.nets[sel + 1]
             w == [wifi EXCEPT !.sel = sel, !.ssid = net.ssid, !.password = <<>>]
  <2>1. sel \in Nat /\ net \in Nets
    BY <1>3, ChosenNetwork DEF ChooseNetwork
  <2>2. wifi' = w \/ wifi' = [w EXCEPT !.view = "Password", !.sel = 0]
    BY <1>3, Zenon DEF ChooseNetwork
  <2>3. net.ssid \in Networks
    BY <2>1 DEF Nets
  <2> HIDE DEF sel, net
  <2>4. w \in WifiStates /\ w.view = "Networks" /\ w.password = <<>>
    BY <1>1, <2>1, <2>3, EmptyPassword DEF WifiStates
  <2>5. CASE wifi' = w
    <3> HIDE DEF w
    <3> QED BY <2>4, <2>5, EmptyPassword DEF WifiGood, InView, OwnPassword
  <2>6. CASE wifi' = [w EXCEPT !.view = "Password", !.sel = 0]
    <3> HIDE DEF w
    <3>1. wifi' \in WifiStates
      BY <2>4, <2>6 DEF WifiStates
    <3>2. wifi'.view = "Password" /\ wifi'.sel = 0 /\ wifi'.password = <<>>
      BY <2>4, <2>6 DEF WifiStates
    <3> QED BY <3>1, <3>2, EmptyPassword, KeyboardSizes DEF WifiGood, InView, OwnPassword
  <2> QED BY <2>2, <2>5, <2>6
<1>4. CASE UNCHANGED wifi
  BY <1>1, <1>4
<1>5. CASE NetworksBack
  <2>1. wifi' = [wifi EXCEPT !.view = "Overview", !.sel = 0]
    BY <1>5 DEF NetworksBack
  <2>2. wifi' \in WifiStates
    BY <1>1, <2>1 DEF WifiStates
  <2>3. /\ wifi'.view = "Overview" /\ wifi'.sel = 0
        /\ wifi'.password = wifi.password /\ wifi'.ssid = wifi.ssid
    BY <1>1, <2>1 DEF WifiStates
  <2> QED BY <1>1, <2>2, <2>3 DEF WifiGood, InView, OwnPassword, Rows
<1> QED BY <1>2, <1>3, <1>4, <1>5, Zenon DEF NetworksButton

LEMMA FrontRange ==
  ASSUME NEW S, NEW s \in Seq(S), s # <<>>
  PROVE  Front(s) \in Seq(S) /\ Range(Front(s)) \subseteq Range(s)
<1>1. /\ Len(s) \in Nat /\ Len(s) > 0 /\ DOMAIN s = 1..Len(s)
      /\ \A i \in 1..Len(s) : s[i] \in S
  OBVIOUS
<1>2. /\ Front(s) \in Seq(S) /\ DOMAIN Front(s) = 1..(Len(s) - 1)
      /\ \A i \in 1..(Len(s) - 1) : Front(s)[i] = s[i]
  BY <1>1 DEF Front
<1> QED BY <1>1, <1>2 DEF Range

(* Another password, of the characters of the network it is for.           *)
LEMMA RetypedGood ==
  ASSUME NEW w, WifiGood(w), NEW p \in Seq(Networks \cup {None}), Range(p) \subseteq {w.ssid, None}
  PROVE  WifiGood([w EXCEPT !.password = p])
<1> DEFINE v == [w EXCEPT !.password = p]
<1>1. w \in WifiStates /\ InView(w)
  BY DEF WifiGood
<1>2. v \in WifiStates
  BY <1>1 DEF WifiStates
<1>3. v.password = p /\ v.ssid = w.ssid /\ v.view = w.view /\ v.sel = w.sel
  BY <1>1 DEF WifiStates
<1> QED BY <1>1, <1>2, <1>3 DEF WifiGood, OwnPassword, InView

LEMMA PasswordGood ==
  ASSUME WifiInv, wifi.view = "Password", PasswordButton PROVE WifiGood(wifi')
<1>1. /\ wifi \in WifiStates /\ WifiGood(wifi) /\ OwnPassword(wifi)
      /\ wifi.sel \in Nat /\ wifi.sel < KeyCount
      /\ wifi.password \in Seq(Networks \cup {None}) /\ wifi.ssid \in Networks \cup {None}
      /\ Range(wifi.password) \subseteq {wifi.ssid, None}
  BY WifiFields DEF WifiInv, WifiGood, InView, OwnPassword
<1>2. CASE \E sel \in Steps(wifi.sel, KeyCount, KeyColumns) : wifi' = [wifi EXCEPT !.sel = sel]
  <2>1. PICK sel \in Steps(wifi.sel, KeyCount, KeyColumns) : wifi' = [wifi EXCEPT !.sel = sel]
    BY <1>2
  <2>2. sel \in Nat /\ sel < KeyCount
    BY <1>1, StepsRange, KeyboardSizes
  <2>3. wifi'.view = "Password" /\ wifi'.sel = sel
    BY <1>1, <2>1 DEF WifiStates
  <2> QED BY <1>1, <2>1, <2>2, <2>3, MovedGood DEF InView
<1>3. CASE TypeCharacter
  <2>1. PICK c \in {wifi.ssid, None} :
           \/ wifi' = [wifi EXCEPT !.password = Append(wifi.password, c)]
           \/ wifi' = [wifi EXCEPT !.password = wifi.password]
    BY <1>1, <1>3 DEF TypeCharacter, WifiStates
  <2>2. c \in Networks \cup {None}
    BY <1>1
  <2>3. /\ Append(wifi.password, c) \in Seq(Networks \cup {None})
        /\ Range(Append(wifi.password, c)) \subseteq {wifi.ssid, None}
    BY <1>1, <2>2, AppendRange DEF OwnPassword
  <2>4. WifiGood([wifi EXCEPT !.password = Append(wifi.password, c)])
    BY <1>1, <2>3, RetypedGood
  <2>5. WifiGood([wifi EXCEPT !.password = wifi.password])
    BY <1>1, RetypedGood
  <2> QED BY <2>1, <2>4, <2>5
<1>4. CASE wifi' = [wifi EXCEPT !.password = IF @ = <<>> THEN @ ELSE Front(@)]
  <2>1. \/ wifi' = [wifi EXCEPT !.password = wifi.password]
        \/ wifi.password # <<>> /\ wifi' = [wifi EXCEPT !.password = Front(wifi.password)]
    BY <1>1, <1>4 DEF WifiStates
  <2>2. wifi.password # <<>> => /\ Front(wifi.password) \in Seq(Networks \cup {None})
                                /\ Range(Front(wifi.password)) \subseteq {wifi.ssid, None}
    BY <1>1, FrontRange DEF OwnPassword
  <2>3. wifi.password # <<>> => WifiGood([wifi EXCEPT !.password = Front(wifi.password)])
    BY <1>1, <2>2, RetypedGood
  <2>4. WifiGood([wifi EXCEPT !.password = wifi.password])
    BY <1>1, RetypedGood
  <2> QED BY <2>1, <2>3, <2>4
<1>5. CASE wifi' = [wifi EXCEPT !.view = "Networks", !.password = <<>>]
  <2>1. wifi' \in WifiStates
    BY <1>1, <1>5, EmptyPassword DEF WifiStates
  <2>2. wifi'.view = "Networks" /\ wifi'.password = <<>>
    BY <1>1, <1>5 DEF WifiStates
  <2> QED BY <2>1, <2>2, EmptyPassword DEF WifiGood, InView, OwnPassword
<1>6. CASE wifi' = [wifi EXCEPT !.view = "Networks"]
  <2>1. wifi' \in WifiStates
    BY <1>1, <1>6 DEF WifiStates
  <2>2. wifi'.view = "Networks" /\ wifi'.password = wifi.password /\ wifi'.ssid = wifi.ssid
    BY <1>1, <1>6 DEF WifiStates
  <2> QED BY <1>1, <2>1, <2>2 DEF WifiGood, InView, OwnPassword
<1>7. CASE UNCHANGED wifi
  BY <1>1, <1>7
<1> QED BY <1>2, <1>3, <1>4, <1>5, <1>6, <1>7, Zenon DEF PasswordButton, PasswordDone

LEMMA CountryGood ==
  ASSUME WifiInv, wifi.view = "Country", CountryButton PROVE WifiGood(wifi')
<1>1. /\ wifi \in WifiStates /\ WifiGood(wifi) /\ OwnPassword(wifi)
      /\ wifi.sel \in Nat /\ wifi.sel < LetterCount /\ wifi.entry \in Nat
  BY WifiFields DEF WifiInv, WifiGood, InView
<1>2. CASE \E sel \in Steps(wifi.sel, LetterCount, LetterColumns) : wifi' = [wifi EXCEPT !.sel = sel]
  <2>1. PICK sel \in Steps(wifi.sel, LetterCount, LetterColumns) : wifi' = [wifi EXCEPT !.sel = sel]
    BY <1>2
  <2>2. sel \in Nat /\ sel < LetterCount
    BY <1>1, StepsRange, KeyboardSizes
  <2>3. wifi'.view = "Country" /\ wifi'.sel = sel
    BY <1>1, <2>1 DEF WifiStates
  <2> QED BY <1>1, <2>1, <2>2, <2>3, MovedGood DEF InView
<1>3. ASSUME NEW e \in Nat, wifi' = [wifi EXCEPT !.entry = e] PROVE WifiGood(wifi')
  <2>1. wifi' \in WifiStates
    BY <1>1, <1>3 DEF WifiStates
  <2>2. /\ wifi'.view = wifi.view /\ wifi'.sel = wifi.sel
        /\ wifi'.password = wifi.password /\ wifi'.ssid = wifi.ssid
    BY <1>1, <1>3 DEF WifiStates
  <2> QED BY <1>1, <2>1, <2>2 DEF WifiGood, InView, OwnPassword
<1>4. CASE \/ wifi' = [wifi EXCEPT !.entry = IF @ < 2 THEN @ + 1 ELSE @]
           \/ wifi' = [wifi EXCEPT !.entry = IF @ > 0 THEN @ - 1 ELSE @]
  <2>1. \E e \in Nat : wifi' = [wifi EXCEPT !.entry = e]
    <3>1. /\ (IF wifi.entry < 2 THEN wifi.entry + 1 ELSE wifi.entry) \in Nat
          /\ (IF wifi.entry > 0 THEN wifi.entry - 1 ELSE wifi.entry) \in Nat
      BY <1>1
    <3> QED BY <1>4, <3>1, Zenon
  <2> QED BY <1>3, <2>1
<1>5. CASE wifi' = [wifi EXCEPT !.view = "Overview", !.sel = 2]
  <2>1. wifi' \in WifiStates
    BY <1>1, <1>5 DEF WifiStates
  <2>2. /\ wifi'.view = "Overview" /\ wifi'.sel = 2
        /\ wifi'.password = wifi.password /\ wifi'.ssid = wifi.ssid
    BY <1>1, <1>5 DEF WifiStates
  <2> QED BY <1>1, <2>1, <2>2 DEF WifiGood, InView, OwnPassword, Rows
<1>6. CASE UNCHANGED wifi
  BY <1>1, <1>6
<1> QED BY <1>2, <1>4, <1>5, <1>6, Zenon DEF CountryButton, CountryDone

LEMMA WifiButtonGood ==
  ASSUME WifiInv, WifiButton PROVE WifiGood(wifi')
  BY OverviewGood, NetworksGood, PasswordGood, CountryGood, Zenon DEF WifiButton

(* What the loop runs.                                                     *)
LEMMA StatusGood ==
  ASSUME NEW w, WifiGood(w), NEW a \in AirStates, RefreshWifiStatus(w, a)
  PROVE  WifiGood(wifi')
<1>1. PICK shown \in Networks \cup {None} : wifi' = [w EXCEPT !.connected = shown]
  BY DEF RefreshWifiStatus, AirStates
<1>2. w \in WifiStates /\ InView(w) /\ OwnPassword(w)
  BY DEF WifiGood
<1>3. wifi' \in WifiStates
  BY <1>1, <1>2 DEF WifiStates
<1>4. /\ wifi'.view = w.view /\ wifi'.sel = w.sel
      /\ wifi'.password = w.password /\ wifi'.ssid = w.ssid
  BY <1>1, <1>2 DEF WifiStates
<1> QED BY <1>2, <1>3, <1>4 DEF WifiGood, InView, OwnPassword

(* The list that a scan gives is one of networks, and a selection held to  *)
(* it is not further down than before.                                     *)
LEMMA ScanGood ==
  ASSUME WifiInv, ScanWifi PROVE WifiGood(wifi')
<1>1. wifi \in WifiStates /\ WifiGood(wifi) /\ wifi.sel \in Nat /\ air \in AirStates
  BY WifiFields DEF WifiInv, WifiGood
<1>2. CASE UNCHANGED wifi
  BY <1>1, <1>2
<1>3. CASE \E found \in {l \in SeqOf(air.near, Cardinality(air.near)) : IsInjective(l)} :
       LET nets == [i \in DOMAIN found |-> [ssid |-> found[i], active |-> found[i] = air.joined]]
           sorted == Kept(nets, [ssid : air.near, active : {TRUE}])
                     \o Kept(nets, [ssid : air.near, active : {FALSE}])
       IN RefreshWifiStatus([wifi EXCEPT !.nets = sorted, !.sel = Clamp(@, Len(sorted))], air)
  <2>1. PICK found \in SeqOf(air.near, Cardinality(air.near)) :
       LET nets == [i \in DOMAIN found |-> [ssid |-> found[i], active |-> found[i] = air.joined]]
           sorted == Kept(nets, [ssid : air.near, active : {TRUE}])
                     \o Kept(nets, [ssid : air.near, active : {FALSE}])
       IN RefreshWifiStatus([wifi EXCEPT !.nets = sorted, !.sel = Clamp(@, Len(sorted))], air)
    BY <1>3, Zenon
  <2> DEFINE nets == [i \in DOMAIN found |-> [ssid |-> found[i], active |-> found[i] = air.joined]]
             on == Kept(nets, [ssid : air.near, active : {TRUE}])
             off == Kept(nets, [ssid : air.near, active : {FALSE}])
             sorted == on \o off
             w == [wifi EXCEPT !.nets = sorted, !.sel = Clamp(wifi.sel, Len(sorted))]
  <2>2. Cardinality(air.near) \in Nat
    <3>1. air.near \in SUBSET Networks
      BY <1>1 DEF AirStates
    <3>2. IsFiniteSet(air.near)
      BY <3>1, FS_Subset, WirelessAssumption
    <3> QED BY <3>2, FS_CardinalityType
  <2>3. nets \in Seq(Nets)
    <3>1. PICK m \in 0..Cardinality(air.near) : found \in [1..m -> air.near]
      BY <2>1, <2>2 DEF SeqOf
    <3>2. m \in Nat /\ DOMAIN found = 1..m /\ \A i \in 1..m : found[i] \in Networks
      BY <3>1, <2>2, <1>1 DEF AirStates
    <3>3. \A i \in 1..m : [ssid |-> found[i], active |-> found[i] = air.joined] \in Nets
      BY <3>2, Zenon DEF Nets
    <3>4. nets \in [1..m -> Nets]
      BY <3>2, <3>3
    <3> QED BY <3>2, <3>4
  <2>4. on \in Seq(Nets) /\ off \in Seq(Nets)
    <3> HIDE DEF nets
    <3> QED BY <2>3, KeptList
  <2>5. sorted \in Seq(Nets) /\ Len(sorted) \in Nat
    <3> HIDE DEF on, off
    <3> QED BY <2>4
  <2>6. RefreshWifiStatus(w, air)
    <3>1. [wifi EXCEPT !.nets = sorted, !.sel = Clamp(@, Len(sorted))] = w
      <4> HIDE DEF sorted
      <4> QED BY <1>1 DEF WifiStates
    <3> QED BY <2>1, <3>1, Zenon
  <2> HIDE DEF sorted
  <2>7. Clamp(wifi.sel, Len(sorted)) \in Nat /\ Clamp(wifi.sel, Len(sorted)) <= wifi.sel
    BY <1>1, <2>5, ClampRange
  <2>8. w \in WifiStates
    BY <1>1, <2>5, <2>7 DEF WifiStates
  <2>9. /\ w.view = wifi.view /\ w.sel = Clamp(wifi.sel, Len(sorted))
        /\ w.password = wifi.password /\ w.ssid = wifi.ssid
    BY <1>1 DEF WifiStates
  <2>10. InView(w)
    <3> HIDE DEF w
    <3> QED BY <1>1, <2>7, <2>9, KeyboardSizes DEF WifiGood, InView, Rows
  <2>11. WifiGood(w)
    <3> HIDE DEF w
    <3> QED BY <1>1, <2>8, <2>9, <2>10 DEF WifiGood, OwnPassword
  <2> HIDE DEF w
  <2> QED BY <1>1, <2>6, <2>11, StatusGood
<1> QED BY <1>2, <1>3, Zenon DEF ScanWifi

LEMMA ConnectGood ==
  ASSUME WifiInv, ConnectWifi PROVE WifiGood(wifi') /\ air' \in AirStates
<1>1. wifi \in WifiStates /\ WifiGood(wifi) /\ air \in AirStates
  BY DEF WifiInv, WifiGood
<1>2. CASE UNCHANGED <<wifi, air>>
  BY <1>1, <1>2
<1>3. CASE /\ wifi.ssid \in air.near /\ air' = [air EXCEPT !.joined = wifi.ssid]
           /\ RefreshWifiStatus([wifi EXCEPT !.password = <<>>], air')
  <2>1. air' \in AirStates
    BY <1>1, <1>3 DEF AirStates
  <2>2. WifiGood([wifi EXCEPT !.password = <<>>])
    BY <1>1, EmptyPassword, RetypedGood
  <2> QED BY <1>3, <2>1, <2>2, StatusGood
<1> QED BY <1>2, <1>3, Zenon DEF ConnectWifi

LEMMA DisconnectGood ==
  ASSUME WifiInv, DisconnectWifi PROVE WifiGood(wifi') /\ air' \in AirStates
<1>1. WifiGood(wifi) /\ air \in AirStates
  BY DEF WifiInv
<1>2. CASE UNCHANGED <<wifi, air>>
  BY <1>1, <1>2
<1>3. CASE air' = [air EXCEPT !.joined = None] /\ RefreshWifiStatus(wifi, air')
  <2>1. air' \in AirStates
    BY <1>1, <1>3 DEF AirStates
  <2> QED BY <1>1, <1>3, <2>1, StatusGood
<1> QED BY <1>2, <1>3, Zenon DEF DisconnectWifi

LEMMA SetCountryGood ==
  ASSUME WifiInv, SetWifiCountry PROVE WifiGood(wifi')
<1>1. wifi \in WifiStates /\ WifiGood(wifi)
  BY DEF WifiInv, WifiGood
<1>2. CASE UNCHANGED wifi
  BY <1>1, <1>2
<1>3. CASE wifi' = [wifi EXCEPT !.entry = 0]
  <2>1. wifi' \in WifiStates
    BY <1>1, <1>3 DEF WifiStates
  <2>2. /\ wifi'.view = wifi.view /\ wifi'.sel = wifi.sel
        /\ wifi'.password = wifi.password /\ wifi'.ssid = wifi.ssid
    BY <1>1, <1>3 DEF WifiStates
  <2> QED BY <1>1, <2>1, <2>2 DEF WifiGood, InView, OwnPassword
<1> QED BY <1>2, <1>3, Zenon DEF SetWifiCountry

LEMMA ExecuteWifiGood ==
  ASSUME WifiInv, ExecuteWifiAction PROVE WifiInv'
<1>1. WifiGood(wifi) /\ air \in AirStates
  BY DEF WifiInv
<1>2. CASE RefreshWifiStatus(wifi, air) /\ UNCHANGED air
  BY <1>1, <1>2, StatusGood DEF WifiInv
<1>3. CASE ScanWifi /\ UNCHANGED air
  BY <1>1, <1>3, ScanGood DEF WifiInv
<1>4. CASE ConnectWifi
  BY <1>4, ConnectGood DEF WifiInv
<1>5. CASE DisconnectWifi
  BY <1>5, DisconnectGood DEF WifiInv
<1>6. CASE SetWifiCountry /\ UNCHANGED air
  BY <1>1, <1>6, SetCountryGood DEF WifiInv
<1> QED BY <1>2, <1>3, <1>4, <1>5, <1>6, Zenon DEF ExecuteWifiAction

LEMMA WifiNextGood ==
  WifiInv /\ [WirelessNext]_wirelessVars => WifiInv'
<1> SUFFICES ASSUME WifiInv, [WirelessNext]_wirelessVars PROVE WifiInv'
  OBVIOUS
<1>1. WifiGood(wifi) /\ air \in AirStates
  BY DEF WifiInv
<1>2. CASE UNCHANGED <<wifi, air>>
  BY <1>1, <1>2 DEF WifiInv
<1>3. CASE ToolsWifi /\ UNCHANGED air
  BY <1>1, <1>3, ToolsWifiGood DEF WifiInv
<1>4. CASE WifiButton /\ UNCHANGED air
  BY <1>1, <1>4, WifiButtonGood DEF WifiInv
<1>5. CASE ExecuteWifiAction
  BY <1>5, ExecuteWifiGood
<1>6. CASE Surroundings
  <2>1. wifi' = wifi
    BY <1>6 DEF Surroundings
  <2>2. air' \in AirStates
    <3>1. CASE air' = air
      BY <1>1, <3>1
    <3>2. ASSUME NEW n \in Networks,
                 air' = [near |-> IF n \in air.near THEN air.near \ {n} ELSE air.near \cup {n},
                         joined |-> IF n = air.joined THEN None ELSE air.joined]
          PROVE  air' \in AirStates
      BY <1>1, <3>2 DEF AirStates
    <3> QED BY <1>6, <3>1, <3>2, Zenon DEF Surroundings
  <2> QED BY <1>1, <2>1, <2>2 DEF WifiInv
<1>7. ExecuteBluetoothAction \/ ToolsBluetooth \/ BluetoothButton => UNCHANGED wifi
  BY DEF ExecuteBluetoothAction, ToolsBluetooth, BluetoothButton
<1>8. ExecuteBluetoothAction => UNCHANGED air
  BY DEF ExecuteBluetoothAction
<1>9. UNCHANGED wirelessVars => UNCHANGED <<wifi, air>>
  BY DEF wirelessVars
<1> QED
  BY <1>2, <1>3, <1>4, <1>5, <1>6, <1>7, <1>8, <1>9, Zenon DEF WirelessNext, Pressed

-----------------------------------------------------------------------------
(* The Bluetooth screen.                                                   *)

BtStates ==
  [mine : BOOLEAN, filter : {"All", "Controller", "Audio"}, scanned : Seq(Known),
   paired : Seq(Known), ssel : Nat, psel : Nat,
   modal : {"None", "ConfirmForget", "ConfirmDisconnectAll"}, of : Known \cup {None},
   address : Known \cup {None}]

RadioStates == [near : SUBSET Known, paired : SUBSET Known, connected : SUBSET Known]

WifiJobs == {"RefreshStatus", "Scan", "Connect", "Disconnect", "SetCountry"}
BtJobs   == {"RefreshScanned", "RefreshPaired", "RefreshBoth", "ForgetAddressFromPaired",
             "DisconnectAllPaired"} \cup OnSelected
Queues   == [wifi : WifiJobs \cup {None}, bt : BtJobs \cup {None}]

(* The address of a pending Forget is the one asked for, and a refusal         *)
(* counts only while something is pending.                                 *)
AddressRequested ==
  /\ queued.bt = "ForgetAddressFromPaired" /\ bt.address # None => bt.address = Requested
  /\ queued.bt = None => requested.refused = None

RequestStates == [accepted : Known \cup {None}, refused : Known \cup {None}]

BtInv ==
  /\ bt \in BtStates /\ queued \in Queues /\ requested \in RequestStates
  /\ AddressRequested /\ ActsOnSelected

LEMMA DeviceList == Devices \in Seq(Known) /\ <<>> \in Seq(Known) /\ None \notin Known
<1>1. Devices \in Seq(Known) /\ None \notin Known
  BY WirelessAssumption, Zenon
<1> QED BY <1>1

LEMMA ConcatSeq ==
  ASSUME NEW S, NEW s \in Seq(S), NEW t \in Seq(S) PROVE s \o t \in Seq(S)
  OBVIOUS

LEMMA BtFields ==
  ASSUME NEW b \in BtStates
  PROVE  /\ b.mine \in BOOLEAN /\ b.filter \in {"All", "Controller", "Audio"}
         /\ b.scanned \in Seq(Known) /\ b.paired \in Seq(Known)
         /\ b.ssel \in Nat /\ b.psel \in Nat
         /\ b.of \in Known \cup {None} /\ b.address \in Known \cup {None}
  BY DEF BtStates

LEMMA SortedList ==
  ASSUME NEW S, NEW r PROVE SortBluetoothDevices(S, r) \in Seq(Known)
<1>1. \A T : Kept(Devices, T) \in Seq(Known)
  BY DeviceList, KeptList
<1> QED BY <1>1, ConcatSeq DEF SortBluetoothDevices

LEMMA ActiveList ==
  ASSUME NEW b \in BtStates
  PROVE  /\ ActiveBluetoothDevices(b) \in Seq(Known) /\ ActiveSelection(b) \in Nat
         /\ Len(ActiveBluetoothDevices(b)) \in Nat
<1>1. \A T : Kept(b.scanned, T) \in Seq(Known)
  BY BtFields, KeptList
<1>2. ActiveBluetoothDevices(b) \in Seq(Known)
  BY <1>1, BtFields, Zenon DEF ActiveBluetoothDevices
<1>3. ActiveSelection(b) \in Nat
  BY BtFields, Zenon DEF ActiveSelection
<1> QED BY <1>2, <1>3

(* What is selected depends on the lists, the selections and the filter.   *)
SameLists(b, c) ==
  /\ b.mine = c.mine /\ b.filter = c.filter /\ b.scanned = c.scanned /\ b.paired = c.paired

SameSelection(b, c) == SameLists(b, c) /\ b.ssel = c.ssel /\ b.psel = c.psel

LEMMA SameActive ==
  ASSUME NEW b, NEW c, SameLists(b, c)
  PROVE  ActiveBluetoothDevices(b) = ActiveBluetoothDevices(c)
  BY Zenon DEF SameLists, ActiveBluetoothDevices

LEMMA SameSelected ==
  ASSUME NEW b, NEW c, SameSelection(b, c)
  PROVE  SelectedBluetoothDevice(b) = SelectedBluetoothDevice(c)
<1>1. ActiveBluetoothDevices(b) = ActiveBluetoothDevices(c)
  BY SameActive DEF SameSelection
<1>2. ActiveSelection(b) = ActiveSelection(c)
  BY Zenon DEF SameSelection, SameLists, ActiveSelection
<1> QED BY <1>1, <1>2, Zenon DEF SelectedBluetoothDevice

LEMMA SelectedInList ==
  ASSUME NEW b \in BtStates, ActiveSelection(b) < Len(ActiveBluetoothDevices(b))
  PROVE  SelectedBluetoothDevice(b) \in Known
<1>1. /\ ActiveBluetoothDevices(b) \in Seq(Known)
      /\ ActiveSelection(b) + 1 \in 1..Len(ActiveBluetoothDevices(b))
  BY ActiveList
<1> QED BY <1>1 DEF SelectedBluetoothDevice

LEMMA SelectedType ==
  ASSUME NEW b \in BtStates PROVE SelectedBluetoothDevice(b) \in Known \cup {None}
<1>1. ActiveBluetoothDevices(b) \in Seq(Known)
  BY ActiveList
<1> QED BY <1>1 DEF SelectedBluetoothDevice

LEMMA NothingInEmpty ==
  ASSUME NEW b, ActiveBluetoothDevices(b) = <<>> PROVE SelectedBluetoothDevice(b) = None
<1>1. DOMAIN <<>> = {}
  OBVIOUS
<1> QED BY <1>1, Zenon DEF SelectedBluetoothDevice

(* The helpers of the screen change what they are for and nothing else.    *)
LEMMA SelectGood ==
  ASSUME NEW b \in BtStates, NEW sel \in Nat
  PROVE  /\ Select(b, sel) \in BtStates /\ SameLists(Select(b, sel), b)
         /\ Select(b, sel).address = b.address /\ Select(b, sel).of = b.of
         /\ ActiveSelection(Select(b, sel)) = sel
<1>1. CASE b.mine
  <2>1. Select(b, sel) = [b EXCEPT !.psel = sel]
    BY <1>1 DEF Select
  <2>2. Select(b, sel) \in BtStates
    BY <2>1 DEF BtStates
  <2>3. SameLists(Select(b, sel), b) /\ Select(b, sel).psel = sel
    BY <2>1 DEF BtStates, SameLists
  <2>4. Select(b, sel).address = b.address /\ Select(b, sel).of = b.of
    BY <2>1 DEF BtStates
  <2>5. ActiveSelection(Select(b, sel)) = sel
    BY <1>1, <2>3, Zenon DEF ActiveSelection, SameLists
  <2> QED BY <2>2, <2>3, <2>4, <2>5
<1>2. CASE ~b.mine
  <2>1. Select(b, sel) = [b EXCEPT !.ssel = sel]
    BY <1>2 DEF Select
  <2>2. Select(b, sel) \in BtStates
    BY <2>1 DEF BtStates
  <2>3. SameLists(Select(b, sel), b) /\ Select(b, sel).ssel = sel
    BY <2>1 DEF BtStates, SameLists
  <2>4. Select(b, sel).address = b.address /\ Select(b, sel).of = b.of
    BY <2>1 DEF BtStates
  <2>5. ActiveSelection(Select(b, sel)) = sel
    BY <1>2, <2>3, Zenon DEF ActiveSelection, SameLists
  <2> QED BY <2>2, <2>3, <2>4, <2>5
<1> QED BY <1>1, <1>2

LEMMA EnsureGood ==
  ASSUME NEW b \in BtStates
  PROVE  /\ EnsureSelectionValid(b) \in BtStates /\ SameLists(EnsureSelectionValid(b), b)
         /\ EnsureSelectionValid(b).address = b.address /\ EnsureSelectionValid(b).of = b.of
         /\ ActiveBluetoothDevices(b) # <<>> =>
              ActiveSelection(EnsureSelectionValid(b))
                < Len(ActiveBluetoothDevices(EnsureSelectionValid(b)))
<1> DEFINE sel == Clamp(ActiveSelection(b), Len(ActiveBluetoothDevices(b)))
<1>1. sel \in Nat /\ (Len(ActiveBluetoothDevices(b)) # 0 => sel < Len(ActiveBluetoothDevices(b)))
  BY ActiveList, ClampRange
<1>2. EnsureSelectionValid(b) = Select(b, sel)
  BY DEF EnsureSelectionValid
<1> HIDE DEF sel
<1>3. ActiveBluetoothDevices(Select(b, sel)) = ActiveBluetoothDevices(b)
  BY <1>1, SelectGood, SameActive
<1>4. ActiveBluetoothDevices(b) # <<>> => Len(ActiveBluetoothDevices(b)) # 0
  BY ActiveList
<1> QED BY <1>1, <1>2, <1>3, <1>4, SelectGood

LEMMA ClearGood ==
  ASSUME NEW b \in BtStates
  PROVE  /\ ClearModal(b) \in BtStates /\ SameSelection(ClearModal(b), b)
         /\ ClearModal(b).address = b.address
<1>1. ClearModal(b) \in BtStates
  BY DEF ClearModal, BtStates
<1>2. SameSelection(ClearModal(b), b) /\ ClearModal(b).address = b.address
  BY DEF ClearModal, BtStates, SameSelection, SameLists
<1> QED BY <1>1, <1>2

LEMMA AddressGood ==
  ASSUME NEW b \in BtStates, NEW d \in Known \cup {None}
  PROVE  /\ [b EXCEPT !.address = d] \in BtStates
         /\ SameSelection([b EXCEPT !.address = d], b) /\ [b EXCEPT !.address = d].address = d
<1>1. [b EXCEPT !.address = d] \in BtStates
  BY DEF BtStates
<1>2. SameSelection([b EXCEPT !.address = d], b) /\ [b EXCEPT !.address = d].address = d
  BY DEF BtStates, SameSelection, SameLists
<1> QED BY <1>1, <1>2

LEMMA JobNames ==
  /\ None # "ForgetAddressFromPaired"
  /\ None \notin OnSelected /\ "RefreshScanned" \notin OnSelected /\ "RefreshPaired" \notin OnSelected
  /\ "RefreshBoth" \notin OnSelected /\ "ForgetAddressFromPaired" \notin OnSelected
  /\ "DisconnectAllPaired" \notin OnSelected
<1>1. None \notin OnSelected /\ None # "ForgetAddressFromPaired"
  BY WirelessAssumption, Zenon
<1>2. /\ "RefreshScanned" \notin OnSelected /\ "RefreshPaired" \notin OnSelected
      /\ "RefreshBoth" \notin OnSelected /\ "ForgetAddressFromPaired" \notin OnSelected
      /\ "DisconnectAllPaired" \notin OnSelected
  BY DEF OnSelected
<1> QED BY <1>1, <1>2

LEMMA BtInitGood == WirelessInit => BtInv /\ radio \in RadioStates
<1> SUFFICES ASSUME WirelessInit PROVE BtInv /\ radio \in RadioStates
  OBVIOUS
<1>1. radio \in RadioStates
  <2>1. radio = [near |-> Known, paired |-> Paired, connected |-> {}]
    BY DEF WirelessInit
  <2>2. Paired \in SUBSET Known
    BY WirelessAssumption, Zenon
  <2> QED BY <2>1, <2>2, Zenon DEF RadioStates
<1>2. bt \in BtStates
  <2>1. bt = [mine |-> FALSE, filter |-> "All", scanned |-> <<>>, paired |-> <<>>, ssel |-> 0,
              psel |-> 0, modal |-> "None", of |-> None, address |-> None]
    BY DEF WirelessInit
  <2> QED BY <2>1, DeviceList DEF BtStates
<1>3. /\ queued = [wifi |-> None, bt |-> None]
      /\ requested = [accepted |-> None, refused |-> None]
  BY Zenon DEF WirelessInit
<1>6. bt.address = None
  BY DEF WirelessInit
<1>4. queued \in Queues /\ queued.bt = None
  BY <1>3 DEF Queues
<1>5. requested \in RequestStates /\ requested.refused = None
  BY <1>3 DEF RequestStates
<1> QED BY <1>1, <1>2, <1>4, <1>5, <1>6, JobNames DEF BtInv, AddressRequested, ActsOnSelected

(* A request for the queue: refused, or accepted with what is selected.    *)
LEMMA QueueGood ==
  ASSUME BtInv, NEW b \in BtStates, NEW action \in BtJobs, QueueBluetooth(b, action),
         requested' \in RequestStates, queued.bt = None => (requested.refused)' = None,
         (IF queued.bt = None THEN action ELSE queued.bt) = "ForgetAddressFromPaired"
           /\ b.address # None => b.address = Requested',
         action \in OnSelected => SelectedBluetoothDevice(b) # None
  PROVE  BtInv'
<1>1. bt \in BtStates /\ queued \in Queues
  BY DEF BtInv
<1>2. CASE queued.bt # None
  <2>1. /\ bt' = b /\ queued' = queued /\ aimed' = aimed
        /\ steered' = (steered \/ SelectedBluetoothDevice(b) # SelectedBluetoothDevice(bt))
    BY <1>2 DEF QueueBluetooth
  <2>2. AddressRequested'
    BY <1>2, <2>1 DEF AddressRequested
  <2>3. ActsOnSelected'
    <3>1. SUFFICES ASSUME (queued.bt)' \in OnSelected, ~steered'
                   PROVE  SelectedBluetoothDevice(b) = aimed /\ aimed # None
      BY <2>1, Zenon DEF ActsOnSelected
    <3>2. queued.bt \in OnSelected /\ ~steered
          /\ SelectedBluetoothDevice(b) = SelectedBluetoothDevice(bt)
      BY <2>1, <3>1, Zenon
    <3> QED BY <3>2, Zenon DEF BtInv, ActsOnSelected
  <2> QED BY <1>1, <2>1, <2>2, <2>3 DEF BtInv
<1>3. CASE queued.bt = None
  <2>1. /\ queued' = [queued EXCEPT !.bt = action]
        /\ bt' = [ClearModal(b) EXCEPT
                    !.address = IF action = "ForgetAddressFromPaired" THEN @ ELSE None]
        /\ aimed' = SelectedBluetoothDevice(b) /\ steered' = FALSE
    BY <1>3 DEF QueueBluetooth
  <2>2. queued' \in Queues /\ queued'.bt = action
    BY <1>1, <2>1 DEF Queues
  <2> DEFINE c == ClearModal(b)
  <2>3. c \in BtStates /\ SameSelection(c, b) /\ c.address = b.address
    BY ClearGood
  <2>4. PICK d \in {c.address, None} :
          /\ bt' = [c EXCEPT !.address = d]
          /\ d # None => action = "ForgetAddressFromPaired"
    BY <2>1, Zenon
  <2> HIDE DEF c
  <2>5. d \in Known \cup {None}
    BY <2>3, <2>4, BtFields
  <2>6. bt' \in BtStates /\ SameSelection(bt', c) /\ bt'.address = d
    BY <2>3, <2>4, <2>5, AddressGood
  <2>7. AddressRequested'
    BY <1>3, <2>2, <2>3, <2>4, <2>6 DEF AddressRequested
  <2>8. SelectedBluetoothDevice(bt') = SelectedBluetoothDevice(b)
    BY <2>3, <2>6, SameSelected
  <2>9. ActsOnSelected'
    BY <2>1, <2>2, <2>8, Zenon DEF ActsOnSelected
  <2> QED BY <2>2, <2>6, <2>7, <2>9 DEF BtInv
<1> QED BY <1>2, <1>3

(* Any request but Forget leaves what was asked for.                       *)
LEMMA QueueOther ==
  ASSUME BtInv, NEW b \in BtStates, b.address \in {bt.address, None}, UNCHANGED requested,
         NEW action \in BtJobs, action # "ForgetAddressFromPaired", QueueBluetooth(b, action),
         action \in OnSelected => SelectedBluetoothDevice(b) # None
  PROVE  BtInv'
<1>1. /\ requested' \in RequestStates /\ Requested' = Requested
      /\ queued.bt = None => (requested.refused)' = None
  BY DEF BtInv, AddressRequested, Requested
<1>2. (IF queued.bt = None THEN action ELSE queued.bt) = "ForgetAddressFromPaired"
         /\ b.address # None => b.address = Requested'
  BY <1>1 DEF BtInv, AddressRequested
<1> QED BY <1>1, <1>2, QueueGood

(* What steers the selection leaves the address alone.                     *)
LEMMA SteerGood ==
  ASSUME BtInv, NEW b \in BtStates, b.address = bt.address, Steer(b), UNCHANGED requested
  PROVE  BtInv'
<1>1. bt' = b /\ steered' = TRUE /\ queued' = queued
  BY DEF Steer
<1>2. AddressRequested' /\ requested' \in RequestStates
  BY <1>1 DEF BtInv, AddressRequested, Requested
<1>3. ActsOnSelected'
  BY <1>1 DEF ActsOnSelected
<1> QED BY <1>1, <1>2, <1>3 DEF BtInv

(* What keeps the selection keeps its promise.                             *)
LEMMA KeepGood ==
  ASSUME BtInv, NEW b \in BtStates, b.address = bt.address,
         SelectedBluetoothDevice(b) = SelectedBluetoothDevice(bt),
         bt' = b, UNCHANGED <<queued, aimed, steered, requested>>
  PROVE  BtInv'
<1>1. AddressRequested' /\ requested' \in RequestStates
  BY DEF BtInv, AddressRequested, Requested
<1>2. ActsOnSelected'
  BY Zenon DEF BtInv, ActsOnSelected
<1> QED BY <1>1, <1>2 DEF BtInv

LEMMA WifiQueueGood ==
  ASSUME BtInv, NEW action \in WifiJobs, QueueWifi(action),
         UNCHANGED <<bt, requested, aimed, steered>>
  PROVE  BtInv'
<1>1. queued \in Queues
  BY DEF BtInv
<1>2. queued' \in Queues /\ queued'.bt = queued.bt
  BY <1>1 DEF QueueWifi, Queues
<1>3. AddressRequested' /\ ActsOnSelected' /\ requested' \in RequestStates
  BY <1>2 DEF BtInv, AddressRequested, Requested, ActsOnSelected
<1> QED BY <1>2, <1>3 DEF BtInv

LEMMA SameBtGood ==
  ASSUME BtInv, UNCHANGED <<bt, queued, requested, aimed, steered>>
  PROVE  BtInv'
  BY DEF BtInv, AddressRequested, Requested, ActsOnSelected

LEMMA WifiButtonQueues ==
  ASSUME WifiButton
  PROVE  /\ UNCHANGED queued \/ \E action \in WifiJobs : QueueWifi(action)
         /\ UNCHANGED <<bt, requested, aimed, steered>>
<1>1. UNCHANGED <<bt, requested, aimed, steered>>
  BY Zenon DEF WifiButton
<1> DEFINE jobs == {"RefreshStatus", "Scan", "Connect", "Disconnect", "SetCountry"}
<1>0. WifiJobs = jobs /\ \A job \in jobs : job \in WifiJobs
  BY DEF WifiJobs
<1>2. CASE OverviewButton
  <2>1. UNCHANGED queued \/ QueueWifi("Scan") \/ QueueWifi("Disconnect")
    BY <1>2, Zenon DEF OverviewButton, ChooseWifiRow
  <2> QED BY <1>0, <1>1, <2>1, Zenon
<1>3. CASE NetworksButton
  <2>1. UNCHANGED queued \/ QueueWifi("Scan") \/ QueueWifi("Connect") \/ QueueWifi("RefreshStatus")
    BY <1>3, Zenon DEF NetworksButton, MoveNetworks, ChooseNetwork, NetworksBack
  <2> QED BY <1>0, <1>1, <2>1, Zenon
<1>4. CASE PasswordButton
  <2>1. UNCHANGED queued \/ QueueWifi("Connect")
    BY <1>4, Zenon DEF PasswordButton, PasswordDone
  <2> QED BY <1>0, <1>1, <2>1, Zenon
<1>5. CASE CountryButton
  <2>1. UNCHANGED queued \/ QueueWifi("SetCountry")
    BY <1>5, Zenon DEF CountryButton, CountryDone
  <2> QED BY <1>0, <1>1, <2>1, Zenon
<1> QED BY <1>1, <1>2, <1>3, <1>4, <1>5, Zenon DEF WifiButton

LEMMA ToolsBluetoothGood ==
  ASSUME BtInv, ToolsBluetooth PROVE BtInv'
<1> DEFINE c == ClearModal(bt)
           b == [c EXCEPT !.mine = FALSE, !.filter = "All", !.ssel = 0, !.psel = 0,
                          !.address = None]
<1>1. QueueBluetooth(b, "RefreshBoth") /\ UNCHANGED requested
  BY Zenon DEF ToolsBluetooth
<1>2. c \in BtStates
  BY ClearGood DEF BtInv
<1> HIDE DEF c
<1>3. b \in BtStates /\ b.address = None
  BY <1>2 DEF BtStates
<1> HIDE DEF b
<1>4. /\ "RefreshBoth" \in BtJobs /\ "RefreshBoth" \notin OnSelected
      /\ "RefreshBoth" # "ForgetAddressFromPaired"
  BY JobNames DEF BtJobs
<1> QED BY <1>1, <1>3, <1>4, QueueOther

LEMMA ModalGood ==
  ASSUME BtInv, ModalButton PROVE BtInv'
<1>1. bt \in BtStates /\ AddressRequested /\ bt.of \in Known \cup {None}
  BY BtFields DEF BtInv
<1>2. ASSUME bt' = ClearModal(bt), UNCHANGED <<queued, aimed, steered, requested>>
      PROVE  BtInv'
  <2> DEFINE b == ClearModal(bt)
  <2>1. b \in BtStates /\ b.address = bt.address
        /\ SelectedBluetoothDevice(b) = SelectedBluetoothDevice(bt)
    BY <1>1, ClearGood, SameSelected
  <2> HIDE DEF b
  <2>2. bt' = b
    BY <1>2 DEF b
  <2> QED BY <1>2, <2>1, <2>2, KeepGood
<1>3. CASE ConfirmForget
  <2>1. CASE bt.of = None
    <3>1. bt' = ClearModal(bt) /\ UNCHANGED <<queued, aimed, steered, requested>>
      BY <1>3, <2>1 DEF ConfirmForget
    <3> QED BY <1>2, <3>1
  <2>2. CASE bt.of # None
    <3> DEFINE b == [bt EXCEPT !.address = bt.of]
    <3>1. b \in BtStates /\ b.address = bt.of
      BY <1>1, AddressGood
    <3>2. /\ QueueBluetooth(b, "ForgetAddressFromPaired")
          /\ requested' = IF queued.bt = None THEN [requested EXCEPT !.accepted = bt.of]
                          ELSE [requested EXCEPT !.refused = bt.of]
      BY <1>3, <2>2, Zenon DEF ConfirmForget
    <3>3. /\ requested \in RequestStates /\ bt.of \in Known
          /\ queued.bt = None => requested.refused = None
      BY <1>1, <2>2 DEF BtInv, AddressRequested
    <3>4. requested' \in RequestStates
      BY <3>2, <3>3 DEF RequestStates
    <3>5. ASSUME queued.bt = None
          PROVE  Requested' = bt.of /\ (requested.refused)' = None
      <4>1. (requested.refused)' = None /\ (requested.accepted)' = bt.of
        BY <3>2, <3>3, <3>5 DEF RequestStates
      <4> QED BY <4>1 DEF Requested
    <3>6. ASSUME queued.bt # None PROVE Requested' = bt.of
      <4>1. (requested.refused)' = bt.of
        BY <3>2, <3>3, <3>6 DEF RequestStates
      <4> QED BY <2>2, <4>1 DEF Requested
    <3>7. Requested' = bt.of /\ (queued.bt = None => (requested.refused)' = None)
      BY <3>5, <3>6
    <3>8. "ForgetAddressFromPaired" \in BtJobs /\ "ForgetAddressFromPaired" \notin OnSelected
      BY JobNames DEF BtJobs
    <3> HIDE DEF b
    <3> QED BY <3>1, <3>2, <3>4, <3>7, <3>8, QueueGood
  <2> QED BY <2>1, <2>2
<1>4. CASE ConfirmDisconnectAll
  <2>1. QueueBluetooth(bt, "DisconnectAllPaired") /\ requested' = requested
    BY <1>4 DEF ConfirmDisconnectAll
  <2>2. /\ "DisconnectAllPaired" \in BtJobs /\ "DisconnectAllPaired" \notin OnSelected
        /\ "DisconnectAllPaired" # "ForgetAddressFromPaired"
    BY JobNames DEF BtJobs
  <2> QED BY <1>1, <2>1, <2>2, QueueOther
<1>5. CASE CancelModal
  <2>1. bt' = ClearModal(bt) /\ UNCHANGED <<queued, aimed, steered>> /\ requested' = requested
    BY <1>5 DEF CancelModal
  <2> QED BY <1>2, <2>1
<1> QED BY <1>3, <1>4, <1>5, Zenon DEF ModalButton

(* Buttons that change the list, the filter or the selection.              *)
LEMMA SwitchGood ==
  ASSUME BtInv, SwitchList, UNCHANGED requested PROVE BtInv'
<1> DEFINE c == ClearModal(bt)
           d == [c EXCEPT !.mine = ~c.mine]
           b == EnsureSelectionValid(d)
<1>1. c \in BtStates /\ c.address = bt.address
  BY ClearGood DEF BtInv
<1>2. [ClearModal(bt) EXCEPT !.mine = ~@] = d
  <2> HIDE DEF c
  <2> QED BY DEF c
<1>3. Steer(b)
  BY <1>2, Zenon DEF SwitchList
<1> HIDE DEF c
<1>4. d \in BtStates /\ d.address = c.address
  BY <1>1 DEF BtStates
<1> HIDE DEF d
<1>5. b \in BtStates /\ b.address = d.address
  BY <1>4, EnsureGood
<1> HIDE DEF b
<1> QED BY <1>1, <1>3, <1>4, <1>5, SteerGood

LEMMA CycleGood ==
  ASSUME BtInv, CycleBluetoothFilter, UNCHANGED requested PROVE BtInv'
<1>1. PICK i \in 1..3, step \in {1, 2} :
        Steer(EnsureSelectionValid([bt EXCEPT !.filter = Filters[((i - 1 + step) % 3) + 1]]))
  BY Zenon DEF CycleBluetoothFilter
<1> DEFINE f == Filters[((i - 1 + step) % 3) + 1]
           d == [bt EXCEPT !.filter = f]
           b == EnsureSelectionValid(d)
<1>2. f \in {"All", "Controller", "Audio"}
  <2>1. ((i - 1 + step) % 3) + 1 \in 1..3
    OBVIOUS
  <2>2. \A k \in 1..3 : Filters[k] \in {"All", "Controller", "Audio"}
    BY DEF Filters
  <2> QED BY <2>1, <2>2
<1> HIDE DEF f
<1>3. bt \in BtStates
  BY DEF BtInv
<1>4. d \in BtStates /\ d.address = bt.address
  BY <1>2, <1>3 DEF BtStates
<1>5. Steer(b)
  BY <1>1 DEF f
<1> HIDE DEF d
<1>6. b \in BtStates /\ b.address = d.address
  BY <1>4, EnsureGood
<1> HIDE DEF b
<1> QED BY <1>4, <1>5, <1>6, SteerGood

LEMMA OpenDisconnectGood ==
  ASSUME BtInv, OpenDisconnectAllModal, UNCHANGED requested PROVE BtInv'
<1> DEFINE b == [bt EXCEPT !.modal = "ConfirmDisconnectAll", !.of = None]
<1>1. bt \in BtStates
  BY DEF BtInv
<1>2. b \in BtStates /\ b.address = bt.address
  BY <1>1 DEF BtStates
<1>3. Steer(b)
  BY Zenon DEF OpenDisconnectAllModal
<1> HIDE DEF b
<1> QED BY <1>2, <1>3, SteerGood

LEMMA MoveDevicesGood ==
  ASSUME BtInv, MoveDevices, UNCHANGED requested PROVE BtInv'
<1> DEFINE devices == ActiveBluetoothDevices(bt)
           c == ClearModal(bt)
<1>1. bt \in BtStates /\ c \in BtStates /\ c.address = bt.address
  BY ClearGood DEF BtInv
<1>2. devices # <<>> /\ devices \in Seq(Known) /\ ActiveSelection(bt) \in Nat
  BY <1>1, ActiveList DEF MoveDevices
<1>3. PICK sel \in Steps(ActiveSelection(bt), Len(devices), 1) : Steer(Select(c, sel))
  BY Zenon DEF MoveDevices
<1> HIDE DEF devices, c
<1>4. Len(devices) \in Nat /\ Len(devices) > 0
  BY <1>2
<1>5. sel \in Nat
  BY <1>2, <1>3, <1>4, StepsNat
<1>6. Select(c, sel) \in BtStates /\ Select(c, sel).address = bt.address
  BY <1>1, <1>5, SelectGood
<1> QED BY <1>3, <1>6, SteerGood

LEMMA OpenForgetGood ==
  ASSUME BtInv, OpenForgetModal, UNCHANGED requested PROVE BtInv'
<1> DEFINE b == EnsureSelectionValid(bt)
           d == SelectedBluetoothDevice(b)
           e == IF d = None THEN ClearModal(b) ELSE [b EXCEPT !.modal = "ConfirmForget", !.of = d]
<1>1. bt \in BtStates
  BY DEF BtInv
<1>2. b \in BtStates /\ b.address = bt.address
  BY <1>1, EnsureGood
<1>3. Steer(e)
  BY Zenon DEF OpenForgetModal
<1>4. d \in Known \cup {None}
  BY <1>2, SelectedType
<1> HIDE DEF b, d
<1>5. e \in BtStates /\ e.address = b.address
  <2>1. CASE d = None
    BY <1>2, <2>1, ClearGood
  <2>2. CASE d # None
    <3>1. e = [b EXCEPT !.modal = "ConfirmForget", !.of = d]
      BY <2>2
    <3> QED BY <1>2, <1>4, <3>1 DEF BtStates
  <2> QED BY <2>1, <2>2
<1> HIDE DEF e
<1> QED BY <1>2, <1>3, <1>5, SteerGood

(* Buttons that queue.                                                     *)
LEMMA RescanGood ==
  ASSUME BtInv, Rescan, UNCHANGED requested PROVE BtInv'
<1> DEFINE b == ClearModal(bt)
<1>1. b \in BtStates /\ b.address = bt.address /\ AddressRequested
  BY ClearGood DEF BtInv
<1>2. PICK action \in {"RefreshScanned", "RefreshBoth"} : QueueBluetooth(b, action)
  BY Zenon DEF Rescan
<1>3. action \in BtJobs /\ action \notin OnSelected /\ action # "ForgetAddressFromPaired"
  BY JobNames DEF BtJobs
<1> HIDE DEF b
<1> QED BY <1>1, <1>2, <1>3, QueueOther

LEMMA ActOnSelectedGood ==
  ASSUME BtInv, NEW action \in OnSelected, ActOnSelected(action), UNCHANGED requested
  PROVE  BtInv'
<1> DEFINE c == ClearModal(bt)
           b == EnsureSelectionValid(c)
<1>1. bt \in BtStates /\ c \in BtStates /\ c.address = bt.address /\ SameSelection(c, bt)
  BY ClearGood DEF BtInv
<1>2. IF ActiveBluetoothDevices(b) = <<>> THEN bt' = b /\ UNCHANGED <<queued, aimed, steered>>
      ELSE QueueBluetooth(b, action)
  BY Zenon DEF ActOnSelected
<1> HIDE DEF c
<1>3. b \in BtStates /\ b.address = c.address /\ SameLists(b, c)
  BY <1>1, EnsureGood
<1>4. ActiveBluetoothDevices(b) = ActiveBluetoothDevices(c)
      /\ ActiveBluetoothDevices(c) = ActiveBluetoothDevices(bt)
  BY <1>1, <1>3, SameActive DEF SameSelection
<1>5. CASE ActiveBluetoothDevices(b) = <<>>
  <2>1. SelectedBluetoothDevice(b) = None /\ SelectedBluetoothDevice(bt) = None
    BY <1>4, <1>5, NothingInEmpty
  <2>2. bt' = b /\ UNCHANGED <<queued, aimed, steered>> /\ requested' = requested
    BY <1>2, <1>5
  <2> HIDE DEF b
  <2> QED BY <1>1, <1>3, <2>1, <2>2, KeepGood
<1>6. CASE ActiveBluetoothDevices(b) # <<>>
  <2>1. SelectedBluetoothDevice(b) \in Known
    <3>1. ActiveSelection(b) < Len(ActiveBluetoothDevices(b))
      BY <1>1, <1>4, <1>6, EnsureGood
    <3> QED BY <1>3, <3>1, SelectedInList
  <2>2. QueueBluetooth(b, action) /\ action \in BtJobs
    BY <1>2, <1>6 DEF BtJobs
  <2>3. SelectedBluetoothDevice(b) # None
    BY <2>1, DeviceList
  <2>4. b.address = bt.address /\ action # "ForgetAddressFromPaired"
    BY <1>1, <1>3, JobNames
  <2> HIDE DEF b
  <2> QED BY <1>3, <2>2, <2>3, <2>4, QueueOther
<1> QED BY <1>5, <1>6

LEMMA BackGood ==
  ASSUME BtInv, BluetoothBack, UNCHANGED requested PROVE BtInv'
<1> DEFINE b == ClearModal(bt)
<1>1. b \in BtStates /\ b.address = bt.address
      /\ SelectedBluetoothDevice(b) = SelectedBluetoothDevice(bt)
  BY ClearGood, SameSelected DEF BtInv
<1>2. bt' = b /\ UNCHANGED <<queued, aimed, steered>> /\ requested' = requested
  BY DEF BluetoothBack
<1> HIDE DEF b
<1> QED BY <1>1, <1>2, KeepGood

LEMMA BluetoothButtonGood ==
  ASSUME BtInv, BluetoothButton PROVE BtInv'
<1>1. CASE ModalButton
  BY <1>1, ModalGood
<1>2. CASE ListButton
  <2>1. UNCHANGED requested
    BY <1>2 DEF ListButton
  <2>2. CASE SwitchList
    BY <2>1, <2>2, SwitchGood
  <2>3. CASE CycleBluetoothFilter
    BY <2>1, <2>3, CycleGood
  <2>4. CASE OpenDisconnectAllModal
    BY <2>1, <2>4, OpenDisconnectGood
  <2>5. CASE MoveDevices
    BY <2>1, <2>5, MoveDevicesGood
  <2>6. CASE OpenForgetModal
    BY <2>1, <2>6, OpenForgetGood
  <2>7. CASE Rescan
    BY <2>1, <2>7, RescanGood
  <2>8. ASSUME NEW action \in OnSelected, ActOnSelected(action) PROVE BtInv'
    BY <2>1, <2>8, ActOnSelectedGood
  <2>9. CASE DeviceButton \/ PairButton
    <3>1. \E action \in OnSelected : ActOnSelected(action)
      BY <2>9, Zenon DEF DeviceButton, PairButton, OnSelected
    <3> QED BY <2>8, <3>1
  <2>10. CASE BluetoothBack
    BY <2>1, <2>10, BackGood
  <2> QED
    BY <1>2, <2>2, <2>3, <2>4, <2>5, <2>6, <2>7, <2>9, <2>10, Zenon DEF ListButton
<1> QED BY <1>1, <1>2, Zenon DEF BluetoothButton

(* What the loop runs: lists read again, and devices told what to do.      *)
LEMMA FoundList ==
  ASSUME NEW S PROVE Found(S) \subseteq Seq(Known)
<1>1. \A T, r : SortBluetoothDevices(T, r) \in Seq(Known)
  BY SortedList
<1> QED BY <1>1 DEF Found

LEMMA RefreshedScan ==
  ASSUME NEW b \in BtStates, NEW c \in RefreshScanned(b)
  PROVE  c \in BtStates /\ c.address = b.address
<1>1. PICK found \in Seq(Known) : c = [b EXCEPT !.scanned = found, !.ssel = Clamp(b.ssel, Len(found))]
  BY FoundList DEF RefreshScanned, BtStates
<1>2. Len(found) \in Nat
  BY <1>1
<1> DEFINE sel == Clamp(b.ssel, Len(found))
<1>3. sel \in Nat
  BY <1>2, ClampRange, BtFields
<1>4. c = [b EXCEPT !.scanned = found, !.ssel = sel]
  BY <1>1
<1> HIDE DEF sel
<1> QED BY <1>1, <1>3, <1>4 DEF BtStates

LEMMA RefreshedPaired ==
  ASSUME NEW b \in BtStates, NEW c \in RefreshPaired(b)
  PROVE  c \in BtStates /\ c.address = b.address
<1>1. PICK found \in Seq(Known) : c = [b EXCEPT !.paired = found, !.psel = Clamp(b.psel, Len(found))]
  BY FoundList DEF RefreshPaired, BtStates
<1>2. Len(found) \in Nat
  BY <1>1
<1> DEFINE sel == Clamp(b.psel, Len(found))
<1>3. sel \in Nat
  BY <1>2, ClampRange, BtFields
<1>4. c = [b EXCEPT !.paired = found, !.psel = sel]
  BY <1>1
<1> HIDE DEF sel
<1> QED BY <1>1, <1>3, <1>4 DEF BtStates

LEMMA RefreshedBoth ==
  ASSUME NEW b \in BtStates, RefreshBoth(b)
  PROVE  bt' \in BtStates /\ bt'.address = b.address
  BY RefreshedScan, RefreshedPaired, Zenon DEF RefreshBoth

(* An action leaves the list of devices a state of the screen, and its     *)
(* address as it was or none.                                              *)
LEMMA ExecutedBt ==
  ASSUME bt \in BtStates, ExecuteBluetoothAction
  PROVE  bt' \in BtStates /\ bt'.address \in {bt.address, None}
<1>1. ASSUME \/ bt' \in {bt} \cup RefreshScanned(bt)
             \/ bt' \in {bt} \cup RefreshPaired(bt) \/ RefreshBoth(bt)
      PROVE  bt' \in BtStates /\ bt'.address = bt.address
  BY <1>1, RefreshedScan, RefreshedPaired, RefreshedBoth, Zenon
<1>2. CASE RunOnSelected
  <2>1. UNCHANGED bt \/ RefreshBoth(bt)
    BY <1>2, Zenon DEF RunOnSelected
  <2> QED BY <1>1, <2>1
<1>3. CASE RunForget
  <2>1. CASE UNCHANGED bt
    BY <2>1
  <2>2. CASE RefreshBoth([bt EXCEPT !.address = None])
    <3> DEFINE b == [bt EXCEPT !.address = None]
    <3>1. b \in BtStates /\ b.address = None
      BY AddressGood
    <3>2. RefreshBoth(b)
      BY <2>2
    <3> HIDE DEF b
    <3> QED BY <3>1, <3>2, RefreshedBoth
  <2> QED BY <1>3, <2>1, <2>2, Zenon DEF RunForget
<1> QED BY <1>1, <1>2, <1>3, Zenon DEF ExecuteBluetoothAction

LEMMA ExecuteBluetoothGood ==
  ASSUME BtInv, ExecuteBluetoothAction PROVE BtInv'
<1>1. bt' \in BtStates /\ bt'.address \in {bt.address, None}
  BY ExecutedBt DEF BtInv
<1>2. queued' \in Queues /\ queued'.bt = None
  <2>1. queued \in Queues /\ queued' = [queued EXCEPT !.bt = None]
    BY DEF BtInv, ExecuteBluetoothAction
  <2> QED BY <2>1 DEF Queues
<1>3. AddressRequested' /\ requested' \in RequestStates
  <2>1. requested' = [accepted |-> None, refused |-> None]
    BY DEF ExecuteBluetoothAction
  <2>2. requested' \in RequestStates /\ (requested.refused)' = None
    BY <2>1 DEF RequestStates
  <2> QED BY <1>2, <2>2, JobNames DEF AddressRequested
<1>4. ActsOnSelected'
  BY <1>2, JobNames DEF ActsOnSelected
<1> QED BY <1>1, <1>2, <1>3, <1>4 DEF BtInv

LEMMA BtNextGood ==
  BtInv /\ [WirelessNext]_wirelessVars => BtInv'
<1> SUFFICES ASSUME BtInv, [WirelessNext]_wirelessVars PROVE BtInv'
  OBVIOUS
<1>1. CASE ToolsWifi
  <2>1. QueueWifi("RefreshStatus") /\ UNCHANGED <<bt, requested, aimed, steered>>
    BY <1>1, Zenon DEF ToolsWifi
  <2>2. "RefreshStatus" \in WifiJobs
    BY DEF WifiJobs
  <2> QED BY <2>1, <2>2, WifiQueueGood
<1>2. CASE ToolsBluetooth
  BY <1>2, ToolsBluetoothGood
<1>3. CASE WifiButton
  <2>1. CASE UNCHANGED queued
    BY <1>3, <2>1, WifiButtonQueues, SameBtGood
  <2>2. ASSUME NEW action \in WifiJobs, QueueWifi(action) PROVE BtInv'
    BY <1>3, <2>2, WifiButtonQueues, WifiQueueGood
  <2> QED BY <1>3, <2>1, <2>2, WifiButtonQueues, Zenon
<1>4. CASE BluetoothButton
  BY <1>4, BluetoothButtonGood
<1>5. CASE ExecuteWifiAction
  <2>1. queued' = [queued EXCEPT !.wifi = None] /\ UNCHANGED <<bt, requested, aimed, steered>>
    BY <1>5 DEF ExecuteWifiAction
  <2>2. queued' \in Queues /\ queued'.bt = queued.bt
    BY <2>1 DEF BtInv, Queues
  <2>3. AddressRequested' /\ ActsOnSelected' /\ requested' \in RequestStates
    BY <2>1, <2>2 DEF BtInv, AddressRequested, Requested, ActsOnSelected
  <2> QED BY <2>1, <2>2, <2>3 DEF BtInv
<1>6. CASE ExecuteBluetoothAction
  BY <1>6, ExecuteBluetoothGood
<1>7. CASE Surroundings
  <2>1. UNCHANGED <<bt, queued, requested, aimed, steered>>
    BY <1>7, Zenon DEF Surroundings
  <2> QED BY <2>1, SameBtGood
<1>8. CASE UNCHANGED wirelessVars
  <2>1. UNCHANGED <<bt, queued, requested, aimed, steered>>
    BY <1>8 DEF wirelessVars
  <2> QED BY <2>1, SameBtGood
<1> QED
  BY <1>1, <1>2, <1>3, <1>4, <1>5, <1>6, <1>7, <1>8, Zenon DEF WirelessNext, Pressed

(* BlueZ's lists: only Forget takes a device out of the paired ones.       *)
LEMMA RadioStep ==
  ASSUME radio \in RadioStates, NEW d \in Known
  PROVE  /\ PairAndConnect(d) => radio' \in RadioStates /\ radio.paired \subseteq radio'.paired
         /\ ConnectDevice(d) \/ DisconnectDevice(d) \/ DisconnectAllPaired =>
              radio' \in RadioStates /\ radio'.paired = radio.paired
         /\ ForgetDevice(d) => radio' \in RadioStates /\ radio.paired \ radio'.paired \subseteq {d}
<1>1. /\ radio.near \in SUBSET Known /\ radio.paired \in SUBSET Known
      /\ radio.connected \in SUBSET Known
  BY DEF RadioStates
<1>2. ASSUME NEW c \in SUBSET Known, radio' = [radio EXCEPT !.connected = c]
      PROVE  radio' \in RadioStates /\ radio'.paired = radio.paired
  BY <1>2 DEF RadioStates
<1>3. ASSUME PairAndConnect(d) PROVE radio' \in RadioStates /\ radio.paired \subseteq radio'.paired
  <2>1. radio' \in [near : {radio.near}, paired : {radio.paired, radio.paired \cup {d}},
                    connected : {radio.connected, radio.connected \cup {d}}]
    BY <1>3 DEF PairAndConnect
  <2>2. radio' \in RadioStates
    BY <1>1, <2>1 DEF RadioStates
  <2>3. radio'.paired \in {radio.paired, radio.paired \cup {d}}
    BY <2>1
  <2> QED BY <2>2, <2>3
<1>4. ASSUME ConnectDevice(d) PROVE radio' \in RadioStates /\ radio'.paired = radio.paired
  <2>1. radio' = radio \/ \E c \in SUBSET Known : radio' = [radio EXCEPT !.connected = c]
    <3>1. radio' = radio \/ radio' = [radio EXCEPT !.connected = radio.connected \cup {d}]
      BY <1>4 DEF ConnectDevice, RadioStates
    <3>2. radio.connected \cup {d} \in SUBSET Known
      BY <1>1
    <3> QED BY <3>1, <3>2
  <2> QED BY <1>2, <2>1
<1>5. ASSUME DisconnectDevice(d) PROVE radio' \in RadioStates /\ radio'.paired = radio.paired
  <2>1. radio' = radio \/ radio' = [radio EXCEPT !.connected = radio.connected \ {d}]
    BY <1>5 DEF DisconnectDevice, RadioStates
  <2>2. radio.connected \ {d} \in SUBSET Known
    BY <1>1
  <2> QED BY <1>2, <2>1, <2>2
<1>6. ASSUME DisconnectAllPaired PROVE radio' \in RadioStates /\ radio'.paired = radio.paired
  <2>1. PICK gone : radio' = [radio EXCEPT !.connected = radio.connected \ gone]
    BY <1>6 DEF DisconnectAllPaired, RadioStates
  <2>2. radio.connected \ gone \in SUBSET Known
    BY <1>1
  <2> QED BY <1>2, <2>1, <2>2
<1>7. ASSUME ForgetDevice(d)
      PROVE  radio' \in RadioStates /\ radio.paired \ radio'.paired \subseteq {d}
  <2>1. CASE DisconnectDevice(d)
    BY <1>5, <2>1
  <2>2. CASE radio' = [radio EXCEPT !.connected = radio.connected \ {d}, !.paired = radio.paired \ {d}]
    <3>1. radio' \in RadioStates
      BY <1>1, <2>2 DEF RadioStates
    <3>2. radio'.paired = radio.paired \ {d}
      BY <2>2 DEF RadioStates
    <3> QED BY <3>1, <3>2
  <2>3. DisconnectDevice(d) \/
        radio' = [radio EXCEPT !.connected = radio.connected \ {d}, !.paired = radio.paired \ {d}]
    BY <1>7 DEF ForgetDevice, RadioStates
  <2> QED BY <2>1, <2>2, <2>3
<1> QED BY <1>3, <1>4, <1>5, <1>6, <1>7

Forgets == \A d \in radio.paired \ radio'.paired : d = Requested

LEMMA ExecutedRadio ==
  ASSUME BtInv, radio \in RadioStates, ExecuteBluetoothAction
  PROVE  radio' \in RadioStates /\ Forgets
<1>1. bt \in BtStates /\ AddressRequested
  BY DEF BtInv
<1>2. CASE UNCHANGED radio
  BY <1>2 DEF Forgets
<1>3. CASE DisconnectAllPaired
  <2>1. PICK d : d \in Known
    BY DeviceList, WirelessAssumption
  <2> QED BY <1>3, <2>1, RadioStep DEF Forgets
<1>4. CASE RunOnSelected /\ ~UNCHANGED radio
  <2> DEFINE d == SelectedBluetoothDevice(bt)
  <2>1. d # None /\ (PairAndConnect(d) \/ ConnectDevice(d) \/ DisconnectDevice(d))
    BY <1>4, Zenon DEF RunOnSelected
  <2>2. d \in Known
    BY <1>1, <2>1, SelectedType
  <2> HIDE DEF d
  <2>3. radio' \in RadioStates /\ radio.paired \subseteq radio'.paired
    BY <2>1, <2>2, RadioStep
  <2> QED BY <2>3 DEF Forgets
<1>5. CASE queued.bt = "ForgetAddressFromPaired" /\ RunForget /\ ~UNCHANGED radio
  <2>1. bt.address # None /\ ForgetDevice(bt.address)
    BY <1>5, Zenon DEF RunForget, ForgetTarget
  <2>2. bt.address \in Known /\ bt.address = Requested
    BY <1>1, <1>5, <2>1, BtFields DEF AddressRequested
  <2>3. radio' \in RadioStates /\ radio.paired \ radio'.paired \subseteq {bt.address}
    BY <2>1, <2>2, RadioStep
  <2> QED BY <2>2, <2>3 DEF Forgets
<1> QED BY <1>2, <1>3, <1>4, <1>5, Zenon DEF ExecuteBluetoothAction

LEMMA RadioNext ==
  ASSUME BtInv, radio \in RadioStates, [WirelessNext]_wirelessVars
  PROVE  radio' \in RadioStates /\ Forgets
<1>1. CASE UNCHANGED radio
  BY <1>1 DEF Forgets
<1>2. CASE ExecuteBluetoothAction
  BY <1>2, ExecutedRadio
<1>3. CASE Surroundings
  <2>1. ASSUME NEW d \in Known,
               radio' = [radio EXCEPT !.connected = IF d \in @ THEN @ \ {d} ELSE @ \cup {d}]
        PROVE  radio' \in RadioStates /\ radio'.paired = radio.paired
    BY <2>1 DEF RadioStates
  <2>2. ASSUME NEW d \in radio.near, radio' = [radio EXCEPT !.near = @ \ {d}]
        PROVE  radio' \in RadioStates /\ radio'.paired = radio.paired
    BY <2>2 DEF RadioStates
  <2>3. CASE UNCHANGED radio
    BY <2>3, <1>1
  <2>4. UNCHANGED radio \/ (radio' \in RadioStates /\ radio'.paired = radio.paired)
    BY <1>3, <2>1, <2>2, Zenon DEF Surroundings
  <2> QED BY <2>3, <2>4 DEF Forgets
<1>4. ExecuteWifiAction \/ UNCHANGED wirelessVars => UNCHANGED radio
  BY DEF ExecuteWifiAction, wirelessVars
<1> QED BY <1>1, <1>2, <1>3, <1>4, Zenon DEF WirelessNext

-----------------------------------------------------------------------------
(* On the overview and the two keyboards of the Wi-Fi screen the selection *)
(* is in range, for keyboards and lists of any size: also after a scan     *)
(* that ends there and shortens the list it was made for.                  *)
THEOREM IndexStaysInRange == WirelessSpec => []IndexInRange
<1>1. WirelessInit => WifiInv
  BY WifiInitGood
<1>2. WifiInv /\ [WirelessNext]_wirelessVars => WifiInv'
  BY WifiNextGood
<1>3. WifiInv => IndexInRange
  BY WifiFields DEF WifiInv, WifiGood, InView, IndexInRange
<1> QED BY <1>1, <1>2, <1>3, PTL DEF WirelessSpec

(* The password on the keyboard is the chosen network's, however many      *)
(* networks and attempts there are.                                        *)
THEOREM PasswordStaysOwn == WirelessSpec => []PasswordOwn
<1>1. WirelessInit => WifiInv
  BY WifiInitGood
<1>2. WifiInv /\ [WirelessNext]_wirelessVars => WifiInv'
  BY WifiNextGood
<1>3. WifiInv => PasswordOwn
  BY DEF WifiInv, WifiGood, OwnPassword, PasswordOwn
<1> QED BY <1>1, <1>2, <1>3, PTL DEF WirelessSpec

(* A queued action on a device meets the device that was selected when it  *)
(* was queued, unless a button changed the selection since.                *)
THEOREM ActionsMeetSelected == WirelessSpec => []ActsOnSelected
<1>1. WirelessInit => BtInv
  BY BtInitGood
<1>2. BtInv /\ [WirelessNext]_wirelessVars => BtInv'
  BY BtNextGood
<1>3. BtInv => ActsOnSelected
  BY DEF BtInv
<1> QED BY <1>1, <1>2, <1>3, PTL DEF WirelessSpec

(* The device forgotten is the one whose dialog queued the request, or the *)
(* one of a later dialog, refused as busy while the request waited.        *)
THEOREM ForgottenConfirmed == WirelessSpec => ForgetConfirmed
<1> DEFINE Inv == BtInv /\ radio \in RadioStates
<1>1. WirelessInit => Inv
  BY BtInitGood
<1>2. Inv /\ [WirelessNext]_wirelessVars => Inv'
  BY BtNextGood, RadioNext
<1>3. Inv /\ [WirelessNext]_wirelessVars =>
        [\A d \in radio.paired \ radio'.paired : d = Requested]_wirelessVars
  BY RadioNext DEF Forgets
<1> QED BY <1>1, <1>2, <1>3, PTL DEF WirelessSpec, ForgetConfirmed

-----------------------------------------------------------------------------
(***************************************************************************)
(*                             The screens                                 *)
(***************************************************************************)

(* The shell.  A list of consoles or games has no entry twice, and one of  *)
(* its rows is selected.                                                   *)
RowOf(sel, l) == sel \in Nat \ {0} /\ (l # <<>> => sel <= Len(l))

ScreenNames ==
  {"Home", "Systems", "SystemMenu", "GameList", "GameMenu", "Details", "LaunchOptions", "Settings",
   "ScrapeProgress", "InputSetup", "InputTest", "Tools", "Wifi", "Bluetooth", "Update", "Nest"}
UiType   == [screen : ScreenNames, back : ScreenNames, confirm : BOOLEAN, running : BOOLEAN, redraw : BOOLEAN]
ListType == [view : Views \cup {"system"}, system : Systems, games : Seq(Games), sel : Nat]
CardType == [systems : Seq(Systems), sel : Nat]
BrowseType == [screen : {"systems", "games"}, at : [BrowseKeys -> Games \cup {None}]]
CatalogType ==
  [files : SUBSET Games, present : SUBSET Games, hidden : SUBSET (Games \cup {None}),
   favorite : SUBSET (Games \cup {None}), recent : Seq(Games), systems : SUBSET Systems,
   show_hidden : BOOLEAN]
PendingType ==
  [tool : {None, "scan", "identify", "other"}, scrape : BOOLEAN, radios : SUBSET Radios,
   launch : Games \cup {None}, mode : Modes, retroarch : BOOLEAN]

ListGood(l)    == l \in ListType /\ IsInjective(l.games) /\ RowOf(l.sel, l.games)
CardsGood(c)   == c \in CardType /\ IsInjective(c.systems) /\ RowOf(c.sel, c.systems) /\ (c.systems = <<>> => c.sel = 1)
CatalogGood(c) == c \in CatalogType /\ IsInjective(c.recent)

LEMMA TitlesLemma == Range(Titles) = Games /\ Range(Consoles) = Systems
BY DEF Games, Systems

LEMMA InRange ==
  ASSUME NEW S, NEW s \in Seq(S)
  PROVE  /\ \A i \in 1..Len(s) : s[i] \in S /\ s[i] \in Range(s)
         /\ \A x \in Range(s) : x \in S /\ \E i \in 1..Len(s) : s[i] = x
         /\ DOMAIN s = 1..Len(s) /\ Len(s) \in Nat /\ (s # <<>> <=> Len(s) > 0)
BY DEF Range

(* The lists that the catalog gives.                                       *)
LEMMA SystemsListed ==
  ASSUME NEW c \in CatalogType
  PROVE  /\ ListSystems(c) \in Seq(Systems) /\ IsInjective(ListSystems(c))
         /\ Range(ListSystems(c)) = c.systems
<1>1. c.systems \subseteq Systems
  BY DEF CatalogType
<1>2. Consoles \in Seq(Systems) /\ IsInjective(Consoles) /\ Range(Consoles) = Systems
  BY ShellAssumption, TitlesLemma
<1>3. /\ Kept(Consoles, c.systems) \in Seq(Systems) /\ IsInjective(Kept(Consoles, c.systems))
      /\ Range(Kept(Consoles, c.systems)) = Range(Consoles) \cap c.systems
  BY <1>2, KeptList, Zenon
<1>4. Systems \cap c.systems = c.systems
  BY <1>1
<1> QED
  BY <1>2, <1>3, <1>4, Zenon DEF ListSystems

LEMMA GamesListed ==
  ASSUME NEW c, CatalogGood(c), NEW view, NEW system
  PROVE  Listed(c, view, system) \in Seq(Games) /\ IsInjective(Listed(c, view, system))
<1>1. c.recent \in Seq(Games) /\ IsInjective(c.recent)
  BY DEF CatalogGood, CatalogType
<1>2. \A T : /\ Kept(c.recent, T) \in Seq(Games) /\ IsInjective(Kept(c.recent, T))
             /\ Kept(Titles, T) \in Seq(Games) /\ IsInjective(Kept(Titles, T))
  BY <1>1, ShellAssumption, KeptList
<1> DEFINE visible == IF c.show_hidden THEN c.present ELSE c.present \ c.hidden
<1>3. \E T : Listed(c, view, system) = Kept(c.recent, T) \/ Listed(c, view, system) = Kept(Titles, T)
  <2>1. CASE view = "recent"
    <3>1. Listed(c, view, system) = Kept(c.recent, visible)
      BY <2>1, Zenon DEF Listed
    <3> QED BY <3>1
  <2>2. CASE view = "favorites"
    <3>1. Listed(c, view, system) = Kept(Titles, visible \cap c.favorite)
      BY <2>2 DEF Listed
    <3> QED BY <3>1
  <2>3. CASE view # "recent" /\ view # "favorites"
    <3>1. Listed(c, view, system) = Kept(Titles, {g \in visible : SystemOf[g] = system})
      BY <2>3 DEF Listed
    <3> QED BY <3>1
  <2> QED BY <2>1, <2>2, <2>3
<1> QED
  BY <1>2, <1>3

LEMMA BrowseKeyLemma == ASSUME NEW l \in ListType PROVE BrowseKey(l) \in BrowseKeys
BY DEF ListType, BrowseKey, BrowseKeys, Views

LEMMA SelectedLemma ==
  ASSUME NEW l, ListGood(l)
  PROVE  /\ Selected(l) \in Games \cup {None}
         /\ l.games # <<>> => Selected(l) = l.games[l.sel] /\ Selected(l) \in Games /\ l.sel \in 1..Len(l.games)
<1>1. l.games \in Seq(Games) /\ RowOf(l.sel, l.games)
  BY DEF ListGood, ListType
<1> QED
  BY <1>1, InRange DEF Selected, RowOf

LEMMA ClampLemma ==
  ASSUME NEW S, NEW s \in Seq(S), NEW sel \in Nat \ {0}
  PROVE  RowOf(ClampSelection(sel, Len(s)), s) /\ ClampSelection(sel, Len(s)) \in Nat
BY InRange DEF RowOf, ClampSelection

LEMMA LoadedSystems ==
  ASSUME NEW c \in CatalogType, CardsGood(cards)
  PROVE  /\ CardsGood(LoadSystems(c)) /\ LoadSystems(c).systems = ListSystems(c)
         /\ LoadSystems(c).systems = cards.systems => LoadSystems(c) = cards
<1> DEFINE new == ListSystems(c)
           old == cards.systems[cards.sel]
           found == CHOOSE i \in DOMAIN new : new[i] = old
           clamped == ClampSelection(cards.sel, Len(new))
           has == cards.sel \in DOMAIN cards.systems /\ Contains(new, old)
           sel == IF has THEN found ELSE clamped
<1>1. new \in Seq(Systems) /\ IsInjective(new) /\ DOMAIN new = 1..Len(new) /\ Len(new) \in Nat
  BY SystemsListed, InRange
<1>2. /\ cards.systems \in Seq(Systems) /\ RowOf(cards.sel, cards.systems) /\ cards.sel \in Nat
      /\ DOMAIN cards.systems = 1..Len(cards.systems) /\ Len(cards.systems) \in Nat
  BY InRange DEF CardsGood, CardType
<1>3. LoadSystems(c) = [systems |-> new, sel |-> sel]
  BY DEF LoadSystems
<1>4. has => found \in DOMAIN new /\ new[found] = old
  BY <1>1 DEF Contains
<1>5. RowOf(clamped, new) /\ clamped \in Nat /\ (new = <<>> => clamped = 1)
  BY <1>1, <1>2, ClampLemma, InRange DEF RowOf, ClampSelection
<1>6. RowOf(sel, new) /\ sel \in Nat /\ (new = <<>> => sel = 1)
  <2>1. new = <<>> => ~has
    BY <1>1, <1>4
  <2> HIDE DEF new, has
  <2> QED
    BY <1>1, <1>4, <1>5, <2>1 DEF RowOf
<1>7. new = cards.systems => sel = cards.sel
  <2>1. CASE new = cards.systems /\ cards.systems # <<>>
    <3>1. cards.sel \in DOMAIN cards.systems
      BY <1>2, <2>1, InRange DEF RowOf
    <3>2. Contains(new, old)
      <4>1. new[cards.sel] = old /\ cards.sel \in 1..Len(new)
        BY <1>2, <2>1, <3>1
      <4> HIDE DEF new, old
      <4> QED BY <4>1 DEF Contains
    <3> QED BY <3>1, <3>2, <1>1, <1>4, <2>1 DEF IsInjective
  <2>2. CASE new = cards.systems /\ cards.systems = <<>>
    BY <2>2, <1>6 DEF CardsGood
  <2> QED BY <2>1, <2>2
<1> DEFINE p == LoadSystems(c)
<1> HIDE DEF new, sel, p
<1>8. p.systems = new /\ p.sel = sel /\ p \in CardType
  BY <1>1, <1>3, <1>6 DEF CardType, p
<1>9. CardsGood(p)
  BY <1>1, <1>6, <1>8 DEF CardsGood
<1>10. p.systems = cards.systems => p = cards
  <2>1. p = [systems |-> p.systems, sel |-> p.sel]
    BY <1>3, <1>8 DEF p
  <2>2. cards = [systems |-> cards.systems, sel |-> cards.sel]
    BY DEF CardsGood, CardType
  <2> QED
    BY <1>7, <1>8, <2>1, <2>2
<1> USE DEF new, p
<1> QED
  BY <1>8, <1>9, <1>10

(* A list loaded shows its games, on the row of the one remembered.        *)
LEMMA LoadedGames ==
  ASSUME NEW c, CatalogGood(c), NEW l \in ListType, l.sel # 0, NEW b \in BrowseType
  PROVE  LET n == LoadGames(c, l, b)
             saved == b.at[BrowseKey(l)]
         IN /\ ListGood(n) /\ n.view = l.view /\ n.system = l.system
            /\ saved \in Range(n.games) => Selected(n) = saved
<1> DEFINE rows == Listed(c, l.view, l.system)
           m == [l EXCEPT !.games = rows]
           n == LoadGames(c, l, b)
           saved == b.at[BrowseKey(l)]
           found == CHOOSE i \in DOMAIN rows : rows[i] = saved
           sel == IF saved \in Range(rows) THEN found ELSE ClampSelection(l.sel, Len(rows))
<1>1. rows \in Seq(Games) /\ IsInjective(rows)
  BY GamesListed
<1>2. m \in ListType /\ m.games = rows /\ m.view = l.view /\ m.system = l.system /\ m.sel = l.sel
  <2> HIDE DEF rows
  <2> QED BY <1>1 DEF ListType
<1>3. BrowseKey(m) = BrowseKey(l)
  BY <1>2, Zenon DEF BrowseKey
<1>4. n = [m EXCEPT !.sel = sel]
  <2>1. n = RestoreGameSelection(m, b)
    BY Zenon DEF LoadGames
  <2>2. RestoreGameSelection(m, b) = [m EXCEPT !.sel = IF b.at[BrowseKey(m)] \in Range(m.games) THEN CHOOSE i \in DOMAIN m.games : m.games[i] = b.at[BrowseKey(m)]
                       ELSE ClampSelection(m.sel, Len(m.games))]
    BY Zenon DEF RestoreGameSelection
  <2> HIDE DEF m, n, rows
  <2> QED BY <2>1, <2>2, <1>2, <1>3
<1>5. saved \in Range(rows) => found \in DOMAIN rows /\ rows[found] = saved
  <2> HIDE DEF rows, saved
  <2> QED BY DEF Range
<1>6. l.sel \in Nat \ {0}
  BY DEF ListType
<1>7. RowOf(sel, rows) /\ sel \in Nat
  <2>1. saved \in Range(rows) => found \in Nat /\ RowOf(found, rows)
    <3> HIDE DEF rows, saved, found
    <3> QED BY <1>1, <1>5, InRange DEF RowOf
  <2> HIDE DEF rows, saved, found
  <2> QED BY <1>1, <1>6, <2>1, ClampLemma
<1>8. n \in ListType /\ n.games = rows /\ n.view = l.view /\ n.system = l.system /\ n.sel = sel
  <2> HIDE DEF m, n, rows, sel
  <2> QED BY <1>2, <1>4, <1>7 DEF ListType
<1>9. saved \in Range(rows) => Selected(n) = saved
  <2>1. saved \in Range(rows) => rows # <<>> /\ sel = found
    BY DEF Range
  <2> HIDE DEF n, rows, saved, found, sel
  <2> QED BY <2>1, <1>5, <1>8 DEF Selected
<1>10. ListGood(n)
  <2> HIDE DEF n, rows, sel, saved
  <2> QED BY <1>1, <1>7, <1>8 DEF ListGood
<1> QED
  BY <1>8, <1>9, <1>10, Zenon

(* What is remembered of a list.                                           *)
LEMMA RememberedGame ==
  ASSUME NEW b \in BrowseType, NEW l, ListGood(l)
  PROVE  LET r == RememberCurrentGame(b, l)
         IN /\ r \in BrowseType /\ r.screen = b.screen
            /\ r.at[BrowseKey(l)] = IF l.games = <<>> THEN b.at[BrowseKey(l)] ELSE Selected(l)
<1> DEFINE r == RememberCurrentGame(b, l)
           k == BrowseKey(l)
           g == Selected(l)
<1>1. k \in BrowseKeys /\ g \in Games \cup {None}
  BY BrowseKeyLemma, SelectedLemma DEF ListGood
<1>3. /\ [b EXCEPT !.at[k] = g] \in BrowseType /\ [b EXCEPT !.at[k] = g].screen = b.screen
      /\ [b EXCEPT !.at[k] = g].at[k] = g
  <2> DEFINE at == [b.at EXCEPT ![k] = g]
  <2> HIDE DEF r, k, g
  <2>1. at \in [BrowseKeys -> Games \cup {None}] /\ at[k] = g
    BY <1>1 DEF BrowseType
  <2>2. [b EXCEPT !.at[k] = g] = [b EXCEPT !.at = at]
    OBVIOUS
  <2> HIDE DEF at
  <2> QED BY <2>1, <2>2 DEF BrowseType
<1>2. r = IF l.games = <<>> THEN b ELSE [b EXCEPT !.at[k] = g]
  BY Zenon DEF RememberCurrentGame
<1> HIDE DEF r, k, g
<1> QED
  BY <1>2, <1>3, Zenon DEF r, k, g

-----------------------------------------------------------------------------
(* Each button.                                                            *)

MenuType == [game : Games \cup {None}, shown : Games \cup {None}, back : ScreenNames]
NestType == [busy : BOOLEAN, changed : BOOLEAN, launch : NestGames \cup {None}]

ShellTypes ==
  /\ CatalogGood(catalog) /\ CardsGood(cards) /\ ListGood(list) /\ browse \in BrowseType
  /\ ui \in UiType /\ menu \in MenuType /\ options \in ScreenNames
  /\ pending \in PendingType /\ nest \in NestType

(* What a step may do with the lists.                                      *)
ListsStay == UNCHANGED <<catalog, cards, list>>
Loads(l, b) == list' = LoadGames(catalog, l, b) /\ catalog' = catalog /\ ui'.screen = "GameList"
ListOfSystem(s) == [view |-> "system", system |-> s, games |-> <<>>, sel |-> 1]

ListMoves ==
  \/ list' = list
  \/ list' = ReloadGameList(catalog')
  \/ \E view \in Views : Loads([list EXCEPT !.view = view, !.sel = 1], Remembered)
  \/ \E s \in Systems : Loads(ListOfSystem(s), RememberCurrentGame(browse, list))
  \/ /\ catalog' = catalog
     /\ \E n \in 1..Len(list.games) : list' = [list EXCEPT !.sel = n]
CardMoves ==
  \/ cards' = cards
  \/ cards' = LoadSystems(catalog')
  \/ \E n \in 1..Len(cards.systems) : cards' = [cards EXCEPT !.sel = n]

PressedOrBack == Press \/ PressBack

LEMMA ModLemma ==
  ASSUME NEW n \in Nat, n # 0, NEW sel \in 1..n, NEW i \in {sel + 1, sel - 1 + n}
  PROVE  ((i - 1) % n) + 1 \in 1..n
OBVIOUS

LEMMA PressedLemma ==
  ASSUME PressedOrBack
  PROVE  phase = "input" /\ phase' = "input" /\ browse' = Remembered
BY DEF PressedOrBack, Press, PressBack, Accepts, Remember

LEMMA QuietButtons ==
  ASSUME ShellButtons
  PROVE  /\ PressedOrBack
         /\ \/ ListsStay
            \/ PressSelect \/ HomeBrowse \/ \E view \in Views : HomeView(view)
            \/ MoveCards \/ OpenSystem \/ MoveGames \/ SwitchSystem \/ GamesBack
            \/ MenuFavorite \/ MenuHide \/ SettingsHidden
<1> USE DEF PressedOrBack, ListsStay, lists
<1>1. CASE Back
  BY <1>1 DEF Back, NestLeaves, ScrapeBack, HomeBack, SystemsBack, SystemMenuBack, GamesBack, MenuBack,
              DetailsBack, OptionsBack, SettingsBack, InputBack, ToolsBack, ToTools, GoHome
<1>2. CASE NestJob \/ ScrapeDone \/ PressStart \/ PressSelect \/ HomeNest \/ HomeContinue \/ HomeBrowse
           \/ HomeTools \/ HomeSettings
  BY <1>2 DEF NestJob, ScrapeDone, PressStart, PressSelect, HomeNest, HomeContinue, HomeBrowse,
              HomeTools, HomeSettings
<1>3. CASE MoveCards \/ OpenSystem \/ SystemOptions \/ SystemHome \/ MoveGames
           \/ SwitchSystem \/ ChooseGame \/ MenuDetails \/ MenuFavorite \/ MenuHide \/ MenuOptions \/ MenuHome
  BY <1>3 DEF MoveCards, OpenSystem, SystemOptions, SystemHome, MoveGames,
           SwitchSystem, ChooseGame, MenuDetails, MenuFavorite, MenuHide, MenuOptions, MenuHome, GoHome
<1>4. CASE SettingsHidden \/ SettingsScrape \/ SettingsInput \/ InputTest \/ MoveTools \/ ToolRetroArch
           \/ ToolExit \/ RadioAction
  BY <1>4 DEF SettingsHidden, SettingsScrape, SettingsInput, InputTest, MoveTools, ToolRetroArch,
           ToolExit, RadioAction
<1>5. CASE \/ \E g \in NestGames : NestPlays(g)
           \/ \E view \in Views : HomeView(view)
           \/ \E mode \in Modes : MenuPlays(mode)
           \/ \E tool \in {"scan", "identify", "other"} : ToolAction(tool)
           \/ \E place \in {"InputSetup", "Update"} : ToolScreen(place)
           \/ \E kind \in Radios : ToolRadio(kind)
  BY <1>5 DEF NestPlays, HomeView, MenuPlays, ToolAction, ToolScreen, ToolRadio
<1> QED
  BY <1>1, <1>2, <1>3, <1>4, <1>5 DEF ShellButtons

LEMMA ButtonMoves ==
  ASSUME ShellTypes, ShellButtons
  PROVE  ListMoves /\ CardMoves /\ CatalogGood(catalog')
<1>1. CASE ListsStay
  BY <1>1 DEF ListsStay, ListMoves, CardMoves, ShellTypes
<1>2. ui \in UiType
  BY DEF ShellTypes
<1>3. Go("GameList") => ui'.screen = "GameList"
  BY <1>2 DEF Go, UiType
<1>4. CardsGood(cards) /\ ListGood(list) /\ CatalogGood(catalog)
  BY DEF ShellTypes
<1>5. /\ cards.systems \in Seq(Systems) /\ RowOf(cards.sel, cards.systems)
      /\ list.games \in Seq(Games) /\ RowOf(list.sel, list.games)
  BY <1>4 DEF CardsGood, CardType, ListGood, ListType
<1>6. /\ cards.systems # <<>> => Len(cards.systems) \in Nat /\ Len(cards.systems) # 0 /\ cards.sel \in 1..Len(cards.systems)
      /\ list.games # <<>> => Len(list.games) \in Nat /\ Len(list.games) # 0 /\ list.sel \in 1..Len(list.games)
  BY <1>5, InRange DEF RowOf
<1>7. CASE PressSelect \/ GamesBack
  BY <1>7, <1>4 DEF PressSelect, GamesBack, ListMoves, CardMoves
<1>8. CASE HomeBrowse
  BY <1>8, <1>4 DEF HomeBrowse, ListMoves, CardMoves
<1>9. CASE \E view \in Views : HomeView(view)
  <2>1. PICK view \in Views : HomeView(view)
    BY <1>9
  <2>2. /\ Go("GameList") /\ catalog' = catalog /\ cards' = cards
        /\ list' = LoadGames(catalog, [list EXCEPT !.view = view, !.sel = 1], Remembered)
    BY <2>1 DEF HomeView
  <2>3. Loads([list EXCEPT !.view = view, !.sel = 1], Remembered)
    BY <2>2, <1>3, Zenon DEF Loads
  <2> QED
    BY <2>2, <2>3, <1>4 DEF ListMoves, CardMoves
<1>10. CASE MoveCards
  <2>1. PICK i \in {cards.sel + 1, cards.sel - 1 + Len(cards.systems)} :
          cards' = [cards EXCEPT !.sel = ((i - 1) % Len(cards.systems)) + 1]
    BY <1>10 DEF MoveCards
  <2>2. ((i - 1) % Len(cards.systems)) + 1 \in 1..Len(cards.systems)
    BY <1>6, <1>10, <2>1, ModLemma DEF MoveCards
  <2> QED
    BY <2>1, <2>2, <1>10, <1>4 DEF MoveCards, ListMoves, CardMoves
<1>11. CASE OpenSystem
  <2>1. cards.systems[cards.sel] \in Systems
    BY <1>5, <1>6, <1>11, InRange DEF OpenSystem
  <2>2. /\ Go("GameList") /\ catalog' = catalog /\ cards' = cards
        /\ list' = SelectSystem(cards.systems[cards.sel])
    BY <1>11 DEF OpenSystem
  <2>3. Loads(ListOfSystem(cards.systems[cards.sel]), RememberCurrentGame(browse, list))
    BY <2>2, <1>3, Zenon DEF Loads, ListOfSystem, SelectSystem
  <2> QED
    BY <2>1, <2>2, <2>3, <1>4 DEF ListMoves, CardMoves
<1>12. CASE MoveGames
  <2>1. PICK i \in {list.sel + 1, list.sel - 1 + Len(list.games)} :
          list' = [list EXCEPT !.sel = ((i - 1) % Len(list.games)) + 1]
    BY <1>12 DEF MoveGames
  <2>2. ((i - 1) % Len(list.games)) + 1 \in 1..Len(list.games)
    BY <1>6, <1>12, <2>1, ModLemma DEF MoveGames
  <2> QED
    BY <2>1, <2>2, <1>12, <1>4 DEF MoveGames, ListMoves, CardMoves
<1>13. CASE SwitchSystem
  <2>1. PICK i \in {cards.sel + 1, cards.sel - 1 + Len(cards.systems)} :
          cards' = [cards EXCEPT !.sel = ((i - 1) % Len(cards.systems)) + 1]
    BY <1>13 DEF SwitchSystem
  <2> DEFINE n == ((i - 1) % Len(cards.systems)) + 1
  <2>2. n \in 1..Len(cards.systems)
    BY <1>6, <1>13, <2>1, ModLemma DEF SwitchSystem
  <2> HIDE DEF n
  <2>3. cards' = [cards EXCEPT !.sel = n] /\ cards'.sel = n
    BY <2>1, <1>4 DEF n, CardsGood, CardType
  <2>4. cards.systems[cards'.sel] \in Systems
    BY <2>2, <2>3, <1>5, InRange
  <2>5. ui'.screen = "GameList" /\ catalog' = catalog /\ list' = SelectSystem(cards.systems[cards'.sel])
    BY <1>13, <1>2 DEF SwitchSystem, Stay, On, Go, UiType
  <2> QED
    BY <2>2, <2>3, <2>4, <2>5, <1>4 DEF SelectSystem, ListMoves, CardMoves, Loads, ListOfSystem
<1>14. CASE MenuFavorite \/ MenuHide \/ SettingsHidden
  <2>1. list' = ReloadGameList(catalog') /\ (cards' = LoadSystems(catalog') \/ cards' = cards)
    BY <1>14 DEF MenuFavorite, MenuHide, SettingsHidden
  <2>2. catalog \in CatalogType /\ menu.game \in Games \cup {None}
    BY <1>4 DEF CatalogGood, ShellTypes, MenuType
  <2>3. CatalogGood(catalog')
    <3>1. \/ catalog' = [catalog EXCEPT !.favorite = Toggle(catalog.favorite, menu.game)]
          \/ catalog' = [catalog EXCEPT !.hidden = Toggle(catalog.hidden, menu.game)]
          \/ catalog' = [catalog EXCEPT !.show_hidden = ~catalog.show_hidden]
      BY <1>14 DEF MenuFavorite, MenuHide, SettingsHidden
    <3>2. \A X \in SUBSET (Games \cup {None}) : Toggle(X, menu.game) \in SUBSET (Games \cup {None})
      BY <2>2 DEF Toggle
    <3>3. /\ Toggle(catalog.favorite, menu.game) \in SUBSET (Games \cup {None})
          /\ Toggle(catalog.hidden, menu.game) \in SUBSET (Games \cup {None})
      BY <2>2, <3>2 DEF CatalogType
    <3>4. catalog' \in CatalogType /\ catalog'.recent = catalog.recent
      BY <2>2, <3>1, <3>3 DEF CatalogType
    <3> QED
      BY <3>4, <1>4 DEF CatalogGood
  <2> QED
    BY <2>1, <2>3 DEF ListMoves, CardMoves
<1> QED
  BY QuietButtons, <1>1, <1>7, <1>8, <1>9, <1>10, <1>11, <1>12, <1>13, <1>14

MenuMoves ==
  \/ menu' = menu
  \/ \E g \in Games, b \in ScreenNames : menu' = [game |-> g, shown |-> g, back |-> b]
  \/ menu' = [menu EXCEPT !.shown = menu.game]

(* What is asked for, and what waits for a launch.                         *)
SameRequests ==
  /\ asked' = asked /\ nest'.launch = nest.launch
  /\ pending'.launch = pending.launch /\ pending'.mode = pending.mode

LEMMA NamesLemma ==
  /\ "Home" \in ScreenNames /\ "Systems" \in ScreenNames /\ "SystemMenu" \in ScreenNames
  /\ "GameList" \in ScreenNames /\ "GameMenu" \in ScreenNames /\ "Details" \in ScreenNames
  /\ "LaunchOptions" \in ScreenNames /\ "Settings" \in ScreenNames
  /\ "ScrapeProgress" \in ScreenNames /\ "InputSetup" \in ScreenNames /\ "InputTest" \in ScreenNames
  /\ "Tools" \in ScreenNames /\ "Update" \in ScreenNames /\ "Nest" \in ScreenNames
  /\ "Wifi" \in ScreenNames /\ "Bluetooth" \in ScreenNames
  /\ Radios \subseteq ScreenNames
BY DEF ScreenNames, Radios

LEMMA GoLemma ==
  ASSUME ui \in UiType
  PROVE  /\ \A s \in ScreenNames : Go(s) => ui' \in UiType /\ ui'.screen = s /\ ui'.back = ui.back /\ ui'.redraw
         /\ \A s \in ScreenNames : GoUnconfirmed(s) => ui' \in UiType /\ ui'.screen = s /\ ui'.back = ui.back /\ ui'.redraw
         /\ \A s, b \in ScreenNames : GoFrom(s, b) => ui' \in UiType /\ ui'.screen = s /\ ui'.back = b /\ ui'.redraw
         /\ Stay => ui' \in UiType /\ ui'.screen = ui.screen /\ ui'.back = ui.back /\ ui'.redraw
         /\ Redraw => ui' \in UiType /\ ui'.screen = ui.screen /\ ui'.back = ui.back /\ ui'.redraw
<1>1. ui.screen \in ScreenNames
  BY DEF UiType
<1>2. \A s \in ScreenNames : Go(s) => ui' \in UiType /\ ui'.screen = s /\ ui'.back = ui.back /\ ui'.redraw
  BY DEF Go, UiType
<1>3. \A s \in ScreenNames : GoUnconfirmed(s) => ui' \in UiType /\ ui'.screen = s /\ ui'.back = ui.back /\ ui'.redraw
  BY DEF GoUnconfirmed, UiType
<1>4. \A s, b \in ScreenNames : GoFrom(s, b) => ui' \in UiType /\ ui'.screen = s /\ ui'.back = b /\ ui'.redraw
  BY DEF GoFrom, UiType
<1>5. Redraw => ui' \in UiType /\ ui'.screen = ui.screen /\ ui'.back = ui.back /\ ui'.redraw
  BY DEF Redraw, UiType
<1> QED
  BY <1>1, <1>2, <1>3, <1>4, <1>5 DEF Stay

(* Every button has the screen drawn again.                                *)
Drawing == ui' \in UiType /\ ui'.redraw

LEMMA ButtonUi == ASSUME ShellTypes, ShellButtons PROVE Drawing
<1> USE DEF Drawing
<1>1. ui \in UiType /\ ui.screen \in ScreenNames /\ ui.back \in ScreenNames /\ menu.back \in ScreenNames /\ options \in ScreenNames
  BY DEF ShellTypes, UiType, MenuType
<1>2. /\ \A s \in ScreenNames : Go(s) => Drawing
      /\ \A s \in ScreenNames : GoUnconfirmed(s) => Drawing
      /\ \A s, b \in ScreenNames : GoFrom(s, b) => Drawing
      /\ Stay => Drawing
  BY <1>1, GoLemma
<1>3. CASE PressStart
  <2>1. CASE \E s \in ScreenNames : GoUnconfirmed(s)
    BY <2>1, <1>2
  <2>2. CASE ui' = [ui EXCEPT !.screen = "Home", !.back = ui.screen, !.confirm = FALSE, !.redraw = TRUE]
    BY <2>2, <1>1, NamesLemma DEF UiType
  <2>3. \A p \in {<<"Details", "GameMenu">>, <<"GameMenu", menu.back>>, <<"Systems", "SystemMenu">>,
                     <<"SystemMenu", "Systems">>, <<"Home", ui.back>>} : p[2] \in ScreenNames
    BY <1>1, NamesLemma
  <2> QED
    BY <2>1, <2>2, <2>3, <1>3, NamesLemma DEF PressStart
<1>4. CASE ToolExit
  BY <1>1, <1>4 DEF ToolExit, UiType
<1> HIDE DEF Drawing
<1>5. CASE Back
  BY <1>1, <1>2, <1>5, NamesLemma DEF Back, NestLeaves, ScrapeBack, HomeBack, SystemsBack, SystemMenuBack, GamesBack, MenuBack,
              DetailsBack, OptionsBack, SettingsBack, InputBack, ToolsBack, ToTools, GoHome
<1>6. CASE NestJob \/ ScrapeDone \/ PressSelect \/ HomeNest \/ HomeContinue \/ HomeBrowse
           \/ HomeTools \/ HomeSettings
  BY <1>1, <1>2, <1>6, NamesLemma DEF NestJob, ScrapeDone, PressSelect, HomeNest, HomeContinue, HomeBrowse,
              HomeTools, HomeSettings
<1>7. CASE MoveCards \/ OpenSystem \/ SystemOptions \/ SystemHome \/ MoveGames
           \/ SwitchSystem \/ ChooseGame \/ MenuDetails \/ MenuFavorite \/ MenuHide \/ MenuOptions \/ MenuHome
  BY <1>1, <1>2, <1>7, NamesLemma DEF MoveCards, OpenSystem, SystemOptions, SystemHome, MoveGames,
           SwitchSystem, ChooseGame, MenuDetails, MenuFavorite, MenuHide, MenuOptions, MenuHome, GoHome
<1>8. CASE SettingsHidden \/ SettingsScrape \/ SettingsInput \/ InputTest \/ MoveTools \/ ToolRetroArch
           \/ RadioAction
  BY <1>1, <1>2, <1>8, NamesLemma DEF SettingsHidden, SettingsScrape, SettingsInput, InputTest, MoveTools, ToolRetroArch,
           RadioAction
<1>9. CASE \/ \E g \in NestGames : NestPlays(g)
           \/ \E view \in Views : HomeView(view)
           \/ \E mode \in Modes : MenuPlays(mode)
           \/ \E tool \in {"scan", "identify", "other"} : ToolAction(tool)
           \/ \E place \in {"InputSetup", "Update"} : ToolScreen(place)
           \/ \E kind \in Radios : ToolRadio(kind)
  BY <1>1, <1>2, <1>9, NamesLemma DEF NestPlays, HomeView, MenuPlays, ToolAction, ToolScreen, ToolRadio, Radios
<1> QED
  BY <1>3, <1>4, <1>5, <1>6, <1>7, <1>8, <1>9 DEF ShellButtons

LEMMA ContinueLemma ==
  ASSUME NEW c \in CatalogType
  PROVE  RefreshContinue(c) \in Games \cup {None}
<1> DEFINE recent == Kept(c.recent, c.present \ c.hidden)
<1>1. recent \in Seq(Games)
  BY KeptList DEF CatalogType
<1>2. recent # <<>> => Head(recent) \in Games
  <2> HIDE DEF recent
  <2> QED BY <1>1
<1>3. RefreshContinue(c) = IF recent = <<>> THEN None ELSE Head(recent)
  BY DEF RefreshContinue
<1> HIDE DEF recent
<1> QED
  BY <1>2, <1>3

(* A button asks for nothing, for a game of Nest's or for the menu's.      *)
LEMMA ButtonRequests ==
  ASSUME ShellTypes, ShellButtons
  PROVE  /\ pending' \in PendingType /\ nest' \in NestType
         /\ \/ SameRequests
            \/ \E g \in NestGames : NestPlays(g)
            \/ \E mode \in Modes : MenuPlays(mode)
<1>1. /\ pending \in PendingType /\ nest \in NestType /\ menu.game \in Games \cup {None}
  BY DEF ShellTypes, MenuType
<1> DEFINE Result == /\ pending' \in PendingType /\ nest' \in NestType
                     /\ \/ SameRequests
                        \/ \E g \in NestGames : NestPlays(g)
                        \/ \E mode \in Modes : MenuPlays(mode)
<1> SUFFICES Result
  OBVIOUS
<1>2. ASSUME UNCHANGED <<pending, nest, asked>> PROVE Result
  BY <1>1, <1>2 DEF SameRequests
<1>3. ASSUME pending' = pending, asked' = asked, nest' = [nest EXCEPT !.busy = TRUE] PROVE Result
  BY <1>1, <1>3 DEF SameRequests, NestType
<1>4. ASSUME asked' = asked, nest' = nest,
             \/ pending' = [pending EXCEPT !.scrape = TRUE]
             \/ pending' = [pending EXCEPT !.retroarch = pending.retroarch \/ pending.launch = None]
             \/ \E kind \in Radios : pending' = [pending EXCEPT !.radios = pending.radios \cup {kind}]
             \/ \E tool \in {"scan", "identify", "other"} : pending' = [pending EXCEPT !.tool = tool]
      PROVE  Result
  <2>1. CASE pending' = [pending EXCEPT !.scrape = TRUE]
    BY <1>1, <1>4, <2>1 DEF SameRequests, PendingType
  <2>2. CASE pending' = [pending EXCEPT !.retroarch = pending.retroarch \/ pending.launch = None]
    <3> DEFINE new == pending.retroarch \/ pending.launch = None
    <3>1. new \in BOOLEAN
      BY <1>1 DEF PendingType
    <3> HIDE DEF new
    <3>2. pending' = [pending EXCEPT !.retroarch = new]
      BY <2>2 DEF new
    <3> QED
      BY <3>1, <3>2, <1>1, <1>4 DEF SameRequests, PendingType
  <2>3. CASE \E kind \in Radios : pending' = [pending EXCEPT !.radios = pending.radios \cup {kind}]
    BY <1>1, <1>4, <2>3 DEF SameRequests, PendingType
  <2>4. CASE \E tool \in {"scan", "identify", "other"} : pending' = [pending EXCEPT !.tool = tool]
    BY <1>1, <1>4, <2>4 DEF SameRequests, PendingType
  <2> QED
    BY <1>4, <2>1, <2>2, <2>3, <2>4
<1>5. ASSUME NEW g \in NestGames, NestPlays(g) PROVE Result
  BY <1>1, <1>5 DEF NestPlays, NestType
<1>6. ASSUME NEW mode \in Modes, MenuPlays(mode) PROVE Result
  <2>1. pending' = [pending EXCEPT !.mode = mode, !.launch = menu.game] /\ nest' = nest
    BY <1>6 DEF MenuPlays
  <2> QED
    BY <2>1, <1>1, <1>6 DEF PendingType
<1> HIDE DEF Result
<1>7. CASE Back
  BY <1>7, <1>2 DEF Back, NestLeaves, ScrapeBack, HomeBack, SystemsBack, SystemMenuBack, GamesBack, MenuBack,
              DetailsBack, OptionsBack, SettingsBack, InputBack, ToolsBack, ToTools, PressBack, work
<1>8. CASE NestJob \/ ScrapeDone \/ PressStart \/ PressSelect \/ HomeNest \/ HomeContinue \/ HomeBrowse
           \/ HomeTools \/ HomeSettings
  BY <1>8, <1>2, <1>3 DEF NestJob, ScrapeDone, PressStart, PressSelect, HomeNest, HomeContinue, HomeBrowse,
              HomeTools, HomeSettings, work
<1>9. CASE MoveCards \/ OpenSystem \/ SystemOptions \/ SystemHome \/ MoveGames
           \/ SwitchSystem \/ ChooseGame \/ MenuDetails \/ MenuFavorite \/ MenuHide \/ MenuOptions \/ MenuHome
  BY <1>9, <1>2 DEF MoveCards, OpenSystem, SystemOptions, SystemHome, MoveGames,
           SwitchSystem, ChooseGame, MenuDetails, MenuFavorite, MenuHide, MenuOptions, MenuHome, work
<1>10. CASE SettingsHidden \/ SettingsScrape \/ SettingsInput \/ InputTest \/ MoveTools \/ ToolRetroArch
           \/ ToolExit \/ RadioAction
  BY <1>10, <1>2, <1>4 DEF SettingsHidden, SettingsScrape, SettingsInput, InputTest, MoveTools, ToolRetroArch,
           ToolExit, RadioAction, work
<1>11. CASE \/ \E view \in Views : HomeView(view)
            \/ \E tool \in {"scan", "identify", "other"} : ToolAction(tool)
            \/ \E place \in {"InputSetup", "Update"} : ToolScreen(place)
            \/ \E kind \in Radios : ToolRadio(kind)
  BY <1>11, <1>2, <1>4 DEF HomeView, ToolAction, ToolScreen, ToolRadio, work
<1> QED
  BY <1>5, <1>6, <1>7, <1>8, <1>9, <1>10, <1>11 DEF ShellButtons

LEMMA ButtonMenus ==
  ASSUME ShellTypes, ShellButtons
  PROVE  MenuMoves /\ options' \in ScreenNames /\ menu' \in MenuType
<1>1. /\ ui.screen \in ScreenNames /\ options \in ScreenNames /\ menu \in MenuType
      /\ menu.game \in Games \cup {None} /\ menu.back \in ScreenNames /\ ListGood(list)
      /\ catalog \in CatalogType
  BY DEF ShellTypes, UiType, MenuType, CatalogGood
<1> DEFINE Result == MenuMoves /\ options' \in ScreenNames
<1> SUFFICES Result
  BY <1>1 DEF MenuMoves, MenuType
<1>2. ASSUME UNCHANGED <<menu, options>> PROVE Result
  BY <1>1, <1>2 DEF MenuMoves
<1>3. ASSUME NEW g \in Games, OpenGameMenu(g), options' = options PROVE Result
  BY <1>1, <1>3 DEF MenuMoves, OpenGameMenu
<1>4. ASSUME menu' = [menu EXCEPT !.shown = menu.game], options' = options PROVE Result
  BY <1>1, <1>4 DEF MenuMoves
<1>5. ASSUME menu' = menu, options' \in {"GameMenu", "SystemMenu"} PROVE Result
  BY <1>1, <1>5, NamesLemma DEF MenuMoves
<1> HIDE DEF Result
<1>6. CASE Back
  BY <1>6, <1>2, <1>4 DEF Back, NestLeaves, ScrapeBack, HomeBack, SystemsBack, SystemMenuBack, GamesBack, MenuBack,
              DetailsBack, OptionsBack, SettingsBack, InputBack, ToolsBack, ToTools, GoHome, lists
<1>7. CASE NestJob \/ ScrapeDone \/ PressSelect \/ HomeNest \/ HomeBrowse \/ HomeTools \/ HomeSettings
  BY <1>7, <1>2 DEF NestJob, ScrapeDone, PressSelect, HomeNest, HomeBrowse, HomeTools, HomeSettings, lists
<1>8. CASE PressStart
  <2>1. list.games # <<>> => Selected(list) \in Games
    BY <1>1, SelectedLemma
  <2> QED
    BY <2>1, <1>8, <1>2, <1>3 DEF PressStart
<1>9. CASE HomeContinue
  <2>1. CASE cont' # None
    <3>1. cont' \in Games
      BY <2>1, <1>9, <1>1, ContinueLemma DEF HomeContinue
    <3>2. OpenGameMenu(cont') /\ options' = options
      BY <2>1, <1>9 DEF HomeContinue
    <3>3. menu' = [game |-> cont', shown |-> cont', back |-> IF On("Details") THEN menu.back ELSE ui.screen]
      BY <3>2 DEF OpenGameMenu
    <3>4. (IF On("Details") THEN menu.back ELSE ui.screen) \in ScreenNames
      BY <1>1
    <3> QED
      BY <3>1, <3>2, <3>3, <3>4, <1>1 DEF Result, MenuMoves
  <2> QED
    BY <2>1, <1>9, <1>2 DEF HomeContinue
<1>10. CASE ChooseGame
  <2>1. Selected(list) \in Games
    BY <1>1, <1>10, SelectedLemma DEF ChooseGame
  <2> QED
    BY <2>1, <1>10, <1>3 DEF ChooseGame
<1>11. CASE MoveCards \/ OpenSystem \/ SystemOptions \/ SystemHome \/ MoveGames
           \/ SwitchSystem \/ MenuDetails \/ MenuFavorite \/ MenuHide \/ MenuOptions \/ MenuHome
  BY <1>11, <1>2, <1>4, <1>5 DEF MoveCards, OpenSystem, SystemOptions, SystemHome, MoveGames,
           SwitchSystem, MenuDetails, MenuFavorite, MenuHide, MenuOptions, MenuHome, GoHome
<1>12. CASE SettingsHidden \/ SettingsScrape \/ SettingsInput \/ InputTest \/ MoveTools \/ ToolRetroArch
           \/ ToolExit \/ RadioAction
  BY <1>12, <1>2 DEF SettingsHidden, SettingsScrape, SettingsInput, InputTest, MoveTools, ToolRetroArch,
           ToolExit, RadioAction, lists
<1>13. CASE \/ \E g \in NestGames : NestPlays(g)
            \/ \E view \in Views : HomeView(view)
            \/ \E mode \in Modes : MenuPlays(mode)
            \/ \E tool \in {"scan", "identify", "other"} : ToolAction(tool)
            \/ \E place \in {"InputSetup", "Update"} : ToolScreen(place)
            \/ \E kind \in Radios : ToolRadio(kind)
  BY <1>13, <1>2 DEF NestPlays, HomeView, MenuPlays, ToolAction, ToolScreen, ToolRadio, lists
<1> QED
  BY <1>6, <1>7, <1>8, <1>9, <1>10, <1>11, <1>12, <1>13 DEF ShellButtons

-----------------------------------------------------------------------------
(* The rest of an iteration, and what goes on behind the shell.            *)

LEMMA PlayedFirst ==
  ASSUME NEW s \in Seq(Games), IsInjective(s), NEW g \in Games
  PROVE  LET r == <<g>> \o Kept(s, Games \ {g}) IN r \in Seq(Games) /\ IsInjective(r)
<1> DEFINE k == Kept(s, Games \ {g})
           r == <<g>> \o k
<1>1. k \in Seq(Games) /\ IsInjective(k) /\ Range(k) = Range(s) \cap (Games \ {g})
  BY KeptList
<1> HIDE DEF k
<1>2. /\ r \in Seq(Games) /\ DOMAIN r = 1..(Len(k) + 1) /\ r[1] = g /\ Len(k) \in Nat
      /\ \A i \in 2..(Len(k) + 1) : r[i] = k[i - 1]
  BY <1>1
<1>3. \A i \in 1..Len(k) : k[i] # g /\ i \in DOMAIN k
  BY <1>1, InRange
<1> HIDE DEF r
<1>4. ASSUME NEW i \in DOMAIN r, NEW j \in DOMAIN r, r[i] = r[j] PROVE i = j
  <2>1. /\ i = 1 \/ (i \in 2..(Len(k) + 1) /\ i - 1 \in 1..Len(k))
        /\ j = 1 \/ (j \in 2..(Len(k) + 1) /\ j - 1 \in 1..Len(k))
    BY <1>2
  <2>2. CASE i = 1 \/ j = 1
    BY <2>1, <2>2, <1>2, <1>3, <1>4
  <2>3. CASE i # 1 /\ j # 1
    <3>1. i - 1 = j - 1
      BY <2>1, <2>3, <1>1, <1>2, <1>3, <1>4 DEF IsInjective
    <3> QED
      BY <3>1, <1>2
  <2> QED
    BY <2>2, <2>3
<1> QED
  BY <1>2, <1>4 DEF IsInjective, r, k

LEMMA ScannedLemma == ASSUME NEW c, CatalogGood(c) PROVE CatalogGood(Scanned(c))
BY DEF CatalogGood, CatalogType, Scanned

LoopListMoves ==
  \/ list' = list
  \/ phase # "input" /\ list' = ReloadGameList(catalog')
  \/ phase = "refresh" /\ list' = [list EXCEPT !.games = <<>>]
LoopBrowseMoves == browse' = browse \/ browse' = Remembered \/ browse' = RememberCurrentGame(browse, list)

LEMMA LaunchMoves ==
  ASSUME ShellTypes, Launch
  PROVE  /\ CatalogGood(catalog') /\ phase # "input"
         /\ list' = ReloadGameList(catalog') /\ cards' = LoadSystems(catalog')
         /\ browse' = RememberCurrentGame(browse, list)
<1>1. catalog \in CatalogType /\ IsInjective(catalog.recent) /\ pending.launch \in Games
  BY DEF ShellTypes, CatalogGood, PendingType, Launch
<1> DEFINE recent == <<pending.launch>> \o Kept(catalog.recent, Games \ {pending.launch})
<1>2. catalog' = catalog \/ catalog' = [catalog EXCEPT !.recent = recent]
  BY DEF Launch
<1>3. recent \in Seq(Games) /\ IsInjective(recent)
  BY <1>1, PlayedFirst DEF CatalogType
<1> HIDE DEF recent
<1>4. CatalogGood([catalog EXCEPT !.recent = recent])
  BY <1>1, <1>3 DEF CatalogType, CatalogGood
<1> QED
  BY <1>2, <1>4 DEF ShellTypes, Launch

LEMMA LoopMoves ==
  ASSUME ShellTypes, Loop \/ Others
  PROVE  LoopListMoves /\ LoopBrowseMoves /\ CardMoves /\ CatalogGood(catalog') /\ (Others => list' = list)
<1>1. CatalogGood(catalog) /\ CatalogGood(Scanned(catalog))
  BY ScannedLemma DEF ShellTypes
<1> USE DEF LoopListMoves, LoopBrowseMoves, CardMoves
<1>2. CASE Launch
  BY <1>2, LaunchMoves DEF Others
<1>3. CASE RunTool
  <2>1. phase = "work" /\ (catalog' = catalog \/ catalog' = Scanned(catalog))
    BY <1>3 DEF RunTool
  <2>2. cards' = cards \/ cards' = LoadSystems(catalog')
    BY <1>3 DEF RunTool
  <2>3. \/ list' = list /\ browse' = browse
        \/ list' = ReloadGameList(catalog') /\ browse' = RememberCurrentGame(browse, list)
    BY <1>3 DEF RunTool
  <2>4. ~Others
    BY <2>1, <1>3 DEF Others, RunTool
  <2> QED
    BY <2>1, <2>2, <2>3, <2>4, <1>1, <1>3
<1>4. CASE PollNest
  <2>1. phase = "work" /\ (catalog' = catalog \/ catalog' = Scanned(catalog))
    BY <1>4 DEF PollNest
  <2>2. cards' = cards \/ cards' = LoadSystems(catalog')
    BY <1>4 DEF PollNest
  <2>3. \/ list' = list /\ browse' = browse
        \/ list' = ReloadGameList(catalog') /\ browse' = RememberCurrentGame(browse, list)
    BY <1>4 DEF PollNest
  <2> QED
    BY <2>1, <2>2, <2>3, <1>1 DEF Others
<1>5. CASE RefreshLibrary
  BY <1>5, <1>1 DEF RefreshLibrary, Remember, Others
<1>6. CASE EndOfInput \/ BeginScrape \/ NotDue \/ ExecuteRadio \/ LaunchRetroArch \/ DrawScreen
  BY <1>6, <1>1 DEF EndOfInput, BeginScrape, NotDue, ExecuteRadio, LaunchRetroArch, DrawScreen, lists, Remember
<1>7. CASE ScrapeNext
  BY <1>7, <1>1 DEF ScrapeNext
<1>8. CASE Others
  <2>1. CASE \E g \in Games : FileChanges(g)
    <3>1. PICK g \in Games : FileChanges(g)
      BY <2>1
    <3>2. Toggle(catalog.files, g) \in SUBSET Games
      BY <1>1 DEF CatalogGood, CatalogType, Toggle
    <3>3. CatalogGood([catalog EXCEPT !.files = Toggle(catalog.files, g)])
      BY <3>2, <1>1 DEF CatalogGood, CatalogType
    <3> QED
      BY <3>1, <3>3 DEF FileChanges, lists
  <2>2. CASE DaemonScans \/ NestJobEnds \/ Leave
    BY <2>2, <1>1 DEF DaemonScans, NestJobEnds, Leave, lists
  <2>3. CASE \E s \in Systems : SystemAppears(s)
    <3>1. PICK s \in Systems : SystemAppears(s)
      BY <2>3
    <3>2. CatalogGood([catalog EXCEPT !.systems = catalog.systems \cup {s}])
      BY <1>1 DEF CatalogGood, CatalogType
    <3> QED
      BY <3>1, <3>2 DEF SystemAppears, lists
  <2> QED
    BY <1>8, <2>1, <2>2, <2>3 DEF Others
<1> QED
  BY <1>2, <1>3, <1>4, <1>5, <1>6, <1>7, <1>8 DEF Loop

LEMMA LaunchTypes ==
  ASSUME ShellTypes, Launch
  PROVE  /\ ui' \in UiType /\ ui'.redraw /\ ui'.back = ui.back /\ ui'.screen \in {"Nest", "GameMenu"}
         /\ menu' = [menu EXCEPT !.shown = menu.game] /\ menu' \in MenuType
         /\ pending' = [pending EXCEPT !.launch = None] /\ pending' \in PendingType
         /\ options' = options /\ nest' = nest
<1>1. ui \in UiType /\ menu \in MenuType /\ pending \in PendingType
  BY DEF ShellTypes
<1>2. Go("Nest") \/ Go("GameMenu")
  BY DEF Launch
<1>3. ui' \in UiType /\ ui'.redraw /\ ui'.back = ui.back /\ ui'.screen \in {"Nest", "GameMenu"}
  BY <1>1, <1>2, GoLemma, NamesLemma
<1>4. pending' = [pending EXCEPT !.launch = None] /\ pending' \in PendingType
  BY <1>1 DEF Launch, PendingType
<1>5. menu' = [menu EXCEPT !.shown = menu.game] /\ menu' \in MenuType
  BY <1>1 DEF Launch, MenuType
<1> QED
  BY <1>3, <1>4, <1>5 DEF Launch

LEMMA PollTypes ==
  ASSUME ShellTypes, PollNest
  PROVE  /\ ui' \in UiType /\ ui'.screen = ui.screen /\ ui'.back = ui.back /\ options' = options
         /\ (ui'.redraw <=> ui.redraw \/ NestRefreshes \/ nest.launch # None)
         /\ menu' \in MenuType /\ pending' \in PendingType /\ nest' \in NestType
         /\ menu'.shown = menu.shown /\ nest'.launch = None
         /\ \/ menu' = menu /\ pending' = pending
            \/ /\ nest.launch \in Games /\ menu'.game = nest.launch
               /\ pending'.launch = nest.launch /\ pending'.mode = "Fresh"
<1>1. ui \in UiType /\ menu \in MenuType /\ pending \in PendingType /\ nest \in NestType /\ catalog' \in CatalogType
  BY LoopMoves DEF ShellTypes, CatalogGood, Loop
<1>2. ui' \in UiType /\ ui'.screen = ui.screen /\ ui'.back = ui.back
      /\ (ui'.redraw <=> ui.redraw \/ NestRefreshes \/ nest.launch # None)
  <2> DEFINE new == ui.redraw \/ NestRefreshes \/ nest.launch # None
  <2>1. ui' = [ui EXCEPT !.redraw = new] /\ new \in BOOLEAN
    BY <1>1 DEF PollNest, UiType
  <2>2. ui' \in UiType /\ ui'.screen = ui.screen /\ ui'.back = ui.back /\ ui'.redraw = new
    <3> HIDE DEF new
    <3> QED BY <2>1, <1>1 DEF UiType
  <2> QED BY <2>2
<1>3. nest' \in NestType /\ nest'.launch = None
  <2> DEFINE busy == nest.busy \/ nest.launch # None
             altered == nest.changed /\ nest.busy
  <2>1. nest' = [busy |-> busy, changed |-> altered, launch |-> None] /\ busy \in BOOLEAN /\ altered \in BOOLEAN
    BY <1>1 DEF PollNest, NestType
  <2> HIDE DEF busy, altered
  <2> QED
    BY <2>1 DEF NestType
<1>4. CASE nest.launch \in catalog'.present
  <2>1. nest.launch \in Games
    BY <1>1, <1>4 DEF CatalogType
  <2>2. /\ menu' = [menu EXCEPT !.back = "Nest", !.game = nest.launch]
        /\ pending' = [pending EXCEPT !.launch = nest.launch, !.mode = "Fresh"]
    BY <1>4 DEF PollNest, NestLaunch
  <2>3. menu' \in MenuType /\ menu'.game = nest.launch /\ menu'.shown = menu.shown
    BY <2>1, <2>2, <1>1, NamesLemma DEF MenuType
  <2>4. pending' \in PendingType /\ pending'.launch = nest.launch /\ pending'.mode = "Fresh"
    BY <2>1, <2>2, <1>1, ShellAssumption DEF PendingType
  <2> QED
    BY <1>2, <1>3, <2>1, <2>3, <2>4 DEF PollNest
<1>5. CASE nest.launch \notin catalog'.present
  BY <1>1, <1>2, <1>3, <1>5 DEF PollNest
<1> QED
  BY <1>4, <1>5

LEMMA LoopTypes ==
  ASSUME ShellTypes, Loop \/ Others
  PROVE  /\ ui' \in UiType /\ ui'.back = ui.back /\ options' = options
         /\ (Launch \/ ui'.screen = ui.screen)
         /\ menu' \in MenuType /\ pending' \in PendingType /\ nest' \in NestType
         /\ (Launch \/ PollNest \/ (/\ menu' = menu /\ pending'.launch = pending.launch
                                    /\ pending'.mode = pending.mode /\ nest'.launch = nest.launch))
<1>1. ui \in UiType /\ menu \in MenuType /\ pending \in PendingType /\ nest \in NestType
  BY DEF ShellTypes
<1>2. CASE Launch
  BY <1>1, <1>2, LaunchTypes
<1>3. CASE PollNest
  BY <1>3, PollTypes
<1>4. Redraw => ui' \in UiType /\ ui'.screen = ui.screen /\ ui'.back = ui.back
  BY <1>1, GoLemma
<1>5. CASE RunTool
  <2>1. ui.screen \in ScreenNames
    BY <1>1 DEF UiType
  <2>2. ui' \in UiType /\ ui'.screen = ui.screen /\ ui'.back = ui.back
    BY <1>1, <1>5, <2>1, GoLemma DEF RunTool
  <2>3. pending' \in PendingType /\ pending'.launch = pending.launch /\ pending'.mode = pending.mode
    BY <1>1, <1>5 DEF RunTool, PendingType
  <2> QED
    BY <1>1, <1>5, <2>2, <2>3 DEF RunTool
<1>6. CASE BeginScrape
  <2>1. pending' \in PendingType /\ pending'.launch = pending.launch /\ pending'.mode = pending.mode
    BY <1>1, <1>6 DEF BeginScrape, PendingType
  <2> QED
    BY <1>1, <1>4, <1>6, <2>1 DEF BeginScrape, lists
<1>7. CASE ExecuteRadio
  <2>1. pending' \in PendingType /\ pending'.launch = pending.launch /\ pending'.mode = pending.mode
    BY <1>1, <1>7 DEF ExecuteRadio, RadioDone, PendingType
  <2> QED
    BY <1>1, <1>4, <1>7, <2>1 DEF ExecuteRadio, lists
<1>8. CASE LaunchRetroArch
  <2>1. pending' \in PendingType /\ pending'.launch = pending.launch /\ pending'.mode = pending.mode
    BY <1>1, <1>8 DEF LaunchRetroArch, PendingType
  <2> QED
    BY <1>1, <1>4, <1>8, <2>1 DEF LaunchRetroArch, lists
<1>9. CASE ScrapeNext
  BY <1>1, <1>4, <1>9 DEF ScrapeNext
<1>10. CASE DrawScreen
  <2>1. ui' \in UiType /\ ui'.screen = ui.screen /\ ui'.back = ui.back
    BY <1>1, <1>10 DEF DrawScreen, UiType
  <2> QED
    BY <2>1, <1>1, <1>10 DEF DrawScreen, lists, work
<1>11. CASE EndOfInput \/ NotDue
  BY <1>1, <1>11 DEF EndOfInput, NotDue, lists, work
<1>12. CASE RefreshLibrary
  <2> DEFINE new == ui.redraw \/ cont' # cont \/ details' # details
                    \/ LibraryUiSignature(cards', list') # LibraryUiSignature(cards, list)
  <2>1. ui' = [ui EXCEPT !.redraw = new] /\ new \in BOOLEAN
    BY <1>1, <1>12 DEF RefreshLibrary, UiType
  <2> HIDE DEF new
  <2>2. ui' \in UiType /\ ui'.screen = ui.screen /\ ui'.back = ui.back
    BY <2>1, <1>1 DEF UiType
  <2> QED
    BY <2>2, <1>1, <1>12 DEF RefreshLibrary, work
<1>13. CASE Others
  <2>1. ASSUME NestJobEnds PROVE nest' \in NestType /\ nest'.launch = nest.launch
    <3>1. PICK altered \in BOOLEAN : nest' = [nest EXCEPT !.busy = FALSE, !.changed = nest.changed \/ altered]
      BY <2>1 DEF NestJobEnds
    <3> DEFINE new == nest.changed \/ altered
    <3>2. new \in BOOLEAN
      BY <1>1 DEF NestType
    <3>3. nest' = [nest EXCEPT !.busy = FALSE, !.changed = new]
      BY <3>1
    <3> HIDE DEF new
    <3> QED
      BY <3>2, <3>3, <1>1 DEF NestType
  <2> QED
    BY <1>1, <1>13, <2>1 DEF Others, FileChanges, DaemonScans, NestJobEnds, Leave, SystemAppears, lists, work
<1> QED
  BY <1>2, <1>3, <1>5, <1>6, <1>7, <1>8, <1>9, <1>10, <1>11, <1>12, <1>13 DEF Loop

LEMMA RememberedBrowse ==
  ASSUME ShellTypes
  PROVE  /\ RememberCurrentGame(browse, list) \in BrowseType /\ Remembered \in BrowseType
         /\ RememberCurrentGame(browse, list).screen = browse.screen
         /\ Remembered.at = RememberCurrentGame(browse, list).at
         /\ Remembered.screen = IF ui.screen = "Systems" THEN "systems"
                                ELSE IF ui.screen = "GameList" THEN "games" ELSE browse.screen
<1> DEFINE r == RememberCurrentGame(browse, list)
           place == IF ui.screen = "Systems" THEN "systems"
                     ELSE IF ui.screen = "GameList" THEN "games" ELSE r.screen
<1>1. r \in BrowseType /\ r.screen = browse.screen
  BY RememberedGame DEF ShellTypes
<1>2. Remembered = [r EXCEPT !.screen = place]
  BY DEF Remembered
<1> HIDE DEF r
<1>3. place \in {"systems", "games"}
  BY <1>1 DEF BrowseType
<1>4. place = IF ui.screen = "Systems" THEN "systems"
               ELSE IF ui.screen = "GameList" THEN "games" ELSE browse.screen
  BY <1>1
<1> HIDE DEF place
<1>5. Remembered \in BrowseType /\ Remembered.at = r.at /\ Remembered.screen = place
  BY <1>1, <1>2, <1>3 DEF BrowseType
<1> QED
  BY <1>1, <1>4, <1>5 DEF r

(* A list read again, of the same view, shows the game it showed.          *)
LEMMA ReloadedList ==
  ASSUME ShellTypes, NEW c, CatalogGood(c)
  PROVE  LET n == ReloadGameList(c)
             g == IF list.games = <<>> THEN browse.at[BrowseKey(list)] ELSE Selected(list)
         IN /\ ListGood(n) /\ n.view = list.view /\ n.system = list.system
            /\ g \in Range(n.games) => Selected(n) = g
<1> DEFINE r == RememberCurrentGame(browse, list)
<1>1. r \in BrowseType /\ list \in ListType /\ list.sel # 0 /\ ListGood(list) /\ browse \in BrowseType
  BY RememberedBrowse DEF ShellTypes, ListGood, RowOf
<1>2. r.at[BrowseKey(list)] = IF list.games = <<>> THEN browse.at[BrowseKey(list)] ELSE Selected(list)
  BY <1>1, RememberedGame
<1> HIDE DEF r
<1> QED
  BY <1>1, <1>2, LoadedGames DEF ReloadGameList, r

LEMMA MovedLists ==
  ASSUME ShellTypes, ListMoves \/ LoopListMoves, CardMoves, CatalogGood(catalog')
  PROVE  ListGood(list') /\ CardsGood(cards')
<1>1. ListGood(list) /\ CardsGood(cards) /\ catalog' \in CatalogType /\ list \in ListType /\ cards \in CardType
  BY DEF ShellTypes, CatalogGood, ListGood, CardsGood
<1>2. ASSUME NEW l \in ListType, NEW b \in BrowseType, Loads(l, b), l.sel # 0 PROVE ListGood(list')
  BY <1>2, LoadedGames DEF Loads
<1>3. ASSUME NEW n \in 1..Len(list.games), list' = [list EXCEPT !.sel = n] PROVE ListGood(list')
  <2>1. list.games \in Seq(Games) /\ Len(list.games) \in Nat
    BY <1>1 DEF ListType
  <2>2. n \in Nat \ {0} /\ n <= Len(list.games)
    BY <2>1, <1>3
  <2>3. list' \in ListType /\ list'.sel = n /\ list'.games = list.games
    BY <2>2, <1>1, <1>3 DEF ListType
  <2> QED
    BY <2>2, <2>3, <1>1 DEF ListGood, RowOf
<1>4. ASSUME list' = [list EXCEPT !.games = <<>>] PROVE ListGood(list')
  <2>1. list' \in ListType /\ list'.sel = list.sel /\ list'.games = <<>>
    <3>1. <<>> \in Seq(Games)
      OBVIOUS
    <3> QED
      BY <3>1, <1>1, <1>4 DEF ListType
  <2>2. IsInjective(<<>>)
    BY DEF IsInjective
  <2> QED
    BY <2>1, <2>2, <1>1 DEF ListGood, RowOf
<1>5. /\ \A view \in Views : [list EXCEPT !.view = view, !.sel = 1] \in ListType
                             /\ [list EXCEPT !.view = view, !.sel = 1].sel # 0
      /\ \A s \in Systems : ListOfSystem(s) \in ListType /\ ListOfSystem(s).sel # 0
  <2>1. ASSUME NEW view \in Views
        PROVE  [list EXCEPT !.view = view, !.sel = 1] \in ListType /\ [list EXCEPT !.view = view, !.sel = 1].sel # 0
    <3>1. view \in Views \cup {"system"} /\ 1 \in Nat
      OBVIOUS
    <3>2. [list EXCEPT !.view = view, !.sel = 1] \in ListType
      BY <3>1, <1>1 DEF ListType
    <3>3. [list EXCEPT !.view = view, !.sel = 1].sel = 1
      BY <1>1 DEF ListType
    <3> QED
      BY <3>2, <3>3
  <2>2. ASSUME NEW s \in Systems PROVE ListOfSystem(s) \in ListType /\ ListOfSystem(s).sel # 0
    BY DEF ListOfSystem, ListType
  <2> QED
    BY <2>1, <2>2
<1>6. ListGood(list')
  <2>1. CASE ListMoves
    BY <2>1, <1>1, <1>2, <1>3, <1>5, RememberedBrowse, ReloadedList DEF ListMoves
  <2>2. CASE LoopListMoves
    BY <2>2, <1>1, <1>4, ReloadedList DEF LoopListMoves
  <2> QED
    BY <2>1, <2>2
<1>7. CardsGood(cards')
  <2>1. CASE \E n \in 1..Len(cards.systems) : cards' = [cards EXCEPT !.sel = n]
    <3>1. PICK n \in 1..Len(cards.systems) : cards' = [cards EXCEPT !.sel = n]
      BY <2>1
    <3>2. cards.systems \in Seq(Systems) /\ Len(cards.systems) \in Nat
      BY <1>1 DEF CardType
    <3>3. n \in Nat \ {0} /\ n <= Len(cards.systems)
      BY <3>2
    <3>4. cards' \in CardType /\ cards'.sel = n /\ cards'.systems = cards.systems
      BY <3>1, <3>3, <1>1 DEF CardType
    <3> QED
      BY <3>3, <3>4, <1>1 DEF CardsGood, RowOf
  <2> QED
    BY <2>1, <1>1, LoadedSystems DEF CardMoves
<1> QED
  BY <1>6, <1>7

LEMMA ShellTypesInit == ShellInit => ShellTypes
<1> SUFFICES ASSUME ShellInit PROVE ShellTypes
  OBVIOUS
<1>1. Stocked \subseteq Games /\ SystemOf \in [Games -> Systems] /\ "Fresh" \in Modes
  BY ShellAssumption
<1>2. CatalogGood(catalog)
  <2>1. PICK g \in Stocked :
          catalog = [files |-> Stocked, present |-> Stocked, hidden |-> {}, favorite |-> {}, recent |-> <<g>>,
                     systems |-> {SystemOf[h] : h \in Stocked}, show_hidden |-> FALSE]
    BY DEF ShellInit
  <2>2. <<g>> \in Seq(Games) /\ IsInjective(<<g>>)
    BY <1>1 DEF IsInjective
  <2>3. {SystemOf[h] : h \in Stocked} \subseteq Systems
    BY <1>1
  <2>4. catalog \in CatalogType /\ catalog.recent = <<g>>
    BY <2>1, <2>2, <2>3, <1>1 DEF CatalogType
  <2> QED
    BY <2>2, <2>4 DEF CatalogGood
<1>3. CardsGood(cards) /\ ListGood(list)
  <2>1. PICK s \in catalog.systems :
          /\ cards = [systems |-> ListSystems(catalog),
                      sel |-> CHOOSE i \in DOMAIN ListSystems(catalog) : ListSystems(catalog)[i] = s]
          /\ list = [view |-> "system", system |-> s, games |-> Listed(catalog, "system", s), sel |-> 1]
    BY DEF ShellInit
  <2> DEFINE all == ListSystems(catalog)
             sel == CHOOSE i \in DOMAIN all : all[i] = s
             rows == Listed(catalog, "system", s)
  <2>2. catalog \in CatalogType /\ s \in Systems
    BY <2>1, <1>2 DEF CatalogGood, CatalogType
  <2>3. all \in Seq(Systems) /\ IsInjective(all) /\ Range(all) = catalog.systems
    BY <2>2, SystemsListed
  <2>4. rows \in Seq(Games) /\ IsInjective(rows)
    BY <1>2, GamesListed
  <2>5. sel \in 1..Len(all)
    <3>1. \E i \in DOMAIN all : all[i] = s
      BY <2>1, <2>3 DEF Range
    <3> HIDE DEF all
    <3> QED
      BY <3>1, <2>3, InRange
  <2>6. cards = [systems |-> all, sel |-> sel]
        /\ list = [view |-> "system", system |-> s, games |-> rows, sel |-> 1]
    BY <2>1
  <2> HIDE DEF all, sel, rows
  <2>7. CardsGood(cards)
    <3>1. cards \in CardType /\ cards.systems = all /\ cards.sel = sel
      BY <2>3, <2>5, <2>6 DEF CardType
    <3>2. sel \in Nat \ {0} /\ sel <= Len(all)
      BY <2>3, <2>5
    <3> QED
      BY <3>1, <3>2, <2>3 DEF CardsGood, RowOf
  <2>8. ListGood(list)
    <3>1. list \in ListType /\ list.games = rows /\ list.sel = 1
      BY <2>2, <2>4, <2>6 DEF ListType
    <3>2. rows # <<>> => 1 <= Len(rows)
      BY <2>4, InRange
    <3> QED
      BY <3>1, <3>2, <2>4 DEF ListGood, RowOf
  <2> QED
    BY <2>7, <2>8
<1>4. browse \in BrowseType
  BY DEF ShellInit, BrowseType
<1>5. ui \in UiType /\ menu \in MenuType /\ options \in ScreenNames
  BY NamesLemma DEF ShellInit, UiType, MenuType
<1>6. pending \in PendingType /\ nest \in NestType
  BY <1>1 DEF ShellInit, PendingType, NestType
<1> QED
  BY <1>2, <1>3, <1>4, <1>5, <1>6 DEF ShellTypes

LEMMA ShellTypesNext == ShellTypes /\ [ShellNext]_shellVars => ShellTypes'
<1>1. CASE ShellTypes /\ UNCHANGED shellVars
  BY <1>1 DEF ShellTypes, shellVars, lists, work
<1>2. CASE ShellTypes /\ ShellButtons
  <2>1. ListMoves /\ CardMoves /\ CatalogGood(catalog') /\ browse' = Remembered
    BY <1>2, ButtonMoves, QuietButtons, PressedLemma
  <2> QED
    BY <2>1, <1>2, MovedLists, RememberedBrowse, ButtonUi, ButtonMenus, ButtonRequests DEF ShellTypes, Drawing
<1>3. CASE ShellTypes /\ (Loop \/ Others)
  <2>1. LoopListMoves /\ LoopBrowseMoves /\ CardMoves /\ CatalogGood(catalog')
    BY <1>3, LoopMoves
  <2>2. browse' \in BrowseType
    BY <2>1, <1>3, RememberedBrowse DEF LoopBrowseMoves, ShellTypes
  <2>3. options' \in ScreenNames
    BY <1>3, LoopTypes DEF ShellTypes
  <2> QED
    BY <2>1, <2>2, <2>3, <1>3, MovedLists, LoopTypes DEF ShellTypes
<1> QED
  BY <1>1, <1>2, <1>3 DEF ShellNext

(* A list that is read again, after any change and at any time, keeps its  *)
(* selection on the same game wherever that game is now: with ShellTypes,  *)
(* for any number of games, consoles, buttons and changes.                 *)
THEOREM SelectionStays == ShellSpec => SelectionKept
<1> DEFINE A == phase # "input" \/ catalog' # catalog =>
                  LET g == IF list.games = <<>> THEN browse.at[BrowseKey(list)] ELSE Selected(list)
                  IN g \in Range(list'.games) => Selected(list') = g
<1>1. ASSUME ShellTypes, ShellNext PROVE A
  <2> DEFINE g == IF list.games = <<>> THEN browse.at[BrowseKey(list)] ELSE Selected(list)
  <2>1. SUFFICES ASSUME phase # "input" \/ catalog' # catalog, g \in Range(list'.games)
                 PROVE  Selected(list') = g
    OBVIOUS
  <2>2. CASE list' = list
    <3>1. list.games # <<>>
      BY <2>1, <2>2 DEF Range
    <3> QED
      BY <3>1, <2>2
  <2>3. CASE list' = ReloadGameList(catalog') /\ CatalogGood(catalog')
    BY <2>1, <2>3, <1>1, ReloadedList
  <2>4. CASE list' = [list EXCEPT !.games = <<>>]
    <3>1. list'.games = <<>>
      BY <2>4, <1>1 DEF ShellTypes, ListGood, ListType
    <3> QED
      BY <3>1, <2>1 DEF Range
  <2>5. CASE ShellButtons
    <3>1. phase = "input" /\ ListMoves /\ CatalogGood(catalog')
      BY <2>5, <1>1, ButtonMoves, QuietButtons, PressedLemma
    <3>2. list' = list \/ list' = ReloadGameList(catalog')
      BY <3>1, <2>1 DEF ListMoves, Loads
    <3> QED
      BY <3>1, <3>2, <2>2, <2>3
  <2>6. CASE Loop \/ Others
    BY <2>6, <1>1, <2>2, <2>3, <2>4, LoopMoves DEF LoopListMoves
  <2> QED
    BY <2>5, <2>6, <1>1 DEF ShellNext
<1>2. ShellTypes /\ [ShellNext]_shellVars => [A]_shellVars
  BY <1>1
<1> HIDE DEF A
<1>3. ShellSpec => [][A]_shellVars
  BY <1>2, ShellTypesInit, ShellTypesNext, PTL DEF ShellSpec
<1> QED
  BY <1>3 DEF SelectionKept, A

-----------------------------------------------------------------------------
(* Browse games.  What it returns to is remembered at every button and     *)
(* before anything slow.                                                   *)

Browsing == ui.screen \in {"Systems", "GameList"}
Returned == IF browse.screen = "games" THEN <<"GameList", list.view, BrowseKey(list)>> ELSE <<"Systems">>
ReturnInv ==
  /\ Browsing => last = Shown(ui, list)
  /\ ~Browsing => last = Returned
  /\ phase = "slow" /\ Browsing => browse.screen = IF ui.screen = "Systems" THEN "systems" ELSE "games"

ViewKept == list'.view = list.view /\ BrowseKey(list') = BrowseKey(list)

LEMMA ViewKeptLemma ==
  ASSUME ShellTypes, ListMoves \/ LoopListMoves, CatalogGood(catalog')
  PROVE  ViewKept \/ ui'.screen = "GameList"
<1>1. list \in ListType
  BY DEF ShellTypes, ListGood
<1>2. list'.view = list.view /\ list'.system = list.system => ViewKept
  BY DEF ViewKept, BrowseKey
<1>3. CASE list' = list
  BY <1>2, <1>3
<1>4. CASE list' = ReloadGameList(catalog')
  BY <1>2, <1>4, ReloadedList
<1>5. CASE \E n \in 1..Len(list.games) : list' = [list EXCEPT !.sel = n]
  BY <1>1, <1>2, <1>5 DEF ListType
<1>6. CASE list' = [list EXCEPT !.games = <<>>]
  BY <1>1, <1>2, <1>6 DEF ListType
<1> QED
  BY <1>3, <1>4, <1>5, <1>6 DEF ListMoves, LoopListMoves, Loads

LEMMA SlowLemma ==
  ASSUME Loop \/ Others, phase' = "slow"
  PROVE  browse' = Remembered
BY DEF Loop, Others, EndOfInput, RunTool, BeginScrape, PollNest, NotDue, RefreshLibrary, ScrapeNext,
       ExecuteRadio, Launch, LaunchRetroArch, DrawScreen, Continues, Remember,
       FileChanges, DaemonScans, NestJobEnds, Leave, SystemAppears

LEMMA ReturnInit == ShellInit => ReturnInv
<1> SUFFICES ASSUME ShellInit PROVE ReturnInv
  OBVIOUS
<1>1. ui.screen = "Home" /\ browse.screen = "systems" /\ last = <<"Systems">>
  BY DEF ShellInit
<1> QED
  BY <1>1 DEF ReturnInv, Browsing, Returned

LEMMA ReturnNext == ShellTypes /\ ReturnInv /\ [ShellNext]_shellVars => ReturnInv'
<1> SUFFICES ASSUME ShellTypes, ReturnInv, [ShellNext]_shellVars PROVE ReturnInv'
  OBVIOUS
<1>1. CASE UNCHANGED shellVars
  BY <1>1 DEF ReturnInv, Browsing, Returned, shellVars, lists, work
<1>2. ASSUME ShellNext PROVE ReturnInv'
  <2>1. /\ ui'.screen \in {"Systems", "GameList"} => last' = Shown(ui', list')
        /\ ui'.screen \notin {"Systems", "GameList"} => last' = last
    BY <1>2 DEF ShellNext, KeepLast
  <2>2. CASE ShellButtons
    <3>1. ViewKept \/ ui'.screen = "GameList"
      BY <2>2, ButtonMoves, ViewKeptLemma
    <3>2. phase' = "input" /\ browse' = Remembered
      BY <2>2, QuietButtons, PressedLemma
    <3>3. CASE Browsing'
      BY <3>2, <3>3, <2>1 DEF ReturnInv, Browsing
    <3>4. CASE ~Browsing'
      <4>1. ViewKept /\ last' = last
        BY <3>1, <3>4, <2>1 DEF Browsing
      <4>2. browse'.screen = IF ui.screen = "Systems" THEN "systems"
                             ELSE IF ui.screen = "GameList" THEN "games" ELSE browse.screen
        BY <3>2, RememberedBrowse
      <4>3. CASE Browsing
        <5>1. last = Shown(ui, list)
          BY <4>3 DEF ReturnInv
        <5>2. Shown(ui, list) = IF ui.screen = "Systems" THEN <<"Systems">> ELSE <<"GameList", list.view, BrowseKey(list)>>
          BY <4>3 DEF Browsing, Shown
        <5>3. Returned' = Shown(ui, list)
          BY <5>2, <4>1, <4>2, <4>3 DEF Browsing, Returned, ViewKept
        <5> QED
          BY <5>1, <5>3, <4>1, <3>2, <3>4 DEF ReturnInv
      <4>4. CASE ~Browsing
        <5>1. last = Returned /\ browse'.screen = browse.screen
          BY <4>2, <4>4 DEF ReturnInv, Browsing
        <5>2. Returned' = Returned
          BY <5>1, <4>1 DEF Returned, ViewKept
        <5> QED
          BY <5>1, <5>2, <4>1, <3>2, <3>4 DEF ReturnInv
      <4> QED
        BY <4>3, <4>4
    <3> QED
      BY <3>3, <3>4
  <2>3. CASE Loop \/ Others
    <3>1. ViewKept \/ ui'.screen = "GameList"
      BY <2>3, LoopMoves, ViewKeptLemma
    <3>2. LoopBrowseMoves /\ (Launch \/ ui'.screen = ui.screen)
      BY <2>3, LoopMoves, LoopTypes
    <3>3. browse'.screen = browse.screen \/ browse' = Remembered
      BY <3>2, RememberedBrowse DEF LoopBrowseMoves
    <3>4. CASE Browsing'
      <4>1. phase' = "slow" => browse'.screen = IF ui'.screen = "Systems" THEN "systems" ELSE "games"
        <5>1. phase' = "slow" => browse' = Remembered /\ ~Launch
          BY <2>3, SlowLemma DEF Launch, Continues
        <5> QED
          BY <5>1, <3>2, <3>4, RememberedBrowse DEF Browsing
      <4> QED
        BY <4>1, <3>4, <2>1 DEF ReturnInv, Browsing
    <3>5. CASE ~Browsing' /\ ui'.screen = ui.screen
      <4>1. ViewKept /\ last' = last /\ last = Returned /\ ~Browsing
        BY <3>1, <3>5, <2>1 DEF ReturnInv, Browsing
      <4>2. browse'.screen = browse.screen
        BY <3>3, <4>1, RememberedBrowse DEF Browsing
      <4>3. Returned' = Returned
        BY <4>1, <4>2 DEF Returned, ViewKept
      <4> QED
        BY <4>1, <4>3, <3>5 DEF ReturnInv
    <3>6. CASE ~Browsing' /\ Launch
      <4>1. ViewKept /\ last' = last /\ phase = "slow" /\ browse' = RememberCurrentGame(browse, list)
            /\ phase' = "input"
        BY <3>1, <3>6, <2>1 DEF Browsing, Launch, Continues
      <4>2. browse'.screen = browse.screen
        BY <4>1, RememberedBrowse
      <4>3. Returned' = Returned
        BY <4>1, <4>2 DEF Returned, ViewKept
      <4>4. last = Returned
        <5>1. CASE Browsing
          <6>1. /\ last = Shown(ui, list)
                /\ browse.screen = IF ui.screen = "Systems" THEN "systems" ELSE "games"
            BY <5>1, <4>1 DEF ReturnInv
          <6> QED
            BY <6>1, <5>1 DEF Browsing, Shown, Returned
        <5> QED
          BY <5>1 DEF ReturnInv
      <4> QED
        BY <4>1, <4>3, <4>4, <3>6 DEF ReturnInv
    <3> QED
      BY <3>2, <3>4, <3>5, <3>6
  <2> QED
    BY <2>2, <2>3, <1>2 DEF ShellNext
<1> QED
  BY <1>1, <1>2

(* "Browse games" at Home opens the screen, and the list, that was shown   *)
(* last, whatever happened since: launches, rescans, other screens.        *)
THEOREM BrowseComesBack == ShellSpec => BrowseReturns
<1> DEFINE A == HomeBrowse => Shown(ui', list') = last
<1>1. ASSUME ShellTypes, ReturnInv PROVE A
  <2>1. SUFFICES ASSUME HomeBrowse PROVE Shown(ui', list') = last
    OBVIOUS
  <2>2. last = Returned /\ ui \in UiType /\ CatalogGood(catalog)
    BY <2>1, <1>1 DEF HomeBrowse, On, ReturnInv, Browsing, ShellTypes
  <2>3. CASE browse.screen = "games"
    <3>1. ui'.screen = "GameList" /\ list' = ReloadGameList(catalog)
      BY <2>1, <2>2, <2>3, GoLemma, NamesLemma DEF HomeBrowse
    <3>2. list'.view = list.view /\ BrowseKey(list') = BrowseKey(list)
      BY <3>1, <2>2, <1>1, ReloadedList DEF BrowseKey
    <3> QED
      BY <3>1, <3>2, <2>2, <2>3 DEF Shown, Returned
  <2>4. CASE browse.screen # "games"
    <3>1. ui'.screen = "Systems"
      BY <2>1, <2>2, <2>4, GoLemma, NamesLemma DEF HomeBrowse
    <3> QED
      BY <3>1, <2>2, <2>4 DEF Shown, Returned
  <2> QED
    BY <2>3, <2>4
<1>2. ShellTypes /\ ReturnInv => [A]_shellVars
  BY <1>1
<1> HIDE DEF A
<1>3. ShellSpec => [][A]_shellVars
  BY <1>2, ShellTypesInit, ShellTypesNext, ReturnInit, ReturnNext, PTL DEF ShellSpec
<1> QED
  BY <1>3 DEF BrowseReturns, A

-----------------------------------------------------------------------------
(* The picture.                                                            *)

LEMMA SameDrawn ==
  ASSUME ui'.screen = ui.screen, cont' = cont, cards' = cards, details' = details, menu'.shown = menu.shown,
         list'.view = list.view, list'.system = list.system, list'.games = list.games,
         list.games = <<>> \/ list'.sel = list.sel
  PROVE  Drawn' = Drawn
<1> DEFINE row  == IF list.games = <<>> THEN 0 ELSE list.sel
           of   == IF list.view = "system" THEN details ELSE None
           rest == <<list.view, list.system, list.games, row, of>>
<1>1. row' = row /\ of' = of
  OBVIOUS
<1> HIDE DEF row, of
<1>2. rest' = rest
  BY <1>1
<1>3. Drawn = <<ui.screen, CASE On("Home") -> <<cont>>
                 [] ui.screen \in {"Systems", "SystemMenu"} -> <<cards>>
                 [] On("GameList") -> rest
                 [] On("GameMenu") -> <<menu.shown>> [] On("Details") -> <<details>> [] OTHER -> <<>> >>
  BY Zenon DEF Drawn, row, of
<1> HIDE DEF rest
<1> QED
  BY <1>2, <1>3, Zenon DEF Drawn, On, rest, row, of

LEMMA RereadDrawn ==
  ASSUME ShellTypes, RefreshLibrary
  PROVE  ui'.redraw \/ Drawn' = Drawn
<1>1. /\ cards' = LoadSystems(catalog) /\ CatalogGood(catalog) /\ menu' = menu
      /\ catalog \in CatalogType /\ CardsGood(cards) /\ ListGood(list) /\ ui \in UiType /\ list \in ListType
  BY DEF RefreshLibrary, ShellTypes, CatalogGood, ListGood
<1>2. SUFFICES ASSUME ~ui'.redraw PROVE Drawn' = Drawn
  OBVIOUS
<1>3. cont' = cont /\ details' = details /\ LibraryUiSignature(cards', list') = LibraryUiSignature(cards, list)
  <2> DEFINE new == ui.redraw \/ cont' # cont \/ details' # details
                    \/ LibraryUiSignature(cards', list') # LibraryUiSignature(cards, list)
  <2>1. ui' = [ui EXCEPT !.redraw = new] /\ new \in BOOLEAN
    BY <1>1 DEF RefreshLibrary, UiType
  <2>2. ui'.redraw = new
    <3> HIDE DEF new
    <3> QED BY <2>1, <1>1 DEF UiType
  <2> QED
    BY <2>2, <1>2
<1>4. cards'.systems = cards.systems /\ list'.games = list.games
  BY <1>3 DEF LibraryUiSignature
<1>5. cards' = cards
  BY <1>1, <1>4, LoadedSystems
<1>6. list'.view = list.view /\ list'.system = list.system /\ (list.games = <<>> \/ list'.sel = list.sel)
  <2>1. CASE list' = list
    BY <2>1
  <2>2. CASE list' = ReloadGameList(catalog)
    <3>1. ListGood(list') /\ list'.view = list.view /\ list'.system = list.system
          /\ (list.games # <<>> /\ Selected(list) \in Range(list'.games) => Selected(list') = Selected(list))
      BY <2>2, <1>1, ReloadedList
    <3>2. CASE list.games # <<>>
      <4>1. /\ Selected(list) = list.games[list.sel] /\ list.sel \in 1..Len(list.games)
            /\ Selected(list') = list.games[list'.sel] /\ list'.sel \in 1..Len(list.games)
        BY <3>1, <3>2, <1>1, <1>4, SelectedLemma
      <4>2. list.games \in Seq(Games) /\ IsInjective(list.games)
        BY <1>1 DEF ListGood, ListType
      <4>3. Selected(list) \in Range(list'.games) /\ DOMAIN list.games = 1..Len(list.games)
        BY <4>1, <4>2, <1>4, InRange
      <4>4. list.games[list'.sel] = list.games[list.sel]
        BY <3>1, <3>2, <4>1, <4>3
      <4> QED
        BY <3>1, <4>1, <4>2, <4>3, <4>4 DEF IsInjective
    <3> QED
      BY <3>1, <3>2
  <2>3. CASE list' = [list EXCEPT !.games = <<>>]
    BY <2>3, <1>1, <1>4 DEF ListType
  <2> QED
    BY <2>1, <2>2, <2>3 DEF RefreshLibrary
<1>7. ui'.screen = ui.screen
  BY LoopTypes DEF Loop, RefreshLibrary, Launch
<1> QED
  BY <1>1, <1>3, <1>4, <1>5, <1>6, <1>7, SameDrawn

(* Whenever what the screen shows is no longer what a button would act on, *)
(* the step that changed it asks for a new picture.                        *)
THEOREM PictureStaysTrue == ShellSpec => NothingStale
<1> DEFINE A == Drawn' # Drawn => ui'.redraw
<1>1. ASSUME ShellTypes, ShellNext PROVE A
  <2>1. ui \in UiType /\ ui.screen \in ScreenNames
    BY <1>1 DEF ShellTypes, UiType
  <2>2. CASE ShellButtons
    BY <2>2, <1>1, ButtonUi DEF Drawing
  <2>3. CASE Launch
    BY <2>3, <1>1, LaunchTypes
  <2>4. CASE RefreshLibrary
    BY <2>4, <1>1, RereadDrawn
  <2>5. CASE RunTool
    BY <2>1, <2>5, GoLemma DEF RunTool
  <2>6. CASE BeginScrape \/ ScrapeNext \/ ExecuteRadio \/ LaunchRetroArch
    BY <2>1, <2>6, GoLemma DEF BeginScrape, ScrapeNext, ExecuteRadio, LaunchRetroArch
  <2>7. CASE PollNest
    <3>1. SUFFICES ASSUME ~ui'.redraw PROVE Drawn' = Drawn
      OBVIOUS
    <3>2. ~NestRefreshes /\ ~NestChanged /\ menu'.shown = menu.shown /\ ui'.screen = ui.screen
      BY <3>1, <2>7, <1>1, PollTypes DEF NestRefreshes
    <3>3. UNCHANGED <<cards, list, details, cont>>
      BY <3>2, <2>7 DEF PollNest
    <3> QED
      BY <3>2, <3>3, SameDrawn
  <2>8. CASE DrawScreen
    <3>1. UNCHANGED <<cards, list, details, cont, menu>>
      BY <2>8 DEF DrawScreen, lists
    <3>2. ui'.screen = ui.screen
      BY <2>1, <2>8 DEF DrawScreen, UiType
    <3> QED
      BY <3>1, <3>2, SameDrawn
  <2>9. CASE EndOfInput \/ NotDue \/ Others
    <3>1. UNCHANGED <<cards, list, details, cont, menu, ui>>
      BY <2>9 DEF EndOfInput, NotDue, Others, FileChanges, DaemonScans, NestJobEnds, Leave, SystemAppears, lists
    <3> QED
      BY <3>1, SameDrawn
  <2> QED
    BY <2>2, <2>3, <2>4, <2>5, <2>6, <2>7, <2>8, <2>9, <1>1 DEF ShellNext, Loop
<1>2. ShellTypes /\ [ShellNext]_shellVars => [A]_shellVars
  BY <1>1
<1> HIDE DEF A
<1>3. ShellSpec => [][A]_shellVars
  BY <1>2, ShellTypesInit, ShellTypesNext, PTL DEF ShellSpec
<1> QED
  BY <1>3 DEF NothingStale, A

-----------------------------------------------------------------------------
(* Launches.                                                               *)

AsAsked(g, mode) == AskedTogether(g, mode) \/ TakesAnothersMode(g, mode)

(* What waits to be launched is as asked; the menu's game is not the one   *)
(* shown only when Nest asked for it since the last launch.                *)
AskInv ==
  /\ nest.launch # None => AskedTogether(nest.launch, "Fresh")
  /\ phase \in {"refresh", "slow"} => nest.launch = None
  /\ menu.game # menu.shown => menu.game \in NestGames /\ AskedTogether(menu.game, "Fresh")
  /\ pending.launch # None => AsAsked(pending.launch, pending.mode)

LEMMA AskFrame ==
  ASSUME Loop \/ Others, ~Launch
  PROVE  asked' = asked /\ (phase' \in {"refresh", "slow"} /\ ~PollNest => phase = "refresh")
BY DEF Loop, Others, EndOfInput, RunTool, BeginScrape, PollNest, NotDue, RefreshLibrary, ScrapeNext,
       ExecuteRadio, LaunchRetroArch, DrawScreen, Continues,
       FileChanges, DaemonScans, NestJobEnds, Leave, SystemAppears

LEMMA AskInit == ShellInit => AskInv
<1> SUFFICES ASSUME ShellInit PROVE AskInv
  OBVIOUS
<1>1. /\ nest.launch = None /\ menu.game = menu.shown /\ pending.launch = None
  BY DEF ShellInit
<1> QED
  BY <1>1 DEF AskInv

LEMMA AskMore ==
  ASSUME asked \subseteq asked', NEW g, NEW mode
  PROVE  /\ AskedTogether(g, mode) => [game |-> g, mode |-> mode] \in asked'
         /\ TakesAnothersMode(g, mode) =>
              /\ g \in NestGames /\ [game |-> g, mode |-> "Fresh"] \in asked'
              /\ \E a \in asked' : a.mode = mode
BY DEF AskedTogether, TakesAnothersMode

LEMMA AskNext == ShellTypes /\ AskInv /\ [ShellNext]_shellVars => AskInv'
<1> SUFFICES ASSUME ShellTypes, AskInv, [ShellNext]_shellVars PROVE AskInv'
  OBVIOUS
<1>1. /\ menu \in MenuType /\ pending \in PendingType /\ nest \in NestType
  BY DEF ShellTypes
<1>2. ASSUME asked \subseteq asked', pending'.launch = pending.launch, pending'.mode = pending.mode
      PROVE  (pending.launch # None => AsAsked(pending.launch, pending.mode))'
  BY <1>2, AskMore DEF AskInv, AsAsked, AskedTogether, TakesAnothersMode
<1>3. ASSUME asked \subseteq asked', nest'.launch = nest.launch
      PROVE  (nest.launch # None => AskedTogether(nest.launch, "Fresh"))'
  BY <1>3 DEF AskInv, AskedTogether
<1>4. ASSUME asked \subseteq asked', menu'.game = menu'.shown \/ menu' = menu
      PROVE  (menu.game # menu.shown => menu.game \in NestGames /\ AskedTogether(menu.game, "Fresh"))'
  BY <1>4 DEF AskInv, AskedTogether
<1>5. CASE UNCHANGED shellVars
  <2>1. UNCHANGED <<asked, pending, nest, menu, phase>>
    BY <1>5 DEF shellVars, lists, work
  <2> QED
    BY <2>1, <1>2, <1>3, <1>4 DEF AskInv
<1>6. CASE ShellButtons
  <2>1. phase' = "input"
    BY <1>6, QuietButtons, PressedLemma
  <2>2. menu'.game = menu'.shown \/ menu' = menu
    BY <1>6, <1>1, ButtonMenus DEF MenuMoves, MenuType
  <2>3. CASE SameRequests
    BY <2>1, <2>2, <2>3, <1>2, <1>3, <1>4 DEF AskInv, SameRequests
  <2>4. CASE \E g \in NestGames : NestPlays(g)
    <3>1. PICK g \in NestGames : NestPlays(g)
      BY <2>4
    <3>2. /\ asked' = asked \cup {[game |-> g, mode |-> "Fresh"]} /\ pending' = pending
          /\ nest' = [nest EXCEPT !.launch = g]
      BY <3>1 DEF NestPlays
    <3>3. nest'.launch = g
      BY <3>2, <1>1 DEF NestType
    <3>4. AskedTogether(nest.launch, "Fresh")'
      BY <3>2, <3>3 DEF AskedTogether
    <3> QED
      BY <3>2, <3>4, <2>1, <2>2, <1>2, <1>4 DEF AskInv
  <2>5. CASE \E mode \in Modes : MenuPlays(mode)
    <3>1. PICK mode \in Modes : MenuPlays(mode)
      BY <2>5
    <3> DEFINE a == [game |-> menu.shown, mode |-> mode]
    <3>2. /\ asked' = asked \cup {a} /\ nest' = nest
          /\ pending' = [pending EXCEPT !.mode = mode, !.launch = menu.game]
      BY <3>1 DEF MenuPlays
    <3>3. pending'.launch = menu.game /\ pending'.mode = mode
      BY <3>2, <1>1 DEF PendingType
    <3>4. AsAsked(pending.launch, pending.mode)'
      <4>1. CASE menu.game = menu.shown
        BY <4>1, <3>2, <3>3 DEF AsAsked, AskedTogether
      <4>2. CASE menu.game # menu.shown
        <5>1. menu.game \in NestGames /\ [game |-> menu.game, mode |-> "Fresh"] \in asked'
          BY <4>2, <3>2 DEF AskInv, AskedTogether
        <5>2. a \in asked' /\ a.mode = mode
          BY <3>2
        <5> HIDE DEF a
        <5> QED
          BY <5>1, <5>2, <3>3 DEF AsAsked, TakesAnothersMode, AskedTogether
      <4> QED
        BY <4>1, <4>2
    <3> QED
      BY <3>2, <3>4, <2>1, <2>2, <1>3, <1>4 DEF AskInv
  <2> QED
    BY <2>3, <2>4, <2>5, <1>6, ButtonRequests
<1>7. CASE Launch
  <2>1. phase = "slow" /\ phase' = "input"
    BY <1>7 DEF Launch, Continues
  <2>2. nest'.launch = None /\ pending'.launch = None /\ menu'.game = menu'.shown
    BY <1>7, <2>1, <1>1, LaunchTypes DEF AskInv, MenuType, PendingType
  <2> QED
    BY <2>1, <2>2 DEF AskInv
<1>8. CASE PollNest
  <2>1. asked' = asked /\ phase' = "refresh"
    BY <1>8 DEF PollNest
  <2>2. CASE menu' = menu /\ pending' = pending
    BY <2>1, <2>2, <1>2, <1>4, <1>8, PollTypes DEF AskInv
  <2>3. CASE /\ nest.launch \in Games /\ menu'.game = nest.launch
             /\ pending'.launch = nest.launch /\ pending'.mode = "Fresh"
    <3>1. nest.launch \in NestGames /\ [game |-> nest.launch, mode |-> "Fresh"] \in asked'
      BY <2>1, <2>3, <1>1, ShellAssumption DEF AskInv, AskedTogether, NestType
    <3>2. AsAsked(pending.launch, pending.mode)' /\ AskedTogether(menu.game, "Fresh")' /\ menu'.game \in NestGames
      BY <2>3, <3>1 DEF AsAsked, AskedTogether
    <3> QED
      BY <2>1, <3>2, <1>8, PollTypes DEF AskInv
  <2> QED
    BY <2>2, <2>3, <1>8, PollTypes
<1>9. CASE (Loop \/ Others) /\ ~Launch /\ ~PollNest
  <2>1. /\ asked' = asked /\ (phase' \in {"refresh", "slow"} => phase = "refresh")
        /\ menu' = menu /\ pending'.launch = pending.launch /\ pending'.mode = pending.mode
        /\ nest'.launch = nest.launch
    BY <1>9, AskFrame, LoopTypes
  <2> QED
    BY <2>1, <1>2, <1>3, <1>4 DEF AskInv
<1> QED
  BY <1>5, <1>6, <1>7, <1>8, <1>9 DEF ShellNext

(* A game is launched as it was asked for since the launch before, in the  *)
(* mode chosen for it; the one that is not comes from Nest, under the menu *)
(* of another game.                                                        *)
THEOREM LaunchesAsAsked == ShellSpec => LaunchAsAsked
<1> DEFINE A == pending.launch # None /\ pending'.launch = None =>
                  \/ AskedTogether(pending.launch, pending.mode)
                  \/ TakesAnothersMode(pending.launch, pending.mode)
<1>1. AskInv => [A]_shellVars
  BY DEF AskInv, AsAsked
<1> HIDE DEF A
<1>2. ShellSpec => [][A]_shellVars
  BY <1>1, ShellTypesInit, ShellTypesNext, AskInit, AskNext, PTL DEF ShellSpec
<1> QED
  BY <1>2 DEF LaunchAsAsked, A

=============================================================================
