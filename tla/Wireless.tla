------------------------------ MODULE Wireless ------------------------------
(***************************************************************************)
(* The Wi-Fi and Bluetooth screens.  A button changes what is on the       *)
(* screen at once and queues what is slow; the loop runs the queued action *)
(* afterwards, for up to a minute, and buttons pressed meanwhile arrive    *)
(* together in its next pass.  An action reads the network, the password,  *)
(* the lists and the selection when it runs, not when it was queued.       *)
(* One selection serves all views of the Wi-Fi screen.                     *)
(***************************************************************************)
EXTENDS Screens, FiniteSets, SequencesExt

CONSTANTS
  Networks, Secured,         \* names of networks, those with a password
  Devices,                   \* Bluetooth devices, in order of their names
  KindOf,                    \* [devices -> Kinds]
  Paired,                    \* the ones paired at the start
  KeyCount, KeyColumns,      \* the keyboard of passwords,
  LetterCount, LetterColumns, \* of countries
  MaxPassword,               \* characters in a password (63)
  MaxButtons, MaxChanges     \* bounds: buttons, changes of the surroundings

Known   == Range(Devices)
Kinds   == {"Controller", "Audio", "Other"}
Filters == <<"All", "Controller", "Audio">>
Rows    == 3  \* of the overview: networks, disconnect, region

OnSelected == {"PairSelectedFromScanned", "ConnectSelectedFromPaired",
               "DisconnectSelectedFromPaired"}

ASSUME WirelessAssumption ==
  /\ IsFiniteSet(Networks) /\ Secured \subseteq Networks
  /\ Devices \in Seq(Known) /\ Devices # <<>> /\ KindOf \in [Known -> Kinds]
  /\ Paired \subseteq Known
  /\ None \notin Networks \cup Known \cup OnSelected \cup {"ForgetAddressFromPaired"}
  /\ KeyColumns \in 1..(KeyCount - 1) /\ LetterColumns \in 1..(LetterCount - 1)
  /\ {KeyCount, LetterCount, MaxPassword, MaxButtons, MaxChanges} \subseteq Nat

VARIABLES
  page,       \* "Tools", "Wifi" or "Bluetooth"
  wifi,       \* [view, sel, nets, ssid, password, entry, connected]: wifi_*; a network
              \* is [ssid, active], a character the network it was typed for
  bt,         \* [mine, filter, scanned, paired, ssel, psel, modal, of, address]:
              \* bluetooth_*; mine = show_paired, of = modal_address
  queued,     \* [wifi, bt]: pending_wifi_action, pending_bluetooth_action
  air,        \* [near, joined]: networks around, the one wlan0 is in
  radio,      \* [near, paired, connected]: devices around, and as BlueZ has them
  requested,  \* history: [accepted, refused]: the device of the pending Forget, and the
              \* one of the last Forget refused since an action is pending
  aimed,      \* history: the device selected when the pending action was queued
  steered,    \* history: selection, list or filter changed since, by a button
  buttons, changes \* bounds

wirelessVars == <<page, wifi, bt, queued, air, radio, requested, aimed, steered, buttons, changes>>

-----------------------------------------------------------------------------
(* Lists.                                                                  *)

Clamp(sel, count) == IF count = 0 THEN 0 ELSE IF sel >= count THEN count - 1 ELSE sel

(* One step on a grid of keys; a list is a grid of one column.             *)
Steps(sel, count, columns) ==
  {(sel + 1) % count, (sel + count - 1) % count,
   (sel + columns) % count, (sel + count - columns) % count}

(* Connected first, then paired, then by name.                             *)
SortBluetoothDevices(S, r) ==
  LET those(T) == Kept(Devices, S \cap T)
  IN those(r.connected) \o those(r.paired \ r.connected)
     \o those(S \ (r.paired \cup r.connected))

(* The filter applies to the scanned list only.                            *)
ActiveBluetoothDevices(b) ==
  IF b.mine THEN b.paired
  ELSE Kept(b.scanned, {d \in Known : b.filter = "All" \/ KindOf[d] = b.filter})

ActiveSelection(b) == IF b.mine THEN b.psel ELSE b.ssel
Select(b, sel) == IF b.mine THEN [b EXCEPT !.psel = sel] ELSE [b EXCEPT !.ssel = sel]

SelectedBluetoothDevice(b) ==
  LET devices == ActiveBluetoothDevices(b)  i == ActiveSelection(b) + 1
  IN IF i \in DOMAIN devices THEN devices[i] ELSE None

(* Mistake: the selection is held to the whole list, not the filtered one. *)
EnsureUnfiltered(b) ==
  Select(b, Clamp(ActiveSelection(b), Len(IF b.mine THEN b.paired ELSE b.scanned)))

EnsureSelectionValid(b) ==
  Select(b, Clamp(ActiveSelection(b), Len(ActiveBluetoothDevices(b))))

ClearModal(b) == [b EXCEPT !.modal = "None", !.of = None]

-----------------------------------------------------------------------------
(* Queues of one place: what does not fit is refused.                      *)

QueueWifi(action) ==
  queued' = IF queued.wifi = None THEN [queued EXCEPT !.wifi = action] ELSE queued

(* The dialog closes, and an address is kept only for Forget, when the     *)
(* action is accepted.  One refused as busy leaves everything as the       *)
(* caller has made it, in b.                                               *)
QueueBluetooth(b, action) ==
  IF queued.bt # None
  THEN /\ bt' = b /\ UNCHANGED <<queued, aimed>>
       /\ steered' = (steered \/ SelectedBluetoothDevice(b) # SelectedBluetoothDevice(bt))
  ELSE /\ queued' = [queued EXCEPT !.bt = action]
       /\ bt' = [ClearModal(b) EXCEPT
                   !.address = IF action = "ForgetAddressFromPaired" THEN @ ELSE None]
       /\ aimed' = SelectedBluetoothDevice(b)
       /\ steered' = FALSE

-----------------------------------------------------------------------------
WirelessInit ==
  /\ page = "Tools"
  /\ wifi = [view |-> "Overview", sel |-> 0, nets |-> <<>>, ssid |-> None,
             password |-> <<>>, entry |-> 0, connected |-> None]
  /\ bt = [mine |-> FALSE, filter |-> "All", scanned |-> <<>>, paired |-> <<>>, ssel |-> 0,
           psel |-> 0, modal |-> "None", of |-> None, address |-> None]
  /\ queued = [wifi |-> None, bt |-> None]
  /\ air \in [near : {Networks}, joined : Networks \cup {None}]
  /\ radio = [near |-> Known, paired |-> Paired, connected |-> {}]
  /\ requested = [accepted |-> None, refused |-> None]
  /\ aimed = None /\ steered = FALSE /\ buttons = 0 /\ changes = 0

(* The shell shows one screen; a button of another one is no press here.   *)
PressOn(s) == page = s /\ buttons < MaxButtons /\ buttons' = buttons + 1

-----------------------------------------------------------------------------
(* Tools: both screens start anew, whatever is still queued.               *)

ToolsWifi ==
  /\ page' = "Wifi"
  /\ wifi' = [wifi EXCEPT !.view = "Overview", !.sel = 0, !.nets = <<>>, !.password = <<>>,
                          !.entry = 0]
  /\ QueueWifi("RefreshStatus")
  /\ UNCHANGED <<bt, requested, aimed, steered>>

ToolsBluetooth ==
  /\ page' = "Bluetooth"
  /\ QueueBluetooth([ClearModal(bt) EXCEPT !.mine = FALSE, !.filter = "All", !.ssel = 0,
                                           !.psel = 0, !.address = None], "RefreshBoth")
  /\ UNCHANGED <<wifi, requested>>

-----------------------------------------------------------------------------
(* The Wi-Fi screen, view by view.                                         *)

ChooseWifiRow ==
  \/ /\ wifi.sel = 0
     /\ wifi' = [wifi EXCEPT !.view = "Networks", !.sel = 0] /\ QueueWifi("Scan")
  \/ /\ wifi.sel = 1
     /\ IF wifi.connected = None THEN UNCHANGED queued ELSE QueueWifi("Disconnect")
     /\ UNCHANGED wifi
  \/ /\ wifi.sel \notin {0, 1}
     /\ wifi' = [wifi EXCEPT !.view = "Country", !.sel = 0, !.entry = 0]
     /\ UNCHANGED queued

OverviewButton ==
  \/ /\ \E sel \in Steps(wifi.sel, Rows, 1) : wifi' = [wifi EXCEPT !.sel = sel]
     /\ UNCHANGED <<queued, page>>
  \/ ChooseWifiRow /\ UNCHANGED page
  \/ page' = "Tools" /\ UNCHANGED <<wifi, queued>>

MoveNetworks ==
  /\ wifi.nets # <<>>
  /\ \E sel \in Steps(wifi.sel, Len(wifi.nets), 1) : wifi' = [wifi EXCEPT !.sel = sel]
  /\ UNCHANGED queued

(* Mistake: the password of the last attempt stays.                        *)
ChooseNetworkAgain ==
  /\ wifi.nets # <<>>
  /\ LET sel == Clamp(wifi.sel, Len(wifi.nets))
         w == [wifi EXCEPT !.sel = 0, !.ssid = wifi.nets[sel + 1].ssid]
     IN wifi' = [w EXCEPT !.view = "Password"] /\ UNCHANGED queued

(* A secured network asks for its password, unless it is the current one.  *)
ChooseNetwork ==
  /\ wifi.nets # <<>>
  /\ LET sel == Clamp(wifi.sel, Len(wifi.nets))
         net == wifi.nets[sel + 1]
         w == [wifi EXCEPT !.sel = sel, !.ssid = net.ssid, !.password = <<>>]
     IN IF net.ssid \in Secured /\ ~net.active
        THEN wifi' = [w EXCEPT !.view = "Password", !.sel = 0] /\ UNCHANGED queued
        ELSE wifi' = w /\ QueueWifi("Connect")

(* Mistake: the overview opens on the row of the list.                     *)
NetworksBackInPlace ==
  wifi' = [wifi EXCEPT !.view = "Overview"] /\ QueueWifi("RefreshStatus")

NetworksBack ==
  wifi' = [wifi EXCEPT !.view = "Overview", !.sel = 0] /\ QueueWifi("RefreshStatus")

NetworksButton ==
  /\ \/ MoveNetworks
     \/ ChooseNetwork
     \/ QueueWifi("Scan") /\ UNCHANGED wifi
     \/ NetworksBack
  /\ UNCHANGED page

(* Of the three pages of characters the last is one short of the keyboard, *)
(* whose last key then adds the zero byte after them, None here.           *)
TypeCharacter ==
  \E c \in {wifi.ssid} \cup (IF wifi.sel = KeyCount - 1 THEN {None} ELSE {}) :
    wifi' = [wifi EXCEPT !.password = IF Len(@) < MaxPassword THEN Append(@, c) ELSE @]

(* X leaves the keyboard even when the action is refused.                  *)
PasswordDone ==
  IF wifi.password = <<>> THEN UNCHANGED <<wifi, queued>>
  ELSE wifi' = [wifi EXCEPT !.view = "Networks"] /\ QueueWifi("Connect")

PasswordButton ==
  /\ \/ /\ \/ \E sel \in Steps(wifi.sel, KeyCount, KeyColumns) :
                wifi' = [wifi EXCEPT !.sel = sel]
           \/ TypeCharacter
           \/ wifi' = [wifi EXCEPT !.password = IF @ = <<>> THEN @ ELSE Front(@)]
           \/ wifi' = [wifi EXCEPT !.view = "Networks", !.password = <<>>]
        /\ UNCHANGED queued
     \/ PasswordDone
  /\ UNCHANGED page

CountryDone ==
  IF wifi.entry < 2 THEN UNCHANGED <<wifi, queued>>
  ELSE wifi' = [wifi EXCEPT !.view = "Overview", !.sel = 2] /\ QueueWifi("SetCountry")

CountryButton ==
  /\ \/ /\ \/ \E sel \in Steps(wifi.sel, LetterCount, LetterColumns) :
                wifi' = [wifi EXCEPT !.sel = sel]
           \/ wifi' = [wifi EXCEPT !.entry = IF @ < 2 THEN @ + 1 ELSE @]
           \/ wifi' = [wifi EXCEPT !.entry = IF @ > 0 THEN @ - 1 ELSE @]
           \/ wifi' = [wifi EXCEPT !.view = "Overview", !.sel = 2]
        /\ UNCHANGED queued
     \/ CountryDone
  /\ UNCHANGED page

WifiButton ==
  /\ \/ wifi.view = "Overview" /\ OverviewButton
     \/ wifi.view = "Networks" /\ NetworksButton
     \/ wifi.view = "Password" /\ PasswordButton
     \/ wifi.view = "Country" /\ CountryButton
  /\ UNCHANGED <<bt, requested, aimed, steered>>

-----------------------------------------------------------------------------
(* The Bluetooth screen.  A dialog takes A and B and swallows the rest.    *)
(* The address is set before the queue answers: when it is busy, the       *)
(* dialog stays and the pending Forget has the address of this one.        *)

ConfirmForget ==
  /\ bt.modal = "ConfirmForget"
  /\ IF bt.of = None
     THEN bt' = ClearModal(bt) /\ UNCHANGED <<queued, aimed, steered, requested>>
     ELSE /\ QueueBluetooth([bt EXCEPT !.address = bt.of], "ForgetAddressFromPaired")
          /\ requested' = IF queued.bt = None THEN [requested EXCEPT !.accepted = bt.of]
                      ELSE [requested EXCEPT !.refused = bt.of]

ConfirmDisconnectAll ==
  /\ bt.modal = "ConfirmDisconnectAll"
  /\ QueueBluetooth(bt, "DisconnectAllPaired") /\ UNCHANGED requested

CancelModal ==
  /\ bt.modal # "None" /\ bt' = ClearModal(bt)
  /\ UNCHANGED <<queued, aimed, steered, requested>>

ModalButton == (ConfirmForget \/ ConfirmDisconnectAll \/ CancelModal) /\ UNCHANGED page

(* These change which device is selected.                                  *)
Steer(b) == bt' = b /\ steered' = TRUE /\ UNCHANGED <<queued, aimed, page>>

SwitchList == Steer(EnsureSelectionValid([ClearModal(bt) EXCEPT !.mine = ~@]))

CycleBluetoothFilter ==
  /\ ~bt.mine
  /\ \E i \in 1..3, step \in {1, 2} :
       /\ Filters[i] = bt.filter
       /\ Steer(EnsureSelectionValid([bt EXCEPT !.filter = Filters[((i - 1 + step) % 3) + 1]]))

OpenDisconnectAllModal ==
  bt.mine /\ Steer([bt EXCEPT !.modal = "ConfirmDisconnectAll", !.of = None])

MoveDevices ==
  LET devices == ActiveBluetoothDevices(bt)
  IN /\ devices # <<>>
     /\ \E sel \in Steps(ActiveSelection(bt), Len(devices), 1) :
          Steer(Select(ClearModal(bt), sel))

OpenForgetModal ==
  /\ bt.mine
  /\ LET b == EnsureSelectionValid(bt)  d == SelectedBluetoothDevice(b)
     IN Steer(IF d = None THEN ClearModal(b)
              ELSE [b EXCEPT !.modal = "ConfirmForget", !.of = d])

Rescan ==
  /\ ~bt.mine
  /\ \E action \in {"RefreshScanned", "RefreshBoth"} : QueueBluetooth(ClearModal(bt), action)

ActOnSelected(action) ==
  LET b == EnsureSelectionValid(ClearModal(bt))
  IN IF ActiveBluetoothDevices(b) = <<>> THEN bt' = b /\ UNCHANGED <<queued, aimed, steered>>
     ELSE QueueBluetooth(b, action)

DeviceButton ==
  bt.mine /\ \E action \in {"ConnectSelectedFromPaired", "DisconnectSelectedFromPaired"} :
                 ActOnSelected(action)

PairButton == ~bt.mine /\ ActOnSelected("PairSelectedFromScanned")

BluetoothBack ==
  bt' = ClearModal(bt) /\ page' = "Tools" /\ UNCHANGED <<queued, aimed, steered>>

ListButton ==
  /\ \/ SwitchList \/ CycleBluetoothFilter \/ OpenDisconnectAllModal \/ MoveDevices
     \/ OpenForgetModal
     \/ (Rescan \/ DeviceButton \/ PairButton) /\ UNCHANGED page
     \/ BluetoothBack
  /\ UNCHANGED requested

BluetoothButton ==
  /\ IF bt.modal # "None" THEN ModalButton ELSE ListButton
  /\ UNCHANGED wifi

-----------------------------------------------------------------------------
(* What the loop runs: nmcli and bluetoothctl, any of which may fail.      *)

RefreshWifiStatus(w, a) ==
  \E shown \in {a.joined, None} : wifi' = [w EXCEPT !.connected = shown]

ScanWifi ==
  \/ UNCHANGED wifi  \* the rescan or its list failed
  \/ \E list \in {l \in SeqOf(air.near, Cardinality(air.near)) : IsInjective(l)} :
       LET nets == [i \in DOMAIN list |-> [ssid |-> list[i], active |-> list[i] = air.joined]]
           sorted == Kept(nets, [ssid : air.near, active : {TRUE}])
                     \o Kept(nets, [ssid : air.near, active : {FALSE}])
       IN RefreshWifiStatus([wifi EXCEPT !.nets = sorted, !.sel = Clamp(@, Len(sorted))], air)

ConnectWifi ==
  \/ UNCHANGED <<wifi, air>>  \* nothing chosen, or refused
  \/ /\ wifi.ssid \in air.near
     /\ None \notin Range(wifi.password)  \* a zero byte cuts the command short
     /\ air' = [air EXCEPT !.joined = wifi.ssid]
     /\ RefreshWifiStatus([wifi EXCEPT !.password = <<>>], air')

DisconnectWifi ==
  \/ UNCHANGED <<wifi, air>>
  \/ air' = [air EXCEPT !.joined = None] /\ RefreshWifiStatus(wifi, air')

SetWifiCountry ==
  \/ UNCHANGED wifi
  \/ wifi.entry = 2 /\ wifi' = [wifi EXCEPT !.entry = 0]

ExecuteWifiAction ==
  /\ queued.wifi # None
  /\ \/ queued.wifi = "RefreshStatus" /\ RefreshWifiStatus(wifi, air) /\ UNCHANGED air
     \/ queued.wifi = "Scan" /\ ScanWifi /\ UNCHANGED air
     \/ queued.wifi = "Connect" /\ ConnectWifi
     \/ queued.wifi = "Disconnect" /\ DisconnectWifi
     \/ queued.wifi = "SetCountry" /\ SetWifiCountry /\ UNCHANGED air
  /\ queued' = [queued EXCEPT !.wifi = None]
  /\ UNCHANGED <<page, bt, radio, requested, aimed, steered, buttons, changes>>

(* Each list is read on its own, if the agent can be set up; what is read  *)
(* is what the action left.                                                *)
(* A query that fails is read as one that found nothing.                   *)
Answers(S) == {S, {}}

Found(S) ==
  {SortBluetoothDevices(read.seen, read) :
     read \in [seen : Answers(S), paired : Answers(radio'.paired),
               connected : Answers(radio'.connected)]}

RefreshScanned(b) ==
  {[b EXCEPT !.scanned = found, !.ssel = Clamp(@, Len(found))] :
     found \in Found(radio'.near \cup radio'.paired)}

RefreshPaired(b) ==
  {[b EXCEPT !.paired = found, !.psel = Clamp(@, Len(found))] : found \in Found(radio'.paired)}

RefreshBoth(b) ==
  \E scanned \in {b} \cup RefreshScanned(b) : bt' \in {scanned} \cup RefreshPaired(scanned)

(* Pairing and connecting succeed or fail each on its own.                 *)
PairAndConnect(d) ==
  radio' \in [near : {radio.near}, paired : {radio.paired, radio.paired \cup {d}},
              connected : {radio.connected, radio.connected \cup {d}}]

ConnectDevice(d) ==
  radio' \in {radio, [radio EXCEPT !.connected = @ \cup {d}]}

DisconnectDevice(d) ==
  radio' \in {radio, [radio EXCEPT !.connected = @ \ {d}]}

ForgetDevice(d) ==
  \/ DisconnectDevice(d)
  \/ radio' = [radio EXCEPT !.connected = @ \ {d}, !.paired = @ \ {d}]

DisconnectAllPaired ==
  \E gone \in SUBSET (radio.connected \cap radio.paired) :
    radio' = [radio EXCEPT !.connected = @ \ gone]

(* The selection and the list are those of now.                            *)
RunOnSelected ==
  LET d == SelectedBluetoothDevice(bt)
  IN IF d = None THEN UNCHANGED <<radio, bt>>
     ELSE /\ \/ queued.bt = "PairSelectedFromScanned" /\ PairAndConnect(d)
             \/ queued.bt = "ConnectSelectedFromPaired" /\ ConnectDevice(d)
             \/ queued.bt = "DisconnectSelectedFromPaired" /\ DisconnectDevice(d)
          /\ RefreshBoth(bt)

(* Mistake: the device under the cursor is forgotten.                      *)
ForgetSelected == SelectedBluetoothDevice(bt)

(* Forget has its address of its own.                                      *)
ForgetTarget == bt.address

RunForget ==
  IF ForgetTarget = None THEN UNCHANGED <<radio, bt>>
  ELSE ForgetDevice(ForgetTarget) /\ RefreshBoth([bt EXCEPT !.address = None])

(* One action a pass, and Wi-Fi's goes first.                              *)
ExecuteBluetoothAction ==
  /\ queued.bt # None /\ queued.wifi = None
  /\ \/ queued.bt = "RefreshScanned" /\ UNCHANGED radio /\ bt' \in {bt} \cup RefreshScanned(bt)
     \/ queued.bt = "RefreshPaired" /\ UNCHANGED radio /\ bt' \in {bt} \cup RefreshPaired(bt)
     \/ queued.bt = "RefreshBoth" /\ UNCHANGED radio /\ RefreshBoth(bt)
     \/ queued.bt \in OnSelected /\ RunOnSelected
     \/ queued.bt = "ForgetAddressFromPaired" /\ RunForget
     \/ queued.bt = "DisconnectAllPaired" /\ DisconnectAllPaired /\ RefreshBoth(bt)
  /\ queued' = [queued EXCEPT !.bt = None] /\ aimed' = None /\ steered' = FALSE
  /\ requested' = [accepted |-> None, refused |-> None]
  /\ UNCHANGED <<page, wifi, air, buttons, changes>>

(* Networks and devices come and go by themselves.                         *)
Surroundings ==
  /\ changes < MaxChanges /\ changes' = changes + 1
  /\ \/ \E n \in Networks :
          /\ air' = [near |-> IF n \in air.near THEN air.near \ {n} ELSE air.near \cup {n},
                     joined |-> IF n = air.joined THEN None ELSE air.joined]
          /\ UNCHANGED radio
     \/ \E d \in Known :
          /\ radio' = [radio EXCEPT !.connected = IF d \in @ THEN @ \ {d} ELSE @ \cup {d}]
          /\ UNCHANGED air
     \/ \E d \in radio.near : radio' = [radio EXCEPT !.near = @ \ {d}] /\ UNCHANGED air
  /\ UNCHANGED <<page, wifi, bt, queued, requested, aimed, steered, buttons>>

-----------------------------------------------------------------------------
Pressed ==
  \/ PressOn("Tools") /\ (ToolsWifi \/ ToolsBluetooth)
  \/ PressOn("Wifi") /\ WifiButton
  \/ PressOn("Bluetooth") /\ BluetoothButton

WirelessNext ==
  \/ Pressed /\ UNCHANGED <<air, radio, changes>>
  \/ ExecuteWifiAction \/ ExecuteBluetoothAction \/ Surroundings

WirelessSpec == WirelessInit /\ [][WirelessNext]_wirelessVars

-----------------------------------------------------------------------------
(* The selection of the Wi-Fi screen indexes the keyboards without a check *)
(* and says which row of the overview a button means: there it stays in    *)
(* range, whichever view a scan that shortens the list ends in.  The list  *)
(* of networks clamps it before each use.  (One page of the keyboard lacks *)
(* its last character all the same: TypeCharacter.)                        *)
IndexInRange ==
  /\ wifi.sel \in Nat
  /\ wifi.view = "Overview" => wifi.sel < Rows
  /\ wifi.view = "Password" => wifi.sel < KeyCount
  /\ wifi.view = "Country" => wifi.sel < LetterCount

(* A password outlives a connection that failed.  It is never sent, nor    *)
(* added to, for another network than the one it was typed for.            *)
PasswordOwn == Range(wifi.password) \subseteq {wifi.ssid, None}

(* The device forgotten is the one whose dialog queued the request:        *)
(* neither the cursor, nor a list read again, nor another action refused   *)
(* in between makes it another one.  The exception is the code's: another  *)
(* dialog confirmed while the request waits is refused as busy, and it is  *)
(* the device of that one that is forgotten.                               *)
Requested == IF requested.refused = None THEN requested.accepted ELSE requested.refused

ForgetConfirmed ==
  [][\A d \in radio.paired \ radio'.paired : d = Requested]_wirelessVars

(* A queued action meets the device that was selected, on the list and     *)
(* with the filter of then, unless the player pressed a button after it.   *)
ActsOnSelected ==
  queued.bt \in OnSelected /\ ~steered =>
    SelectedBluetoothDevice(bt) = aimed /\ aimed # None

=============================================================================
