------------------------------- MODULE Reconnect -------------------------------
(***************************************************************************)
(* The plugins of blueman-applet that connect devices again: AutoConnect,  *)
(* at an interval, and RecentConns, from a menu of the last connections.   *)
(* Both hear of BlueZ's adapters and devices later, in order, and read     *)
(* Adapter1.Powered from BlueZ itself.                                     *)
(***************************************************************************)
EXTENDS Sequences, Integers, FiniteSets, SequencesExt

CONSTANTS
    HomeOf,         \* the adapter of each device that may be connected
    MaxItems,       \* the option max-items
    MaxMessages     \* bound: messages of BlueZ that the applet has not handled

Recent == DOMAIN HomeOf
Homes == {HomeOf[d] : d \in Recent}

ASSUME ReconnectAssumption == MaxItems \in Nat \ {0} /\ MaxMessages \in Nat \ {0}

VARIABLES
    up,             \* BlueZ runs
    here, powered,  \* the adapters that it has, and those that are powered
    present,        \* its devices
    messages,       \* what it has told: [what, about]
    state,          \* BluemanApplet.manager_state
    knownHomes, knownDevices,   \* what the applet's Manager has
    status,         \* PowerManager.get_bluetooth_status()
    autoconnect,    \* AutoConnect is loaded
    event_source,   \* its timer's id is not None
    died,           \* history: _run raised, so that there is no such timer any more
    late,           \* history: an adapter came that was powered already
    stored,         \* recent-connections, by time, the last first
    menu            \* the items of "Reconnect to..."

reconnectVars == <<up, here, powered, present, messages, state, knownHomes, knownDevices, status,
                   autoconnect, event_source, died, late, stored, menu>>
timerVars == <<event_source, died>>

Message(what, s) == [what |-> what, about |-> s]

ReconnectInit ==
    /\ up = TRUE /\ here = Homes /\ powered = {} /\ present = Recent
    /\ messages = <<Message("appeared", {})>>
    /\ state = FALSE /\ knownHomes = here /\ knownDevices = present
    /\ status = TRUE /\ autoconnect = TRUE /\ event_source = FALSE /\ died = FALSE /\ late = FALSE
    /\ stored = <<>> /\ menu = {}

(***************************************************************************)
(* AutoConnect.                                                            *)
(***************************************************************************)
\* Of an adapter that BlueZ no longer has, the last value that it has told is read.
AnyPowered(known) == {known \cap powered # {}} \cup (IF known \subseteq here THEN {} ELSE {TRUE})

TimerRuns == event_source /\ ~died

\* stop_timer, which forgets the timer whether or not it is still there
StopTimer == event_source' = FALSE /\ died' = FALSE

\* start_timer
StartTimer(running) ==
    IF running THEN event_source' \in AnyPowered(knownHomes) /\ died' = FALSE ELSE UNCHANGED timerVars

\* Mutant: the timer is only stopped.
OnPoweredStops ==
    /\ event_source' = (event_source /\ FALSE \notin AnyPowered(knownHomes))
    /\ died' = (died /\ event_source')

\* on_adapter_property_changed
OnPowered ==
    \/ FALSE \in AnyPowered(knownHomes) /\ StopTimer
    \/ TRUE \in AnyPowered(knownHomes) /\ StartTimer(state)

(***************************************************************************)
(* RecentConns.                                                            *)
(***************************************************************************)
\* _get_items, as many as the menu shows
Items(s, homes, devices) ==
    LET known == {i \in DOMAIN s : s[i] \in devices /\ HomeOf[s[i]] \in homes}
    IN  {s[i] : i \in {j \in known : Cardinality({k \in known : k < j}) < MaxItems}}

Rebuild(homes, devices) ==
    menu' = IF status THEN Items(stored', homes, devices) ELSE {}

\* notify, which DBusService.connect_service calls before it connects, stores the device.
Store(d) ==
    \/ \E i \in DOMAIN stored : stored[i] = d /\ stored' = <<d>> \o RemoveAt(stored, i)
    \/ d \notin Range(stored) /\ stored' = <<d>> \o stored

Notify(d) == Store(d) /\ Rebuild(knownHomes, knownDevices)

\* _run: connects the configured devices that are known and not connected.  It may raise,
\* before or after notify, and is not called again then.
Run(d) ==
    /\ TimerRuns
    /\ \/ d \in knownDevices /\ HomeOf[d] \in knownHomes /\ Notify(d) /\ died' \in BOOLEAN
       \/ died' = TRUE /\ UNCHANGED <<stored, menu>>
    /\ UNCHANGED <<up, here, powered, present, messages, state, knownHomes, knownDevices, status,
                   autoconnect, event_source, late>>

\* A device is connected by on_item_activated or by any other user of connect_service.
\* notify stores it unless its adapter is not known or reading the device raises.
Connect(d) ==
    /\ d \in menu \/ d \in present
    /\ \/ HomeOf[d] \in knownHomes /\ Notify(d)
       \/ UNCHANGED <<stored, menu>>
    /\ UNCHANGED <<up, here, powered, present, messages, state, knownHomes, knownDevices, status,
                   autoconnect, late>>
    /\ UNCHANGED timerVars

\* PowerManager calls on_power_state_changed.
PowerState ==
    /\ status' = ~status
    /\ UNCHANGED stored
    /\ menu' = IF status' THEN Items(stored, knownHomes, knownDevices) ELSE {}
    /\ UNCHANGED <<up, here, powered, present, messages, state, knownHomes, knownDevices,
                   autoconnect, late>>
    /\ UNCHANGED timerVars

(***************************************************************************)
(* What BluemanApplet passes on to the plugins.                            *)
(***************************************************************************)
Takes(what) == messages # <<>> /\ Head(messages).what = what /\ messages' = Tail(messages)
bluezState == <<up, here, powered, present>>

StateChanges(on) ==
    /\ Takes(IF on THEN "appeared" ELSE "vanished")
    /\ state' = on
    /\ IF ~autoconnect THEN UNCHANGED timerVars
       ELSE IF on THEN StartTimer(TRUE) ELSE StopTimer
    /\ UNCHANGED stored
    /\ IF on THEN Rebuild(knownHomes, knownDevices) ELSE menu' = {}
    /\ UNCHANGED <<knownHomes, knownDevices, status, autoconnect, late>> /\ UNCHANGED bluezState

PoweredChanges ==
    /\ Takes("Powered")
    /\ IF autoconnect THEN OnPowered ELSE UNCHANGED timerVars
    /\ UNCHANGED <<state, knownHomes, knownDevices, status, autoconnect, late, stored, menu>>
    /\ UNCHANGED bluezState

\* on_adapter_added, on_adapter_removed, on_device_created, on_device_removed
ObjectsChange ==
    /\ \/ Takes("added") /\ knownHomes' = knownHomes \cup Head(messages).about /\ UNCHANGED knownDevices
       \/ Takes("removed") /\ knownHomes' = knownHomes \ Head(messages).about /\ UNCHANGED knownDevices
       \/ Takes("created") /\ knownDevices' = knownDevices \cup Head(messages).about /\ UNCHANGED knownHomes
       \/ Takes("forgotten") /\ knownDevices' = knownDevices \ Head(messages).about /\ UNCHANGED knownHomes
    /\ UNCHANGED stored /\ Rebuild(knownHomes', knownDevices')
    /\ UNCHANGED <<state, status, autoconnect, late>> /\ UNCHANGED timerVars /\ UNCHANGED bluezState

\* on_load with on_manager_state_changed, on_unload
LoadAutoConnect(on) ==
    /\ autoconnect # on /\ autoconnect' = on
    /\ IF on /\ state THEN StartTimer(TRUE) ELSE StopTimer
    /\ UNCHANGED <<messages, state, knownHomes, knownDevices, status, late, stored, menu>>
    /\ UNCHANGED bluezState

\* option_changed
IntervalChanges ==
    /\ autoconnect /\ StartTimer(state)
    /\ UNCHANGED <<messages, state, knownHomes, knownDevices, status, autoconnect, late, stored, menu>>
    /\ UNCHANGED bluezState

(***************************************************************************)
(* BlueZ.                                                                  *)
(***************************************************************************)
Says(s) == Len(messages) + Len(s) <= MaxMessages /\ messages' = messages \o s
appletState == <<state, knownHomes, knownDevices, status, autoconnect, timerVars, stored, menu>>

Powers(a) ==
    /\ a \in here
    /\ powered' = IF a \in powered THEN powered \ {a} ELSE powered \cup {a}
    /\ Says(<<Message("Powered", {a})>>)
    /\ UNCHANGED <<up, here, present, late>> /\ UNCHANGED appletState

\* An adapter goes after its devices, or comes before them, of which all are one message.
Gone(a) == <<Message("forgotten", {d \in present : HomeOf[d] = a}), Message("removed", {a})>>

AdapterLeaves(a) ==
    /\ a \in here /\ Says(Gone(a))
    /\ here' = here \ {a} /\ powered' = powered \ {a}
    /\ present' = {d \in present : HomeOf[d] # a}
    /\ UNCHANGED <<up, late>> /\ UNCHANGED appletState

AdapterArrives(a) ==
    /\ up /\ a \notin here /\ here' = here \cup {a}
    /\ powered' \in {powered, powered \cup {a}} /\ late' = (late \/ powered' # powered)
    /\ present' = present \cup {d \in Recent : HomeOf[d] = a}
    /\ Says(<<Message("added", {a}), Message("created", present' \ present)>>)
    /\ UNCHANGED up /\ UNCHANGED appletState

DeviceChanges(d) ==
    /\ HomeOf[d] \in here
    /\ \/ d \in present /\ present' = present \ {d} /\ Says(<<Message("forgotten", {d})>>)
       \/ d \notin present /\ present' = present \cup {d} /\ Says(<<Message("created", {d})>>)
    /\ UNCHANGED <<up, here, powered, late>> /\ UNCHANGED appletState

\* BlueZ stops: its name vanishes before or after its objects.  It starts without objects.
Stops ==
    /\ up /\ up' = FALSE /\ here' = {} /\ powered' = {} /\ present' = {}
    /\ LET objects == <<Message("forgotten", present), Message("removed", here)>>
           name == <<Message("vanished", {})>>
       IN  \E s \in {name \o objects, objects \o name} : Says(s)
    /\ UNCHANGED late /\ UNCHANGED appletState

Starts ==
    /\ ~up /\ up' = TRUE
    /\ Says(<<Message("appeared", {})>>)
    /\ UNCHANGED <<here, powered, present, late>> /\ UNCHANGED appletState

ReconnectNext ==
    \/ PowerState \/ PoweredChanges \/ ObjectsChange \/ IntervalChanges \/ Stops \/ Starts
    \/ \E b \in BOOLEAN : StateChanges(b) \/ LoadAutoConnect(b)
    \/ \E a \in Homes : Powers(a) \/ AdapterLeaves(a) \/ AdapterArrives(a)
    \/ \E d \in Recent : Run(d) \/ Connect(d) \/ DeviceChanges(d)

ReconnectTypeOK ==
    /\ powered \subseteq here /\ here \cup knownHomes \subseteq Homes
    /\ present \cup knownDevices \cup menu \subseteq Recent /\ Cardinality(menu) <= MaxItems
    /\ Len(messages) <= MaxMessages
    /\ {up, state, status, autoconnect, event_source, died, late} \subseteq BOOLEAN
    /\ IsInjective(stored) /\ {stored[i] : i \in DOMAIN stored} \subseteq Recent

(* Once everything that BlueZ tells is handled: AutoConnect tries at its interval while an
   adapter is powered, unless one came powered, which it does not notice, or the last try
   raised, after which there is none until the timer is started again; and the menu of
   RecentConns has the last connections whose adapter and device there are, and none while
   Bluetooth is off. *)
ReconnectOffered ==
    messages = <<>> =>
        /\ autoconnect /\ state /\ powered # {} /\ ~late /\ ~died => TimerRuns
        /\ TimerRuns => autoconnect /\ state
        /\ menu = IF status THEN Items(stored, here, present) ELSE {}
===============================================================================
