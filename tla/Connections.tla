------------------------------ MODULE Connections ------------------------------
(***************************************************************************)
(* The plugins of blueman-applet that follow the connections of devices:   *)
(* ShowConnected (icon and tool tip), DisconnectItems (menu),              *)
(* ConnectionNotifier (bubbles) and GameControllerWakelock (screensaver).  *)
(* They hear of BlueZ later, in order; when they enumerate the devices     *)
(* they ask BlueZ for each device that they have heard of.                 *)
(***************************************************************************)
EXTENDS Sequences, Integers, FiniteSets

CONSTANTS
    Controllers,    \* devices, all of them game controllers
    MaxTold,        \* bound: messages of BlueZ that the applet has not handled
    MaxLock         \* bound: wake_lock, by which devices connect no more

ASSUME ConnectionsAssumption == MaxTold \in Nat \ {0, 1} /\ MaxLock \in Nat \ {0}

VARIABLES
    linked,         \* the devices that BlueZ has connected
    untold,         \* history: those of them that were when their objects came
    service,        \* BlueZ is "off", or runs, "bare" or with its "adapter"
    told,           \* what it has told: [what, devs]
    manager_state,  \* BluemanApplet.manager_state
    objects,        \* the applet knows the objects of BlueZ
    missed,         \* history: devices whose disconnection was not told
    _connections, active, initialized,
    source,         \* _enumerate_source_id is not None
    items,          \* the devices of the "Disconnect" items
    bubbles,        \* ConnectionNotifier._notifications
    wake_lock,      \* GameControllerWakelock; -1: the plugin is not loaded
    suspended,      \* xdg-screensaver has been suspended
    failed          \* history: it could not be resumed

bluezVars == <<linked, untold, service, told, missed>>
showVars == <<_connections, active, initialized, source>>
lockVars == <<wake_lock, suspended, failed>>
connectionVars == <<bluezVars, manager_state, objects, showVars, items, bubbles, lockVars>>

About(d, what) == [what |-> what, devs |-> {d}]
Told(what) == [what |-> what, devs |-> {}]

ConnectionsInit ==
    /\ linked \in SUBSET Controllers /\ untold = {} /\ service = "adapter"
    /\ told = <<Told("appeared")>> /\ missed = {}
    /\ manager_state = FALSE /\ objects = TRUE
    /\ _connections = {} /\ active = FALSE /\ initialized = FALSE /\ source = FALSE
    /\ items = {} /\ bubbles = {}
    /\ wake_lock = 0 /\ suspended = FALSE /\ failed = FALSE

\* The devices whose objects the applet does not know yet
Newcomers == {d \in Controllers : \E i \in DOMAIN told : told[i] = About(d, "created")}

\* The devices of Manager.get_devices() that say they are connected.  Where BlueZ does not
\* answer any more, the last value that it has told is taken.
Reads(known) ==
    IF ~known THEN {{}} ELSE IF service = "adapter" THEN {linked \ Newcomers} ELSE SUBSET Controllers

\* DisconnectItems._render, for the objects that the applet knows
Render(known) == items' \in Reads(known)

(***************************************************************************)
(* ShowConnected.                                                          *)
(***************************************************************************)
\* icon_should_change, which asks on_status_icon_query_icon, if needed
ShowIcon == active' = (_connections' # {})

\* on_device_property_changed
ShowDevice(d, on) ==
    /\ _connections' = IF on THEN _connections \cup {d} ELSE _connections \ {d}
    /\ ShowIcon
    /\ UNCHANGED <<initialized, source>>

\* Mutant: those of before are kept.
EnumerateMore(C) == _connections' = _connections \cup C /\ ShowIcon

\* enumerate_connections
Enumerate(C) == _connections' = C /\ ShowIcon

\* unless a device cannot be read any more, which raises
Enumerates(known) ==
    \/ \E C \in Reads(known) : Enumerate(C)
    \/ known /\ service # "adapter" /\ UNCHANGED <<_connections, active>>

\* on_manager_state_changed: the icon is left as it is.
ShowState(state) ==
    /\ source' = state /\ initialized' = (initialized \/ state)
    /\ _connections' = IF state THEN _connections ELSE {}
    /\ UNCHANGED active

\* _run_enumerate_connections
EnumerateLater ==
    /\ source /\ source' = FALSE
    /\ Enumerates(objects)
    /\ UNCHANGED <<initialized, manager_state, objects, items, bubbles>>
    /\ UNCHANGED bluezVars /\ UNCHANGED lockVars

(***************************************************************************)
(* GameControllerWakelock: xdg_screensaver, whose command may fail.        *)
(***************************************************************************)
Suspend ==
    \/ /\ wake_lock >= 1 /\ wake_lock' = wake_lock + 1
       /\ UNCHANGED <<suspended, failed>>
    \/ /\ wake_lock = 0 /\ wake_lock' = 1 /\ suspended' = TRUE
       /\ UNCHANGED failed
    \/ /\ wake_lock = 0
       /\ UNCHANGED lockVars

\* Mutant: the last one does not resume.
ResumeNothing(lock) ==
    /\ wake_lock' = IF lock > 0 THEN lock - 1 ELSE wake_lock
    /\ UNCHANGED <<suspended, failed>>

Resume(lock) ==
    \/ /\ lock > 1 /\ wake_lock' = lock - 1
       /\ UNCHANGED <<suspended, failed>>
    \/ /\ lock = 1 /\ wake_lock' = 0 /\ suspended' = FALSE
       /\ UNCHANGED failed
    \/ /\ lock = 1 /\ wake_lock' = 1 /\ failed' = TRUE
       /\ UNCHANGED suspended
    \/ /\ lock <= 0
       /\ UNCHANGED lockVars

Lock(on) ==
    \/ wake_lock = -1 /\ UNCHANGED lockVars
    \/ wake_lock # -1 /\ on /\ Suspend
    \/ wake_lock # -1 /\ ~on /\ Resume(wake_lock)

\* on_unload
UnloadLock ==
    /\ wake_lock # -1
    /\ wake_lock' = -1
    /\ \/ wake_lock = 0 /\ UNCHANGED <<suspended, failed>>
       \/ wake_lock > 0 /\ suspended' = FALSE /\ UNCHANGED failed
       \/ wake_lock > 0 /\ failed' = TRUE /\ UNCHANGED suspended
    /\ UNCHANGED <<manager_state, objects, items, bubbles>>
    /\ UNCHANGED bluezVars /\ UNCHANGED showVars

LoadLock ==
    /\ wake_lock = -1 /\ wake_lock' = 0
    /\ UNCHANGED <<suspended, failed, manager_state, objects, items, bubbles>>
    /\ UNCHANGED bluezVars /\ UNCHANGED showVars

(***************************************************************************)
(* What BluemanApplet passes on to the plugins.                            *)
(***************************************************************************)
Handle(what) == told # <<>> /\ Head(told).what = what /\ told' = Tail(told)

\* on_device_property_changed, for Connected
ConnectedChanges(on) ==
    /\ Handle(IF on THEN "connected" ELSE "disconnected")
    /\ \E d \in Head(told).devs :
         /\ ShowDevice(d, on)
         /\ bubbles' = IF on THEN bubbles \cup {d} ELSE bubbles \ {d}
    /\ Render(objects)
    /\ Lock(on)
    /\ UNCHANGED <<linked, untold, service, missed, manager_state, objects>>

\* on_device_created, which none of these plugins follows
DeviceCreated ==
    /\ Handle("created")
    /\ UNCHANGED <<linked, untold, service, missed, manager_state, objects, items, bubbles>>
    /\ UNCHANGED showVars /\ UNCHANGED lockVars

\* on_adapter_added, on_adapter_removed
AdapterEvent(added) ==
    /\ Handle(IF added THEN "added" ELSE "removed")
    /\ objects' = added
    /\ Enumerates(added)
    /\ IF added THEN UNCHANGED items ELSE Render(added)
    /\ UNCHANGED <<linked, untold, service, missed, manager_state, initialized, source, bubbles>>
    /\ UNCHANGED lockVars

\* _on_dbus_name_appeared, _on_dbus_name_vanished
ManagerState(state) ==
    /\ Handle(IF state THEN "appeared" ELSE "vanished")
    /\ manager_state' = state
    /\ ShowState(state)
    /\ Render(state /\ objects)
    /\ UNCHANGED <<linked, untold, service, missed, objects, bubbles>> /\ UNCHANGED lockVars

\* _on_battery_update, which takes the bubble out
BatteryUpdate(d) ==
    /\ d \in linked \cap bubbles /\ bubbles' = bubbles \ {d}
    /\ UNCHANGED <<manager_state, objects, items>>
    /\ UNCHANGED bluezVars /\ UNCHANGED showVars /\ UNCHANGED lockVars

(***************************************************************************)
(* BlueZ.                                                                  *)
(***************************************************************************)
Tells(s) == Len(told) + Len(s) <= MaxTold /\ told' = told \o s

Orders(a, b) == {<<Told(a), Told(b)>>, <<Told(b), Told(a)>>}
appletRest == <<manager_state, objects, items, bubbles, showVars, lockVars>>

Links(d) ==
    /\ service = "adapter" /\ d \notin linked
    /\ \A lock \in {0, wake_lock} : lock + Len(told) < MaxLock
    /\ linked' = linked \cup {d} /\ Tells(<<About(d, "connected")>>)
    /\ UNCHANGED <<untold, service, missed>> /\ UNCHANGED appletRest

\* The object of a device comes, which says that it is connected: no change is told.
ComesLinked(d) ==
    /\ service = "adapter" /\ d \notin linked
    /\ linked' = linked \cup {d} /\ untold' = untold \cup {d} /\ Tells(<<About(d, "created")>>)
    /\ UNCHANGED <<service, missed>> /\ UNCHANGED appletRest

Unlinks(d) ==
    /\ d \in linked
    /\ linked' = linked \ {d} /\ untold' = untold \ {d} /\ Tells(<<About(d, "disconnected")>>)
    /\ UNCHANGED <<service, missed>> /\ UNCHANGED appletRest

\* The adapter goes, or BlueZ, with devices that are still connected.
Goes ==
    /\ linked' = {} /\ untold' = {} /\ missed' = missed \cup linked
    /\ \/ service = "adapter" /\ service' = "bare" /\ Tells(<<Told("removed")>>)
       \/ service = "bare" /\ service' = "off" /\ Tells(<<Told("vanished")>>)
       \/ /\ service = "adapter" /\ service' = "off"
          /\ \E s \in Orders("removed", "vanished") : Tells(s)
    /\ UNCHANGED appletRest

\* They come, the adapter with devices that may be connected.
Comes ==
    /\ linked' \in SUBSET Controllers /\ untold' = linked'
    /\ \/ service = "bare" /\ service' = "adapter" /\ Tells(<<Told("added")>>)
       \/ service = "off" /\ service' = "bare" /\ linked' = {} /\ Tells(<<Told("appeared")>>)
       \/ /\ service = "off" /\ service' = "adapter"
          /\ \E s \in Orders("added", "appeared") : Tells(s)
    /\ UNCHANGED missed /\ UNCHANGED appletRest

ConnectionsNext ==
    \/ EnumerateLater \/ LoadLock \/ UnloadLock \/ DeviceCreated \/ Goes \/ Comes
    \/ \E b \in BOOLEAN : ConnectedChanges(b) \/ AdapterEvent(b) \/ ManagerState(b)
    \/ \E d \in Controllers : BatteryUpdate(d) \/ Links(d) \/ ComesLinked(d) \/ Unlinks(d)

ConnectionsTypeOK ==
    /\ untold \subseteq linked /\ linked \cup missed \cup _connections \cup items \cup bubbles \subseteq Controllers
    /\ {manager_state, objects, active, initialized, source, suspended, failed} \subseteq BOOLEAN
    /\ service \in {"off", "bare", "adapter"} /\ Len(told) <= MaxTold
    /\ wake_lock \in -1 .. MaxLock

\* What a plugin takes for the devices that are connected
Shows(C) == linked \ untold \subseteq C /\ C \subseteq linked

(* Once everything that BlueZ tells is handled, the icon, the tool tip, the menu and the
   bubbles show no device that is not connected, and each that is but for those that were
   when their objects came, of which the plugins are not told, though each plugin keeps a
   record of its own (ShowConnected, DisconnectItems, ConnectionNotifier). *)
ConnectionsShown ==
    told = <<>> /\ ~source =>
        /\ Shows(_connections) /\ Shows(items)
        /\ active <=> _connections # {}
        /\ bubbles \subseteq linked \cup missed

(* The screensaver is only kept suspended for the sake of a connected controller, unless
   the command to resume it failed or a controller went with its adapter or with BlueZ,
   which tell nothing of it (GameControllerWakelock). *)
ScreensaverReleased == told = <<>> /\ suspended => linked # {} \/ failed \/ missed # {}
===============================================================================
