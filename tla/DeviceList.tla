------------------------------ MODULE DeviceList ------------------------------
(***************************************************************************)
(* The device list of blueman-manager: gui/DeviceList.py over the object   *)
(* manager of BlueZ (bluez/Manager.py), with the rows and their fading of  *)
(* gui/manager/ManagerDeviceList.py and gui/GtkAnimation.py, and the       *)
(* populating by main/Manager.py when the adapter changes.                 *)
(*                                                                         *)
(* A device that goes away keeps its row for 400 ms, while the row fades.  *)
(* The timer of the fade runs on when the row is gone, and what it does at *)
(* its end is told by the path of the device, not by the row: everything   *)
(* that can happen to a path in those 400 ms is an interleaving here.      *)
(* An exception in a handler ends the handler where it is raised; GLib     *)
(* prints it and the program goes on.                                      *)
(***************************************************************************)
EXTENDS Naturals, FiniteSets

CONSTANTS
    Adapters,        \* the adapters there can be
    Devices,         \* the devices there can be
    AdapterOf,       \* the adapter whose object a device's object lies below
    NoAdapter,       \* None
    Keyboards,       \* the devices whose class keeps them from being hidden
    Audio,           \* the devices that are audio devices from the start: they are not polled
    RowsPerDevice    \* bound: rows of one device, listed or still fading

ASSUME DeviceListAssumption ==
    /\ AdapterOf \in [Devices -> Adapters]
    /\ NoAdapter \notin Adapters
    /\ RowsPerDevice \in Nat \ {0}
    /\ Keyboards \subseteq Devices /\ Audio \subseteq Devices

VARIABLES
    adapters,       \* the adapters BlueZ exports
    objects,        \* the devices BlueZ exports
    connected,      \* those of them that are connected
    Adapter,        \* the adapter whose devices are listed
    adapter_path,   \* __adapter_path: the last one there was
    rows,           \* the rows of the list store, and those whose fade goes on without them
    path_to_row,    \* from a device to the number of its row, 0 for none
    timers,         \* the rows whose power levels are polled each second
    monitored,      \* _monitored_devices
    hide_unnamed,   \* the setting: rows without a name are filtered out
    unpolled,       \* history: devices counted as monitored whose last timer has raised
    overtaken       \* history: devices last added while the fade of an earlier row was running,
                    \* and those whose rows a failing clear() has made fade

listVars == <<adapters, objects, connected, Adapter, adapter_path, rows, path_to_row,
              timers, monitored, hide_unnamed, unpolled, overtaken>>

(***************************************************************************)
(* Rows.  "new": added a moment ago, and painted over; "in": it is visible, *)
(* or about to be; "out": it fades, for 400 ms; "stuck": it is painted      *)
(* over, and a fade from nothing to nothing never ends; "frozen": its fade  *)
(* has ended without deleting it, and a frozen fader paints nothing over    *)
(* the row.  no_name: without a name, and the setting may hide it.          *)
(***************************************************************************)
Row == [dev : Devices, k : 1 .. RowsPerDevice, no_name : BOOLEAN,
        level : {"new", "in", "out", "stuck", "frozen"}, listed : BOOLEAN]

Listed(R) == {r \in R : r.listed}

\* filter_func
Hidden(r) == r.no_name /\ hide_unnamed

\* find_device_by_path
Find(R, ptr, d) == {r \in Listed(R) : r.dev = d /\ r.k = ptr[d]}

\* The fade-out a removal starts; on a row that is still invisible it never ends.
Fading(r) == [r EXCEPT !.level = IF r.level \in {"in", "out"} THEN "out" ELSE "stuck"]

\* ManagerDeviceList.device_remove_event for the devices D: a hidden row stays as it is.
Fade(R, ptr, D) ==
    LET found == {r \in UNION {Find(R, ptr, d) : d \in D} : ~Hidden(r)}
    IN  (R \ found) \cup {Fading(r) : r \in found}

\* A row whose fade goes on when it has left the list; whether it has a name is all the same.
Unlisted(r) == [r EXCEPT !.listed = FALSE, !.no_name = FALSE]

\* A row that leaves the list is forgotten, unless its fade is running.
Unlist(R, gone) == (R \ gone) \cup {Unlisted(r) : r \in {q \in gone : q.level = "out"}}

\* The assertion of device_remove_event holds for every row that clear() comes to.
Cached == \A r \in Listed(rows) : Find(rows, path_to_row, r.dev) # {}

\* clear(), when nothing is raised.
Cleared == LET faded == Fade(rows, path_to_row, Devices) IN Unlist(faded, Listed(faded))
NoRows == [d \in Devices |-> 0]

\* add_device for the devices D, of which those in H have no name.
Fresh(R, d) == {k \in 1 .. RowsPerDevice : <<d, k>> \notin timers \cup {<<r.dev, r.k>> : r \in R}}
FreshNumber(R, d) == CHOOSE k \in Fresh(R, d) : TRUE
NewRow(R, d, no_name) ==
    [dev |-> d, k |-> FreshNumber(R, d), no_name |-> no_name,
     level |-> IF no_name /\ hide_unnamed THEN "in" ELSE "new", listed |-> TRUE]
AddDevices(R, ptr, D, H) ==
    /\ \A d \in D : Fresh(R, d) # {}
    /\ rows' = R \cup {NewRow(R, d, d \in H) : d \in D}
    /\ path_to_row' = [d \in Devices |-> IF d \in D THEN FreshNumber(R, d) ELSE ptr[d]]
    /\ overtaken' = (overtaken \ D) \cup {d \in D : \E r \in R : r.dev = d /\ r.level = "out"}

(***************************************************************************)
(* Power levels.  Whether a device is excluded from polling depends on its  *)
(* UUIDs, which may become those of an audio device at any time: it is      *)
(* chosen each time it is asked.                                           *)
(***************************************************************************)
\* _monitor_power_levels, for rows being set up or becoming connected
Monitor(D, k) ==
    \E S \in SUBSET (D \ (monitored \cup Audio)) :
        /\ timers' = timers \cup {<<d, k[d]>> : d \in S}
        /\ monitored' = monitored \cup S

(***************************************************************************)
(* set_adapter, with Manager.on_adapter_changed for its signal.            *)
(***************************************************************************)
\* The rows clear() came to before the one whose assertion fails begin to fade.
ClearRaises ==
    /\ ~Cached
    /\ \E D \in SUBSET {r.dev : r \in Listed(rows)} :
        rows' = Fade(rows, path_to_row, D) /\ overtaken' = overtaken \cup D
    /\ UNCHANGED <<Adapter, adapter_path, path_to_row, timers, monitored>>

\* Mutant: the devices of all adapters are added.
PopulateAll(a, present) ==
    \E H \in SUBSET (present \ Keyboards) :
        /\ AddDevices(Cleared, NoRows, present, H)
        /\ Monitor(present \cap connected, path_to_row')

\* populate_devices: BlueZ's devices are added to the list, those of other adapters skipped.
Populate(a, present) ==
    LET D == {d \in present : AdapterOf[d] = a}
    IN  \E H \in SUBSET (D \ Keyboards) :
            /\ AddDevices(Cleared, NoRows, D, H)
            /\ Monitor(D \cap connected, path_to_row')

\* The adapter to show is the one asked for if it is there, else any, else none is found.
set_adapter(asked, there, present) ==
    IF ~Cached THEN ClearRaises ELSE
    /\ \/ /\ there = {}
          /\ Adapter' = NoAdapter
          /\ rows' = Cleared /\ path_to_row' = NoRows
          /\ UNCHANGED <<adapter_path, timers, monitored, overtaken>>
       \/ \E a \in IF asked \in there THEN {asked} ELSE there :
            /\ Adapter' = a /\ adapter_path' = a
            /\ IF a # adapter_path
               THEN Populate(a, present)
               ELSE /\ rows' = Cleared /\ path_to_row' = NoRows
                    /\ UNCHANGED <<timers, monitored, overtaken>>

(***************************************************************************)
(* The signals of BlueZ's object manager.                                  *)
(***************************************************************************)
\* What the signals do not touch.
Kept == UNCHANGED <<hide_unnamed, unpolled>>

AdapterAdded(a) ==
    /\ a \notin adapters /\ \A d \in objects : AdapterOf[d] # a
    /\ adapters' = adapters \cup {a}
    /\ IF Adapter = NoAdapter
       THEN set_adapter(a, adapters', objects)
       ELSE UNCHANGED <<Adapter, adapter_path, rows, path_to_row, timers,
                        monitored, overtaken>>
    /\ Kept /\ UNCHANGED <<objects, connected>>

\* Mutant: the window keeps the adapter.
AdapterKept(a) ==
    /\ a \in adapters
    /\ adapters' = adapters \ {a}
    /\ Kept /\ UNCHANGED <<objects, connected, Adapter, adapter_path, rows, path_to_row, timers, monitored, overtaken>>

\* A removal of the adapter that was the last one shown clears the list; if clear()
\* raises, the removed adapter remains the one that is shown.
AdapterRemoved(a) ==
    /\ a \in adapters
    /\ adapters' = adapters \ {a}
    /\ IF a = adapter_path
       THEN set_adapter(NoAdapter, adapters', objects)
       ELSE UNCHANGED <<Adapter, adapter_path, rows, path_to_row, timers,
                        monitored, overtaken>>
    /\ Kept /\ UNCHANGED <<objects, connected>>

DeviceCreated(d, no_name) ==
    /\ d \notin objects /\ AdapterOf[d] \in adapters /\ (no_name => d \notin Keyboards)
    /\ objects' = objects \cup {d}
    /\ IF Adapter # AdapterOf[d]
       THEN UNCHANGED <<rows, path_to_row, overtaken>>
       ELSE AddDevices(rows, path_to_row, {d}, IF no_name THEN {d} ELSE {})
    /\ Kept /\ UNCHANGED <<adapters, connected, Adapter, adapter_path, timers, monitored>>

\* A device that is not found fails the assertion, and that is all.
DeviceRemoved(d) ==
    /\ d \in objects
    /\ objects' = objects \ {d} /\ connected' = connected \ {d}
    /\ rows' = Fade(rows, path_to_row, {d})
    /\ Kept /\ UNCHANGED <<adapters, Adapter, adapter_path, path_to_row, timers,
                   monitored, overtaken>>

(***************************************************************************)
(* Properties of a device: row_update_event.                               *)
(***************************************************************************)
\* "Name": the row is shown from now on.
Named(d) ==
    /\ d \in objects
    /\ \E r \in Find(rows, path_to_row, d) :
        /\ r.no_name
        /\ rows' = (rows \ {r}) \cup {[r EXCEPT !.no_name = FALSE]}
    /\ Kept /\ UNCHANGED <<adapters, objects, connected, Adapter, adapter_path, path_to_row, timers, monitored, overtaken>>

Connects(d) ==
    /\ d \in objects \ connected
    /\ connected' = connected \cup {d}
    /\ Monitor(IF Find(rows, path_to_row, d) = {} THEN {} ELSE {d}, path_to_row)
    /\ Kept /\ UNCHANGED <<adapters, objects, Adapter, adapter_path, rows, path_to_row, overtaken>>

Disconnects(d) ==
    /\ d \in connected
    /\ connected' = connected \ {d}
    /\ Kept /\ UNCHANGED <<adapters, objects, Adapter, adapter_path, rows, path_to_row, timers, monitored, overtaken>>

\* "UUIDs": the device turns out to be an audio device, and is not polled any more.
Excluded(d) ==
    /\ d \in connected \cap monitored
    /\ Find(rows, path_to_row, d) # {}
    /\ monitored' = monitored \ {d} /\ unpolled' = unpolled \ {d}
    /\ UNCHANGED <<adapters, objects, connected, Adapter, adapter_path, rows, path_to_row,
                   timers, hide_unnamed, overtaken>>

\* Mutant: the device is not discarded.
CheckForgets(t) ==
    /\ t \in timers
    /\ timers' = timers \ {t}
    /\ Kept /\ UNCHANGED <<adapters, objects, connected, Adapter, adapter_path, rows, path_to_row,
                           monitored, overtaken>>

\* _check_power_levels: the timer ends if its row is gone, if its device is not among
\* the monitored or not connected any more, or has become an audio device, which may be
\* so at any tick.  (Two timers that poll one row are one here.)
CheckEnds(t) ==
    /\ t \in timers
    /\ timers' = timers \ {t}
    /\ monitored' = monitored \ {t[1]} /\ unpolled' = unpolled \ {t[1]}
    /\ UNCHANGED <<adapters, objects, connected, Adapter, adapter_path, rows, path_to_row,
                   hide_unnamed, overtaken>>

\* A property or a battery cannot be read, or a picture not be loaded: what the poll raises
\* removes the timer, and the device stays among the monitored.
CheckRaises(t) ==
    /\ t \in timers /\ t[1] \in monitored
    /\ timers' = timers \ {t}
    /\ unpolled' = unpolled \cup {d \in monitored : d = t[1] /\ \A o \in timers' : o[1] # d}
    /\ UNCHANGED <<adapters, objects, connected, Adapter, adapter_path, rows, path_to_row,
                   monitored, hide_unnamed, overtaken>>

(***************************************************************************)
(* Fading.                                                                 *)
(***************************************************************************)
\* The first step of the fade of a new row.
FadeIn(r) ==
    /\ r \in rows /\ r.level = "new"
    /\ rows' = (rows \ {r}) \cup {[r EXCEPT !.level = "in"]}
    /\ Kept /\ UNCHANGED <<adapters, objects, connected, Adapter, adapter_path, path_to_row, timers, monitored, overtaken>>

\* A fade ends: the fader is frozen, and DeviceList.device_remove_event deletes the row the
\* path has now.
__fader_finished(r) ==
    /\ r \in rows /\ r.level = "out"
    /\ LET found == Find(rows, path_to_row, r.dev)
           left  == Unlist(rows, found) \ {r, Unlisted(r)}
       IN  /\ rows' = IF r \in found \/ ~r.listed THEN left
                      ELSE left \cup {[r EXCEPT !.level = "frozen"]}
           /\ path_to_row' = IF found = {} THEN path_to_row ELSE [path_to_row EXCEPT ![r.dev] = 0]
    /\ Kept /\ UNCHANGED <<adapters, objects, connected, Adapter, adapter_path, timers,
                           monitored, overtaken>>

(***************************************************************************)
(* The window.                                                             *)
(***************************************************************************)
\* The user selects another adapter in the menu (ManagerMenu.on_adapter_selected).
on_adapter_selected(a) ==
    /\ a \in adapters /\ Adapter \notin {NoAdapter, a}
    /\ set_adapter(a, adapters, objects)
    /\ Kept /\ UNCHANGED <<adapters, objects, connected>>

\* The user switches the setting, and the list is filtered again.
HideUnnamedSwitched ==
    /\ hide_unnamed' = ~hide_unnamed
    /\ UNCHANGED <<adapters, objects, connected, Adapter, adapter_path, rows, path_to_row,
                   timers, monitored, unpolled, overtaken>>

\* The window is opened while BlueZ has no adapter.
Init ==
    /\ adapters = {} /\ objects = {} /\ connected = {}
    /\ Adapter = NoAdapter /\ adapter_path = NoAdapter
    /\ rows = {} /\ path_to_row = NoRows
    /\ timers = {} /\ monitored = {} /\ unpolled = {} /\ overtaken = {}
    /\ hide_unnamed \in BOOLEAN

Next ==
    \/ \E a \in Adapters : AdapterAdded(a) \/ AdapterRemoved(a) \/ on_adapter_selected(a)
    \/ HideUnnamedSwitched
    \/ \E d \in Devices, no_name \in BOOLEAN : DeviceCreated(d, no_name)
    \/ \E d \in Devices : DeviceRemoved(d) \/ Named(d) \/ Connects(d) \/ Disconnects(d) \/ Excluded(d)
    \/ \E t \in timers : CheckEnds(t) \/ CheckRaises(t)
    \/ \E r \in rows : FadeIn(r) \/ __fader_finished(r)

Spec == Init /\ [][Next]_listVars

-------------------------------------------------------------------------------
(* The types of the variables. *)
TypeOK ==
    /\ adapters \subseteq Adapters /\ objects \subseteq Devices /\ connected \subseteq objects
    /\ {Adapter, adapter_path} \subseteq Adapters \cup {NoAdapter}
    /\ rows \subseteq Row
    /\ path_to_row \in [Devices -> 0 .. RowsPerDevice]
    /\ timers \subseteq Devices \X (1 .. RowsPerDevice)
    /\ monitored \subseteq Devices /\ unpolled \subseteq monitored /\ overtaken \subseteq Devices
    /\ hide_unnamed \in BOOLEAN

(* The window shows an adapter that BlueZ has, and none only if BlueZ has none, unless a
   row the cache has lost made clear() fail (DeviceList.__on_manager_signal). *)
AdapterFollowsBluez ==
    /\ Adapter = NoAdapter => adapters = {}
    /\ Adapter # NoAdapter => Adapter \in adapters \/ ~Cached

(* The rows are of devices of the adapter shown; each of its devices has one, unless the
   fade of an earlier row of it was running when it was added, or a clear() that failed has
   made its row fade.  A row of a device BlueZ has no more fades or is painted over, but for
   two that may be seen for ever: one whose fade had ended when the cache knew a later row,
   and one without a name, which may have been hidden when its device went.  Removals,
   fades, the setting and failing assertions of clear() come in any order
   (DeviceList.add_device, clear, set_adapter, device_remove_event, filter_func). *)
ListMirrorsBluez ==
    /\ TypeOK
    /\ \A d \in objects :
        AdapterOf[d] = Adapter => d \in overtaken \/ Find(rows, path_to_row, d) # {}
    /\ \A r \in Listed(rows) :
        /\ AdapterOf[r.dev] = Adapter
        /\ r.dev \in objects \/ r.level \in {"out", "stuck", "frozen"} \/ r.no_name

(* A device counted as monitored has a timer that polls it, unless the poll of the last one has
   raised: otherwise it would never be monitored again (ManagerDeviceList._monitor_power_levels,
   _check_power_levels). *)
MonitoredHasTimer == \A d \in monitored \ unpolled : \E t \in timers : t[1] = d
===============================================================================
