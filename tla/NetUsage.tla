------------------------------- MODULE NetUsage -------------------------------
(***************************************************************************)
(* The plugin NetUsage of blueman-applet: a monitor per network interface  *)
(* of a device adds, every five seconds, what the kernel's counters have   *)
(* grown by to the device's usage; a dialog shows the devices.  A monitor  *)
(* learns that its interface is gone when it next looks, and the kernel    *)
(* may have given the name to another connection by then.                  *)
(***************************************************************************)
EXTENDS Sequences, Integers, SequencesExt

CONSTANTS
    Peers,          \* devices with a network
    Names,          \* names of interfaces
    MaxBytes,       \* bound: the traffic of all the devices together
    MaxMonitors,    \* bound: monitors, with those that BlueZ has told the plugin to make
    Nobody          \* no device, and no interface

ASSUME NetUsageAssumption ==
    MaxBytes \in Nat /\ MaxMonitors \in Nat \ {0} /\ Nobody \notin Peers \cup Names

VARIABLES
    owner,          \* whose interface a name is, or Nobody's
    bytes,          \* its counter in the kernel
    interfaces,     \* the Interface properties that the plugin has not handled: [dev, name]
    monitors,       \* NetUsage.monitors: [dev, name, last]
    usage,          \* the configuration: the bytes that a device is said to have moved
    listed,         \* netusage-dev-list
    rows,           \* the dialog: a device is shown with an interface or as "Not Connected"
    active_dialog,  \* the dialog is open
    loaded,
    moved,          \* history: the bytes that a device has moved, since its usage was reset
    overlap         \* history: a device or a name was connected while a monitor of it was left

usageVars == <<owner, bytes, interfaces, monitors, usage, listed, rows, active_dialog, loaded, moved, overlap>>

UsageInit ==
    /\ owner = [n \in Names |-> Nobody] /\ bytes = [n \in Names |-> 0]
    /\ interfaces = <<>> /\ monitors = <<>>
    /\ usage = [d \in Peers |-> 0] /\ moved = usage /\ listed = {}
    /\ rows = [d \in {} |-> Nobody] /\ active_dialog = FALSE /\ loaded = TRUE /\ overlap = FALSE

Row(d, n) == [e \in {d} |-> n]
With(r, f) == [e \in DOMAIN r \cup DOMAIN f |-> IF e \in DOMAIN f THEN f[e] ELSE r[e]]
Elements(s) == {s[i] : i \in DOMAIN s}

\* monitor_interface, with Dialog.monitor_added: for a PPP connection at once, for a
\* network of BlueZ when the Interface property is heard
MonitorInterface(d, n) ==
    /\ monitors' = Append(monitors, [dev |-> d, name |-> n, last |-> 0])
    /\ rows' = IF active_dialog THEN With(rows, Row(d, n)) ELSE rows

OnInterface ==
    /\ interfaces # <<>> /\ interfaces' = Tail(interfaces)
    /\ IF loaded THEN MonitorInterface(Head(interfaces).dev, Head(interfaces).name)
       ELSE UNCHANGED <<monitors, rows>>
    /\ UNCHANGED <<owner, bytes, usage, listed, active_dialog, loaded, moved, overlap>>

\* Mutant: the whole counter is added.
GrownFromZero(m) == bytes[m.name]

\* update_stats: a counter that is less than it was has been reset.
Grown(m) == IF bytes[m.name] > m.last THEN bytes[m.name] - m.last ELSE 0

\* Dialog.monitor_removed
RowRemoved(d) == rows' = IF d \in DOMAIN rows THEN With(rows, Row(d, Nobody)) ELSE rows

\* poll_stats
Poll(i) ==
    /\ i \in DOMAIN monitors
    /\ LET m == monitors[i]
       IN  \/ /\ owner[m.name] # Nobody
              /\ monitors' = [monitors EXCEPT ![i].last = bytes[m.name]]
              /\ usage' = [usage EXCEPT ![m.dev] = @ + Grown(m)]
              /\ listed' = listed \cup {m.dev}
              /\ UNCHANGED rows
           \/ \* on_monitor_disconnected, Dialog.monitor_removed
              /\ owner[m.name] = Nobody
              /\ monitors' = RemoveAt(monitors, i)
              /\ RowRemoved(m.dev)
              /\ UNCHANGED <<usage, listed>>
    /\ UNCHANGED <<owner, bytes, interfaces, active_dialog, loaded, moved, overlap>>

\* Dialog.__init__: of several monitors of a device the first is shown.
Shown(d) ==
    LET its == {i \in DOMAIN monitors : monitors[i].dev = d}
    IN  IF its = {} THEN Nobody ELSE monitors[Min(its)].name

activate_ui ==
    /\ loaded /\ ~active_dialog /\ listed # {}
    /\ active_dialog' = TRUE /\ rows' = [d \in listed |-> Shown(d)]
    /\ UNCHANGED <<owner, bytes, interfaces, monitors, usage, listed, loaded, moved, overlap>>

Closed == active_dialog' = FALSE /\ rows' = [d \in {} |-> Nobody]

on_response ==
    /\ active_dialog /\ Closed
    /\ UNCHANGED <<owner, bytes, interfaces, monitors, usage, listed, loaded, moved, overlap>>

\* on_reset, for the selected device
on_reset(d) ==
    /\ active_dialog /\ d \in DOMAIN rows
    /\ usage' = [usage EXCEPT ![d] = 0]
    /\ moved' = [moved EXCEPT ![d] = IF @ > usage[d] THEN @ - usage[d] ELSE 0]
    /\ UNCHANGED <<owner, bytes, interfaces, monitors, listed, rows, active_dialog, loaded, overlap>>

\* on_unload, on_load
Load(on) ==
    /\ loaded # on /\ loaded' = on
    /\ monitors' = <<>> /\ Closed
    /\ UNCHANGED <<owner, bytes, interfaces, usage, listed, moved, overlap>>

(***************************************************************************)
(* The kernel and BlueZ.                                                   *)
(***************************************************************************)
Opens(n, d) ==
    /\ owner[n] = Nobody /\ Len(monitors) + Len(interfaces) < MaxMonitors
    /\ owner' = [owner EXCEPT ![n] = d] /\ bytes' = [bytes EXCEPT ![n] = 0]
    /\ overlap' = (overlap \/ \E m \in Elements(monitors \o interfaces) : m.dev = d \/ m.name = n)
    /\ \/ /\ interfaces' = Append(interfaces, [dev |-> d, name |-> n])
          /\ UNCHANGED <<monitors, rows>>
       \/ \* PPPSupport has connected: on_ppp_connected
          /\ loaded /\ MonitorInterface(d, n)
          /\ UNCHANGED interfaces
    /\ UNCHANGED <<usage, listed, active_dialog, loaded, moved>>

Closes(n) ==
    /\ owner[n] # Nobody /\ owner' = [owner EXCEPT ![n] = Nobody]
    /\ UNCHANGED <<bytes, interfaces, monitors, usage, listed, rows, active_dialog, loaded, moved, overlap>>

Moves(n) ==
    /\ owner[n] # Nobody
    /\ bytes[n] < MaxBytes /\ \A d \in Peers : moved[d] < MaxBytes /\ usage[d] < MaxBytes
    /\ bytes' = [bytes EXCEPT ![n] = @ + 1]
    /\ moved' = [moved EXCEPT ![owner[n]] = @ + 1]
    /\ UNCHANGED <<owner, interfaces, monitors, usage, listed, rows, active_dialog, loaded, overlap>>

UsageNext ==
    \/ OnInterface \/ activate_ui \/ on_response
    \/ \E i \in 1 .. MaxMonitors : Poll(i)
    \/ \E d \in Peers : on_reset(d) \/ \E n \in Names : Opens(n, d)
    \/ \E n \in Names : Closes(n) \/ Moves(n)
    \/ \E on \in BOOLEAN : Load(on)

UsageTypeOK ==
    /\ owner \in [Names -> Peers \cup {Nobody}] /\ bytes \in [Names -> 0 .. MaxBytes]
    /\ Len(interfaces) + Len(monitors) <= MaxMonitors
    /\ \A m \in Elements(monitors) : m.dev \in Peers /\ m.name \in Names /\ m.last \in 0 .. MaxBytes
    /\ \A d \in Peers : usage[d] \in Nat /\ moved[d] \in 0 .. MaxBytes
    /\ listed \cup DOMAIN rows \subseteq Peers
    /\ {active_dialog, loaded, overlap} \subseteq BOOLEAN

(* "This plugin tracks every device separately": as long as a monitor has noticed that its
   interface is gone before the device or the name is connected again, no byte is added twice
   or to another device, and the dialog shows the monitors that there are (MonitorBase,
   Monitor, Dialog). *)
UsageIsOwn ==
    ~overlap =>
        /\ \A d \in Peers : usage[d] <= moved[d]
        /\ \A d \in DOMAIN rows : rows[d] = Shown(d)
===============================================================================
