----------------------------- MODULE KillSwitch -----------------------------
(***************************************************************************)
(* The KillSwitch plugin (plugins/applet/KillSwitch.py): it reads the      *)
(* events of /dev/rfkill into _switches, answers PowerManager's questions  *)
(* about the power state, has the switches moved, and keeps the tray icon  *)
(* (module StatusIcon) while Bluetooth is soft-blocked.                    *)
(*                                                                         *)
(* The kernel queues an event for every change on the open channel, and    *)
(* one for every switch when the channel is opened.  The device may be     *)
(* inaccessible; each time it changes the plugin opens it again.           *)
(***************************************************************************)
EXTENDS StatusIcon, Sequences, FiniteSets, Functions

CONSTANTS
    Idx,        \* Bluetooth switches the kernel may have
    Absent,
    MaxEvents   \* bound: events to read when a switch moves

ASSUME KillSwitchAssumption ==
    /\ IsFiniteSet(Idx) /\ MaxEvents \in Nat \ {0}
    /\ Absent \notin [soft : BOOLEAN, hard : BOOLEAN]

VARIABLES
    kernel,     \* the switches
    access,     \* /dev/rfkill exists and can be opened
    events,     \* on the channel, not read yet
    plugin,     \* loaded; open: the channel is watched; _enabled and
                \* _hardblocked
    known,      \* _switches, of the class: it survives the plugin
    calls,      \* SetRfkillState calls on their way
    told,       \* what update_power_state has last heard from the plugin
    adapters    \* the manager has an adapter

killSwitchVars == <<iconVars, kernel, access, events, plugin, known, calls, told,
          adapters>>

Blocks == [soft : BOOLEAN, hard : BOOLEAN]
Blocked(b) == b.soft \/ b.hard
Listed(switches) == {i \in Idx : switches[i] # Absent}

-----------------------------------------------------------------------------
(* What other plugins ask *)

\* on_query_force_status_icon_visibility: soft-blocked only
Forces(p) == p.loaded /\ ~p.hardblocked /\ ~p.enabled
Keeps(p, ad) == ad \/ Forces(p)

\* on_power_state_query
Answer(p) == IF p.hardblocked THEN "OFF_FORCED"
             ELSE IF p.enabled THEN "ON" ELSE "OFF"

-----------------------------------------------------------------------------
(* The kernel and the rest of the system *)

Emit(evs) ==
    events' = IF plugin.open THEN events \o evs ELSE events

\* One event for each switch of a set, in any order.
EventsOf(is, switches) ==
    {[n \in 1..Cardinality(is) |-> [idx |-> order[n], to |-> switches[order[n]]]] :
        order \in Bijection(1..Cardinality(is), is)}

\* A switch is added, moved, or removed.
SwitchMoves(i, to) ==
    /\ kernel[i] # to /\ Len(events) < MaxEvents
    /\ kernel' = [kernel EXCEPT ![i] = to]
    /\ Emit(<<[idx |-> i, to |-> to]>>)
    /\ UNCHANGED <<iconVars, access, plugin, known, calls, told, adapters>>

\* The mechanism, or ConnMan, moves every soft switch.
SetRfkillState(state) ==
    LET moved == [i \in Idx |-> IF kernel[i] = Absent THEN Absent
                                ELSE [kernel[i] EXCEPT !.soft = ~state]]
    IN
    /\ state \in calls /\ Len(events) < MaxEvents
    /\ calls' = calls \ {state}
    /\ kernel' = moved
    /\ \E evs \in EventsOf({i \in Idx : moved[i] # kernel[i]}, moved) : Emit(evs)
    /\ UNCHANGED <<iconVars, access, plugin, known, told, adapters>>

\* StatusIcon.on_adapter_added and on_adapter_removed
AdaptersChange ==
    /\ adapters' = ~adapters
    /\ QueryIfShown(Keeps(plugin, adapters'), FALSE)
    /\ UNCHANGED <<kernel, access, events, plugin, known, calls, told>>

\* update_power_state on PowerManager's own account; a new state queries the
\* icon, and icon_should_change queries it at any time.
PowerManagerUpdates ==
    /\ plugin.loaded /\ told' = Answer(plugin)
    /\ \/ UNCHANGED iconVars
       \/ \E delay \in BOOLEAN : QueryIfShown(Keeps(plugin, adapters), delay)
    /\ UNCHANGED <<kernel, access, events, plugin, known, calls, adapters>>

-----------------------------------------------------------------------------
(* The plugin *)

Replay == EventsOf(Listed(kernel), kernel)

\* __on_file_changed: the old channel goes, with what is unread on it.  When
\* opening fails nobody is told of the new answers.
Reopen(p) ==
    IF access'
    THEN /\ plugin' = [p EXCEPT !.open = TRUE]
         /\ events' \in Replay
    ELSE /\ plugin' = [p EXCEPT !.open = FALSE, !.enabled = FALSE,
                                !.hardblocked = FALSE]
         /\ events' = <<>>

FileChanges ==
    /\ plugin.loaded
    /\ access' \in BOOLEAN
    /\ Reopen(plugin)
    /\ UNCHANGED <<iconVars, kernel, known, calls, told, adapters>>

OnLoad ==
    /\ ~plugin.loaded
    /\ access' \in BOOLEAN
    /\ Reopen([loaded |-> TRUE, open |-> FALSE, enabled |-> TRUE,
               hardblocked |-> FALSE])
    /\ UNCHANGED <<iconVars, kernel, known, calls, told, adapters>>

OnUnload ==
    /\ plugin.loaded
    /\ plugin' = [plugin EXCEPT !.loaded = FALSE, !.open = FALSE]
    /\ events' = <<>>
    /\ UNCHANGED <<iconVars, kernel, access, known, calls, told, adapters>>

\* The table after an ADD or CHANGE, or a DEL.
Registered(e) == [known EXCEPT ![e.idx] = e.to]

Computed(switches) ==
    [plugin EXCEPT
        !.enabled = \A i \in Listed(switches) : ~Blocked(switches[i]),
        !.hardblocked = \E i \in Listed(switches) : switches[i].hard]

\* Mutant: PowerManager is told before the new state is stored.
ToldBefore(p) == told' = Answer(plugin)
Tell(p) == told' = Answer(p)

\* io_event
IoEvent ==
    /\ plugin.open /\ events # <<>>
    /\ events' = Tail(events)
    /\ known' = Registered(Head(events))
    /\ plugin' = Computed(known')
    /\ QueryIfShown(Keeps(plugin', adapters), ~plugin'.hardblocked)
    /\ Tell(plugin')
    /\ UNCHANGED <<kernel, access, calls, adapters>>

OnPowerStateChangeRequested(state) ==
    /\ plugin.loaded
    /\ calls' = calls \cup {state}
    /\ UNCHANGED <<iconVars, kernel, access, events, plugin, known, told,
                   adapters>>

IconTimeout ==
    /\ OnVisibilityTimeout(Keeps(plugin, adapters))
    /\ UNCHANGED <<kernel, access, events, plugin, known, calls, told,
                   adapters>>

IconLoads ==
    /\ LoadIcon(Keeps(plugin, adapters))
    /\ UNCHANGED <<kernel, access, events, plugin, known, calls, told,
                   adapters>>

IconUnloads ==
    /\ UnloadIcon
    /\ UNCHANGED <<kernel, access, events, plugin, known, calls, told,
                   adapters>>

KillSwitchInit ==
    /\ IconInit
    /\ kernel \in [Idx -> {Absent, [soft |-> FALSE, hard |-> FALSE]}]
    /\ access = FALSE /\ events = <<>>
    /\ plugin = [loaded |-> FALSE, open |-> FALSE, enabled |-> TRUE,
                 hardblocked |-> FALSE]
    /\ known = [i \in Idx |-> Absent]
    /\ calls = {} /\ told = "ON" /\ adapters = FALSE

KillSwitchNext ==
    \/ \E i \in Idx, to \in Blocks \cup {Absent} : SwitchMoves(i, to)
    \/ \E state \in BOOLEAN : \/ SetRfkillState(state)
                              \/ OnPowerStateChangeRequested(state)
    \/ AdaptersChange \/ PowerManagerUpdates
    \/ FileChanges \/ OnLoad \/ OnUnload \/ IoEvent
    \/ IconTimeout \/ IconLoads \/ IconUnloads

KillSwitchSpec == KillSwitchInit /\ [][KillSwitchNext]_killSwitchVars

\* The main loop dispatches a readable channel and an elapsed timer.
FairSpec == KillSwitchSpec /\ WF_killSwitchVars(IoEvent) /\ WF_killSwitchVars(IconTimeout)

-----------------------------------------------------------------------------
KillSwitchTypeOK ==
    /\ kernel \in [Idx -> Blocks \cup {Absent}]
    /\ known \in [Idx -> Blocks \cup {Absent}]
    /\ plugin \in [loaded : BOOLEAN, open : BOOLEAN, enabled : BOOLEAN,
                   hardblocked : BOOLEAN]
    /\ events \in Seq([idx : Idx, to : Blocks \cup {Absent}])
    /\ plugin.open => plugin.loaded
    /\ ~plugin.open => events = <<>>
    /\ calls \subseteq BOOLEAN
    /\ visible \in BOOLEAN /\ shown \in BOOLEAN /\ timeout \in BOOLEAN
    /\ sources \in Nat /\ OneTimer

\* The plugin has read everything the kernel has to say, and that is not
\* nothing.
CaughtUp == plugin.open /\ events = <<>> /\ Listed(kernel) # {}

\* What the kernel has, _switches has, however often the device was lost and
\* opened again and the plugin loaded; so a switch that is removed is known
\* there, and io_event does not die of a KeyError.
SwitchesAreKnown ==
    /\ CaughtUp => \A i \in Listed(kernel) : known[i] = kernel[i]
    /\ events # <<>> /\ Head(events).to = Absent
       => known[Head(events).idx] # Absent

\* PowerManager has computed its state from what the plugin says now, and that
\* is never ON while a switch is blocked.
ToldIsCurrent ==
    CaughtUp => /\ told = Answer(plugin)
                /\ (\E i \in Listed(kernel) : Blocked(kernel[i])) => told # "ON"

\* "Force status icon to show if Bluetooth is soft-blocked": it is on the
\* screen although no adapter is left, also while an earlier question waits to
\* hide it.
SoftBlockShows ==
    /\ CaughtUp /\ shown /\ ~plugin.hardblocked
    /\ \E i \in Listed(kernel) : kernel[i].soft
    => visible

\* Without an adapter and without a soft block the icon does not stay.
IconSettles ==
    <>[](CaughtUp /\ shown /\ ~Keeps(plugin, adapters)) => <>[]~visible

\* However often the device is lost, reopened and reloaded, the plugin, what it
\* told the PowerManager and the icon agree with the kernel when it has caught
\* up, and one icon timer at most is running.
KernelIsMirrored ==
    KillSwitchTypeOK /\ SwitchesAreKnown /\ ToldIsCurrent /\ SoftBlockShows
=============================================================================
