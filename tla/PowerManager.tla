---------------------------- MODULE PowerManager ----------------------------
(***************************************************************************)
(* The PowerManager applet plugin (plugins/applet/PowerManager.py): the    *)
(* one place that turns all Bluetooth adapters on and off.  A change of    *)
(* power is a request: every loaded PowerStateHandler is asked to do its   *)
(* part and answers later, over D-Bus; a 5 s timer bounds the wait.  Round *)
(* about it the environment moves freely: bluetoothd changes the Powered   *)
(* property and its signals arrive late, adapters come and go, handlers    *)
(* are (un)blocked, loaded and unloaded, bluetoothd itself restarts.       *)
(*                                                                         *)
(* Everything runs on one GLib main loop, so a callback is one step.       *)
(***************************************************************************)
EXTENDS Naturals, FiniteSets, Sequences

CONSTANTS
    Adapters,    \* object paths of the adapters that may be plugged in
    Handlers,    \* plugins that implement PowerStateHandler (KillSwitch)
    Callbacks,   \* identities of the Callback objects alive at one time
    MaxSignals   \* bound: PropertiesChanged signals in flight

ASSUME PowerAssumption ==
    /\ IsFiniteSet(Handlers)
    /\ MaxSignals \in Nat

State == {"ON", "OFF", "OFF_FORCED"}

VARIABLES
    \* ---- the environment
    present,     \* adapters exported by bluetoothd's object manager
    powered,     \* the Powered property bluetoothd holds for each adapter
    setCalls,    \* Properties.Set(Powered) calls in flight, latest per adapter
    signals,     \* PropertiesChanged(Powered) signals on their way, in order
    handlers,    \* loaded handlers
    answer,      \* what each handler says to on_power_state_query
    awaiting,    \* <<handler, callback>>: the handler has still to answer
    \* ---- the applet
    manager_state, plugin_run_state_changed,
    \* ---- the plugin
    loaded, adapter_state, current_state, request_in_progress,
    sync,        \* _state_sync_source_id is a running source
    cb,          \* the Callback objects
    tracked,     \* _pending_callbacks
    item         \* the menu item: what it offers, and whether it can be used

environment == <<present, powered, signals, handlers, answer>>
applet == <<manager_state, plugin_run_state_changed>>
request == <<request_in_progress, cb, tracked, awaiting>>
derived == <<adapter_state, current_state, item>>
vars == <<environment, setCalls, applet, request, derived, loaded, sync>>

-----------------------------------------------------------------------------
(* Callback objects *)

NoCallback == [num_cb |-> 0, called |-> 0, state |-> FALSE, timer |-> FALSE]

CallbackObject ==
    [num_cb : Nat, called : Nat, state : BOOLEAN, timer : BOOLEAN]

\* Mutant: a source that is never removed.
NotStopped(o) == o

\* A callback after one more answer, and after its timer is gone.
Answered(o) == [num_cb |-> o.num_cb, called |-> o.called + 1,
                state |-> o.state, timer |-> o.timer]
Stopped(o) == [num_cb |-> o.num_cb, called |-> o.called,
               state |-> o.state, timer |-> FALSE]

\* The handlers whose answer c is waiting for.
Awaited(c, aw) == {h \in Handlers : <<h, c>> \in aw}

\* A callback lives while its timer or a handler's reply closure holds it.
Alive(f, aw, c) == f[c].timer \/ Awaited(c, aw) # {}

\* Python frees what nothing refers to any more.
Collect(f, aw) ==
    [c \in Callbacks |-> IF Alive(f, aw, c) THEN f[c] ELSE NoCallback]

-----------------------------------------------------------------------------
(* Power state *)

\* get_adapter_state: a synchronous read of every adapter's live property.
AdapterState == present # {} /\ \A a \in present : powered[a]

\* update_power_state: on only if the adapters are and no handler objects.
IsOn(ad, hs, ans) == ad /\ \A h \in hs : ans[h] = "ON"

ForcedOff(hs, ans) == \E h \in hs : ans[h] = "OFF_FORCED"

\* Mutant: the item is not redrawn when Bluetooth comes on.
ForgetItem(ad, hs, ans) ==
    /\ adapter_state' = ad
    /\ current_state' = IsOn(ad, hs, ans)
    /\ item' = IF IsOn(ad, hs, ans) THEN item
               ELSE [offers |-> "On", sensitive |-> ~ForcedOff(hs, ans)]

\* update_power_state with adapter_state = ad: the item is redrawn whenever
\* the state is off, but only on a change when it is on.
UpdatePowerState(ad, hs, ans) ==
    LET on == IsOn(ad, hs, ans)
    IN  /\ adapter_state' = ad
        /\ current_state' = on
        /\ item' = IF ~on
                   THEN [offers |-> "On", sensitive |-> ~ForcedOff(hs, ans)]
                   ELSE IF ~current_state
                        THEN [offers |-> "Off", sensitive |-> TRUE]
                        ELSE item

\* set_adapter_state: an asynchronous Properties.Set to every adapter.
SetPowered(as, state) ==
    {call \in setCalls : call[1] \notin as} \cup (as \X {state})

\* request_power_state is not a no-op.
Accepts(state, force) ==
    (current_state # state \/ force) /\ ~request_in_progress

\* Mutant: one answer is taken to be enough.
AskForOneAnswer(state) ==
    \E c \in Callbacks :
        /\ ~Alive(cb, awaiting, c)
        /\ cb' = [cb EXCEPT ![c] = [num_cb |-> 1, called |-> 0,
                                    state |-> state, timer |-> TRUE]]
        /\ tracked' = tracked \cup {c}
        /\ awaiting' = awaiting \cup (handlers \X {c})
        /\ request_in_progress' = TRUE

\* request_power_state with handlers to ask: they will answer later.
AskHandlers(state) ==
    \E c \in Callbacks :
        /\ ~Alive(cb, awaiting, c)
        /\ cb' = [cb EXCEPT ![c] = [num_cb |-> Cardinality(handlers),
                                    called |-> 0,
                                    state |-> state, timer |-> TRUE]]
        /\ tracked' = tracked \cup {c}
        /\ awaiting' = awaiting \cup (handlers \X {c})
        /\ request_in_progress' = TRUE

\* request_power_state: ignored, completed on the spot when there is no
\* handler (called = num_cb = 0), or handed to the handlers.
RequestPowerState(state, force) ==
    \/ /\ ~Accepts(state, force)
       /\ UNCHANGED <<request, derived, setCalls>>
    \/ /\ Accepts(state, force)
       /\ handlers = {}
       /\ setCalls' = SetPowered(present, state)
       /\ UpdatePowerState(state, handlers, answer)
       /\ UNCHANGED request
    \/ /\ Accepts(state, force)
       /\ handlers # {}
       /\ AskHandlers(state)
       /\ UNCHANGED <<derived, setCalls>>

-----------------------------------------------------------------------------
(* The environment *)

\* bluetoothd changes Powered for reasons of its own: the user's other tools,
\* rfkill, AutoEnable.  The signal joins the queue.
PoweredChanges(a) ==
    /\ a \in present
    /\ Len(signals) < MaxSignals
    /\ powered' = [powered EXCEPT ![a] = ~@]
    /\ signals' = Append(signals, <<a, ~powered[a]>>)
    /\ UNCHANGED <<present, handlers, answer, setCalls, applet, request,
                   derived, loaded, sync>>

\* bluetoothd handles a Properties.Set: it may fail, for instance when the
\* adapter is blocked (nobody looks at the reply).
BluezHandlesSet(call) ==
    /\ call \in setCalls
    /\ setCalls' = setCalls \ {call}
    /\ \/ UNCHANGED <<powered, signals>>
       \/ /\ call[1] \in present
          /\ powered[call[1]] # call[2]
          /\ Len(signals) < MaxSignals
          /\ powered' = [powered EXCEPT ![call[1]] = call[2]]
          /\ signals' = Append(signals, call)
    /\ UNCHANGED <<present, handlers, answer, applet, request, derived,
                   loaded, sync>>

\* on_adapter_added: a new adapter is put into the remembered state.
AdapterAdded(a) ==
    /\ a \notin present
    /\ present' = present \cup {a}
    /\ \E p \in BOOLEAN : powered' = [powered EXCEPT ![a] = p]
    /\ setCalls' = IF loaded
                   THEN {call \in setCalls : call[1] # a}
                            \cup {<<a, adapter_state>>}
                   ELSE setCalls
    /\ UNCHANGED <<signals, handlers, answer, applet, request, derived,
                   loaded, sync>>

\* An adapter goes, after its last signal has been seen.  The plugin has no
\* on_adapter_removed.
AdapterRemoved(a) ==
    /\ a \in present
    /\ \A i \in DOMAIN signals : signals[i][1] # a
    /\ present' = present \ {a}
    /\ powered' = [powered EXCEPT ![a] = FALSE]
    /\ setCalls' = {call \in setCalls : call[1] # a}
    /\ UNCHANGED <<signals, handlers, answer, applet, request, derived,
                   loaded, sync>>

-----------------------------------------------------------------------------
(* The handlers *)

\* KillSwitch.io_event: the switch moved, and update_power_state is called.
HandlerChanges(h, s) ==
    /\ h \in handlers
    /\ answer' = [answer EXCEPT ![h] = s]
    /\ UpdatePowerState(adapter_state, handlers, answer')
    /\ UNCHANGED <<present, powered, signals, handlers, setCalls, applet,
                   request, loaded, sync>>

\* KillSwitch.__on_file_changed: /dev/rfkill went away; nobody is told.
HandlerLost(h) ==
    /\ h \in handlers
    /\ answer' = [answer EXCEPT ![h] = "OFF"]
    /\ UNCHANGED <<present, powered, signals, handlers, setCalls, applet,
                   request, derived, loaded, sync>>

\* A handler plugin is loaded (it depends on this one).
LoadHandler(h) ==
    /\ loaded
    /\ h \notin handlers
    /\ handlers' = handlers \cup {h}
    /\ \E s \in {"ON", "OFF"} : answer' = [answer EXCEPT ![h] = s]
    /\ UNCHANGED <<present, powered, signals, setCalls, applet, request,
                   derived, loaded, sync>>

\* ... and unloaded: replies to its calls are dropped from now on.
UnloadHandler(h) ==
    /\ h \in handlers
    /\ handlers' = handlers \ {h}
    /\ answer' = [answer EXCEPT ![h] = "ON"]
    /\ awaiting' = {pair \in awaiting : pair[1] # h}
    /\ cb' = Collect(cb, awaiting')
    /\ UNCHANGED <<present, powered, signals, setCalls, applet, tracked,
                   request_in_progress, derived, loaded, sync>>

\* Callback.__call__ and check: the last answer completes the request,
\* whatever it says (success is recorded and never read), and even when the
\* timer has already given up on it.
HandlerAnswers(h, c) ==
    /\ <<h, c>> \in awaiting
    /\ awaiting' = awaiting \ {<<h, c>>}
    /\ IF cb[c].called + 1 = cb[c].num_cb
       THEN /\ cb' = Collect([cb EXCEPT ![c] = Stopped(Answered(cb[c]))],
                             awaiting')
            /\ tracked' = tracked \ {c}
            /\ setCalls' = SetPowered(present, cb[c].state)
            /\ UpdatePowerState(cb[c].state, handlers, answer)
            /\ request_in_progress' = FALSE
       ELSE /\ cb' = Collect([cb EXCEPT ![c] = Answered(cb[c])], awaiting')
            /\ UNCHANGED <<tracked, setCalls, derived, request_in_progress>>
    /\ UNCHANGED <<environment, applet, loaded, sync>>

-----------------------------------------------------------------------------
(* The plugin *)

\* Callback.timeout: five seconds went by.
CallbackTimeout(c) ==
    /\ cb[c].timer
    /\ cb' = Collect([cb EXCEPT ![c] = Stopped(cb[c])], awaiting)
    /\ tracked' = tracked \ {c}
    /\ UpdatePowerState(adapter_state, handlers, answer)
    /\ request_in_progress' = FALSE
    /\ UNCHANGED <<environment, setCalls, applet, awaiting, loaded, sync>>

\* SetBluetoothStatus on D-Bus, and the menu item (on_bluetooth_toggled).
UserRequest(state) ==
    /\ loaded
    /\ RequestPowerState(state, FALSE)
    /\ UNCHANGED <<environment, applet, loaded, sync>>

\* The one second timer of on_manager_state_changed.
SyncTimeout ==
    /\ sync
    /\ sync' = FALSE
    /\ RequestPowerState(AdapterState, FALSE)
    /\ UNCHANGED <<environment, applet, loaded>>

\* on_adapter_property_changed: adopts what the adapters say, after asking
\* for power if the signal says that one came up while we were off.
PoweredSignal ==
    /\ signals # << >>
    /\ signals' = Tail(signals)
    /\ IF ~loaded THEN UNCHANGED <<request, derived, setCalls>>
       ELSE /\ UpdatePowerState(AdapterState, handlers, answer)
            /\ IF Head(signals)[2] /\ ~current_state /\ ~request_in_progress
               THEN IF handlers = {}
                    THEN /\ setCalls' = SetPowered(present, TRUE)
                         /\ UNCHANGED request
                    ELSE AskHandlers(TRUE) /\ UNCHANGED setCalls
               ELSE UNCHANGED <<request, setCalls>>
    /\ UNCHANGED <<present, powered, handlers, answer, applet, loaded, sync>>

\* _on_dbus_name_appeared / on_manager_state_changed(True)
ManagerAppears ==
    /\ ~(manager_state /\ plugin_run_state_changed)
    /\ manager_state' = TRUE
    /\ plugin_run_state_changed' = TRUE
    /\ sync' = loaded
    /\ UNCHANGED <<environment, setCalls, request, derived, loaded>>

\* _on_dbus_name_vanished / on_manager_state_changed(False)
ManagerVanishes ==
    /\ manager_state \/ ~plugin_run_state_changed
    /\ manager_state' = FALSE
    /\ plugin_run_state_changed' = TRUE
    /\ sync' = FALSE
    /\ UNCHANGED <<environment, setCalls, request, derived, loaded>>

\* unload_plugin: first the handlers, which depend on the plugin, then
\* on_unload, which stops its timers.
Unload ==
    /\ loaded
    /\ loaded' = FALSE
    /\ handlers' = {}
    /\ answer' = [h \in Handlers |-> "ON"]
    /\ awaiting' = {}
    /\ cb' = Collect([c \in Callbacks |-> IF c \in tracked THEN Stopped(cb[c])
                                                          ELSE cb[c]], {})
    /\ tracked' = {}
    /\ sync' = FALSE
    /\ UNCHANGED <<present, powered, signals, setCalls, applet,
                   request_in_progress, derived>>

\* on_load of a new instance, then AppletPlugin._load.
Load ==
    /\ ~loaded
    /\ loaded' = TRUE
    /\ adapter_state' = TRUE
    /\ current_state' = TRUE
    /\ item' = [offers |-> "Off", sensitive |-> TRUE]
    /\ request_in_progress' = FALSE
    /\ tracked' = {}
    /\ sync' = (plugin_run_state_changed /\ manager_state)
    /\ UNCHANGED <<environment, setCalls, applet, cb, awaiting>>

-----------------------------------------------------------------------------
(* BluemanApplet.__init__ has loaded the plugins; bluetoothd may be running
   already, its name has not been reported yet. *)
Init ==
    /\ present \in SUBSET Adapters
    /\ powered \in {p \in [Adapters -> BOOLEAN] :
                        \A a \in Adapters \ present : ~p[a]}
    /\ setCalls = {}
    /\ signals = << >>
    /\ handlers \in SUBSET Handlers
    /\ answer = [h \in Handlers |-> "ON"]
    /\ awaiting = {}
    /\ manager_state = FALSE
    /\ plugin_run_state_changed = FALSE
    /\ loaded = TRUE
    /\ adapter_state = TRUE
    /\ current_state = TRUE
    /\ request_in_progress = FALSE
    /\ sync = FALSE
    /\ cb = [c \in Callbacks |-> NoCallback]
    /\ tracked = {}
    /\ item = [offers |-> "Off", sensitive |-> TRUE]

Next ==
    \/ \E a \in Adapters :
           PoweredChanges(a) \/ AdapterAdded(a) \/ AdapterRemoved(a)
    \/ \E call \in Adapters \X BOOLEAN : BluezHandlesSet(call)
    \/ \E h \in Handlers, s \in State : HandlerChanges(h, s)
    \/ \E h \in Handlers : HandlerLost(h) \/ LoadHandler(h) \/ UnloadHandler(h)
    \/ \E h \in Handlers, c \in Callbacks : HandlerAnswers(h, c)
    \/ \E c \in Callbacks : CallbackTimeout(c)
    \/ \E state \in BOOLEAN : UserRequest(state)
    \/ SyncTimeout \/ PoweredSignal
    \/ ManagerAppears \/ ManagerVanishes
    \/ Unload \/ Load

Spec == Init /\ [][Next]_vars

-----------------------------------------------------------------------------
(* Properties *)

TypeOK ==
    /\ present \subseteq Adapters
    /\ powered \in [Adapters -> BOOLEAN]
    /\ setCalls \subseteq Adapters \X BOOLEAN
    /\ signals \in Seq(Adapters \X BOOLEAN)
    /\ handlers \subseteq Handlers
    /\ answer \in [Handlers -> State]
    /\ awaiting \subseteq Handlers \X Callbacks
    /\ manager_state \in BOOLEAN
    /\ plugin_run_state_changed \in BOOLEAN
    /\ loaded \in BOOLEAN
    /\ adapter_state \in BOOLEAN
    /\ current_state \in BOOLEAN
    /\ request_in_progress \in BOOLEAN
    /\ sync \in BOOLEAN
    /\ cb \in [Callbacks -> CallbackObject]
    /\ tracked \subseteq Callbacks
    /\ item \in [offers : {"On", "Off"}, sensitive : BOOLEAN]

\* on_unload cancels the callbacks in _pending_callbacks, so that set must
\* name exactly the callbacks whose five second source is running: one left
\* out would fire into an unloaded plugin, one too many would be removed twice.
TimersTracked == \A c \in Callbacks : cb[c].timer <=> c \in tracked

\* request_in_progress turns every further request away; it may stay set only
\* while some callback's timer is running to clear it.
RequestIsTimed == loaded /\ request_in_progress => tracked # {}

\* Callback.check compares called with num_cb for equality: the answers still
\* to come never take called past num_cb, so a request completes at most once
\* whatever the order of answers, timeouts and unloaded handlers.
AnswersCounted ==
    \A c \in Callbacks :
        cb[c].called + Cardinality(Awaited(c, awaiting)) <= cb[c].num_cb

\* Late answers, timeouts and new requests overlap, and still no request blocks
\* the later ones for ever and none completes twice.
RequestsAccounted == RequestIsTimed /\ AnswersCounted

\* After on_unload no timer and no reply can reach the plugin any more.
QuietAfterUnload ==
    ~loaded => /\ ~sync
               /\ awaiting = {}
               /\ \A c \in Callbacks : ~cb[c].timer

\* The menu item, which is only redrawn on some paths of update_power_state,
\* always offers the opposite of the current state, and cannot be dead while
\* Bluetooth is on.
ItemMatchesState ==
    loaded => /\ item.offers = (IF current_state THEN "Off" ELSE "On")
              /\ current_state => item.sensitive

\* bluetoothd cannot power an adapter whose switch is still blocked: as long
\* as one of the handlers that were asked has to answer, the answers of the
\* others, however late and whoever was unloaded or timed out meanwhile,
\* switch no adapter.
AnsweredBeforeSwitched ==
    [][\A h \in Handlers, c \in Callbacks :
           <<h, c>> \in awaiting \ awaiting' /\ setCalls' # setCalls =>
               Awaited(c, awaiting') = {}]_vars

\* No path changes adapter_state without recomputing current_state.
AdapterStateRecomputed ==
    [][adapter_state' # adapter_state =>
           current_state' = IsOn(adapter_state', handlers', answer')]_vars

=============================================================================
