----------------------------- MODULE ManagerWindow -----------------------------
(***************************************************************************)
(* What the window blueman-manager has under way: connections to devices   *)
(* (gui/manager/ManagerDeviceMenu.py) and searches for devices             *)
(* (main/Manager.py, gui/DeviceList.py), each with a progress bar, and the *)
(* buttons that start them (gui/manager/ManagerToolbar.py).                *)
(*                                                                         *)
(* The calls of a search go to BlueZ and its answers and property changes  *)
(* come back in order, but each arrives later, at any time: the window may *)
(* act on a state of BlueZ that is over.                                   *)
(***************************************************************************)
EXTENDS ProgressBars

CONSTANTS
    Devices,
    MaxPending,     \* bound: calls to BlueZ not handled, and messages of it not received
    NoDevice        \* not a device

ASSUME WindowAssumption == MaxPending \in Nat \ {0} /\ NoDevice \notin Devices

VARIABLES
    job,            \* what a bar is for: [phase, dev], dev = NoDevice for a search
    hooked,         \* the searches whose handlers of the list's signals are connected
    ops,            \* __ops__: the devices whose menu says "Connecting..."
    stuck,          \* history: those of which that was said, and then no call made
    discovering,    \* DeviceList.discovering
    seen,           \* Adapter1.Discovering when the toolbar's button was set
    told,           \* what the Search item of the menu was last told of it
    bluez,          \* BlueZ discovers for the window
    calls,          \* StartDiscovery and StopDiscovery on their way
    inbox           \* Discovering changes and errors of BlueZ on their way

searchVars == <<hooked, discovering, seen, told, bluez, calls, inbox>>
vars == <<barVars, job, ops, stuck, searchVars>>

Idle == [phase |-> "none", dev |-> NoDevice]
Waiting(d) == [phase |-> "waiting", dev |-> d]

Elements(s) == {s[i] : i \in DOMAIN s}
Calls == [kind : {"start", "stop"}, bars : SUBSET Bars]
Messages == [kind : {"Discovering", "error"}, on : BOOLEAN, bars : SUBSET Bars]
Changed(on) == [kind |-> "Discovering", on |-> on, bars |-> {}]
Failed(b) == [kind |-> "error", on |-> FALSE, bars |-> {b}]
Start(b) == [kind |-> "start", bars |-> {b}]
Stop == [kind |-> "stop", bars |-> {}]

\* A new bar is one that nothing refers to any more.
Unused(b) == /\ b \notin InStack \cup hooked
             /\ \A m \in Elements(inbox) \cup Elements(calls) : b \notin m.bars

Ended(B) == [b \in Bars |-> IF b \in B THEN Idle ELSE job[b]]

Init ==
    /\ BarsInit
    /\ job = [b \in Bars |-> Idle]
    /\ hooked = {} /\ ops = {} /\ stuck = {}
    /\ discovering = FALSE /\ seen = FALSE /\ told = FALSE /\ bluez = FALSE
    /\ calls = <<>> /\ inbox = <<>>

(***************************************************************************)
(* Connecting.  A double click on a device that is not connected does not  *)
(* care for an operation under way, so that two may be.                    *)
(***************************************************************************)
connect_service(d, b) ==
    /\ Unused(b) /\ NewBar(b)
    /\ stuck' = stuck \ {d}
    /\ \/ ops' = ops \cup {d} /\ job' = [job EXCEPT ![b] = Waiting(d)]
       \/ \* the menu was made without an applet to ask
          ops' = ops \ {d} /\ job' = [job EXCEPT ![b] = [phase |-> "message", dev |-> d]]
    /\ UNCHANGED searchVars

\* set_op raises, when a menu has had no device to show yet, or reads one that is gone: there
\* is no bar, and no call but one that is already under way.
SetOpRaises(d) ==
    /\ ops' = ops \cup {d} /\ stuck' = stuck \cup ({d} \ ops)
    /\ UNCHANGED job /\ UNCHANGED barVars /\ UNCHANGED searchVars

\* Mutant: the operation is not taken back.
AnswerLeavesOp(b) ==
    /\ job[b].phase = "waiting" /\ job[b].dev # NoDevice
    /\ job' = [job EXCEPT ![b].phase = "message"]
    /\ UNCHANGED <<ops, stuck>> /\ UNCHANGED barVars /\ UNCHANGED searchVars

\* success, and fail with an error
Answer(b) ==
    /\ job[b].phase = "waiting" /\ job[b].dev # NoDevice
    /\ ops' = ops \ {job[b].dev} /\ stuck' = stuck \ {job[b].dev}
    /\ job' = [job EXCEPT ![b].phase = "message"]
    /\ UNCHANGED barVars /\ UNCHANGED searchVars

\* Mutant: nor here.
CancelledLeavesOp(b) ==
    /\ job[b].phase = "waiting" /\ job[b].dev # NoDevice
    /\ job' = Ended({b}) /\ Finalize({b})
    /\ UNCHANGED <<ops, stuck>> /\ UNCHANGED searchVars

\* fail, because the connection was cancelled: the bar goes at once
Cancelled(b) ==
    /\ job[b].phase = "waiting" /\ job[b].dev # NoDevice
    /\ ops' = ops \ {job[b].dev} /\ stuck' = stuck \ {job[b].dev}
    /\ job' = Ended({b}) /\ Finalize({b})
    /\ UNCHANGED searchVars

\* A second and a half after message().
MessageOver(b) ==
    /\ job[b].phase = "message"
    /\ job' = Ended({b}) /\ Finalize({b})
    /\ UNCHANGED <<ops, stuck>> /\ UNCHANGED searchVars

(***************************************************************************)
(* Searching.                                                              *)
(***************************************************************************)
discover_devices(b) ==
    IF discovering THEN UNCHANGED <<discovering, calls>> ELSE
    /\ Len(calls) < MaxPending
    /\ discovering' = TRUE /\ calls' = Append(calls, Start(b))

\* inquiry(): the button or the item is sensitive.
inquiry(b) ==
    /\ ~seen \/ ~told
    /\ Unused(b) /\ NewBar(b)
    /\ job' = [job EXCEPT ![b] = Waiting(NoDevice)]
    /\ hooked' = hooked \cup {b}
    /\ discover_devices(b)
    /\ UNCHANGED <<ops, stuck, seen, told, bluez, inbox>>

stop_discovery ==
    /\ Len(calls) < MaxPending
    /\ discovering' = FALSE /\ calls' = Append(calls, Stop)
    /\ UNCHANGED <<ops, stuck, hooked, seen, told, bluez, inbox>> /\ UNCHANGED barVars

\* update_progress, after a minute, when StartDiscovery has been answered for long
TimeUp ==
    /\ discovering /\ \A c \in Elements(calls) : c.kind # "start"
    /\ stop_discovery /\ UNCHANGED job

\* The user clicks the button of the bar, once.
Cancel(b) ==
    /\ b \in visible /\ job[b] = Waiting(NoDevice)
    /\ job' = [job EXCEPT ![b].phase = "cancelled"]
    /\ stop_discovery

\* on_error: the bar goes; its handlers and "discovering" stay.
StartFails ==
    /\ inbox # <<>> /\ Head(inbox).kind = "error" /\ inbox' = Tail(inbox)
    /\ Finalize(Head(inbox).bars) /\ job' = Ended(Head(inbox).bars)
    /\ UNCHANGED <<ops, stuck, hooked, discovering, seen, told, bluez, calls>>

\* _update_buttons, when a device is selected
ButtonsUpdated ==
    /\ seen # bluez /\ seen' = bluez
    /\ UNCHANGED <<job, ops, stuck, hooked, discovering, told, bluez, calls, inbox>> /\ UNCHANGED barVars

\* DeviceList._on_property_changed, whose signal ends the searches: prop_changed
DiscoveryOver == discovering' = FALSE

\* prop_changed: every search ends, with its handlers.
AllEnd == /\ Finalize(hooked)
          /\ job' = Ended(hooked) /\ hooked' = {}
          /\ DiscoveryOver

DiscoveringChanges ==
    /\ inbox # <<>> /\ Head(inbox).kind = "Discovering" /\ inbox' = Tail(inbox)
    /\ told' = Head(inbox).on /\ seen' = bluez
    /\ IF Head(inbox).on
       THEN UNCHANGED <<job, hooked, discovering>> /\ UNCHANGED barVars
       ELSE AllEnd
    /\ UNCHANGED <<ops, stuck, bluez, calls>>

\* DeviceList.set_adapter, for another adapter: a search is stopped and ended.  What was
\* said to the old adapter fails at most, and of what it says only the Search item hears,
\* which follows every adapter.
set_adapter ==
    /\ calls' = <<>> /\ bluez' = FALSE /\ seen' = FALSE /\ told' \in BOOLEAN
    /\ LET errors == {m \in Elements(inbox) : m.kind = "error"}
           starts == {Failed(CHOOSE b \in Bars : b \in c.bars) :
                        c \in {s \in Elements(calls) : s.kind = "start"}}
       IN  \E E \in SUBSET starts :
             inbox' \in {s \in [1 .. Cardinality(errors \cup E) -> errors \cup E] :
                            Elements(s) = errors \cup E}
    /\ IF discovering THEN AllEnd
       ELSE UNCHANGED <<job, hooked, discovering>> /\ UNCHANGED barVars
    /\ UNCHANGED <<ops, stuck>>

(***************************************************************************)
(* BlueZ.                                                                  *)
(***************************************************************************)
HandleStart ==
    /\ calls # <<>> /\ Head(calls).kind = "start" /\ Len(inbox) < MaxPending
    /\ calls' = Tail(calls)
    /\ \/ ~bluez /\ bluez' = TRUE /\ inbox' = Append(inbox, Changed(TRUE))
       \/ /\ inbox' = Append(inbox, Failed(CHOOSE b \in Bars : b \in Head(calls).bars))
          /\ UNCHANGED bluez
    /\ UNCHANGED <<job, ops, stuck, hooked, discovering, seen, told>> /\ UNCHANGED barVars

\* Without a discovery the call fails, and the error is only logged.
HandleStop ==
    /\ calls # <<>> /\ Head(calls).kind = "stop"
    /\ calls' = Tail(calls)
    /\ IF bluez THEN /\ Len(inbox) < MaxPending
                     /\ bluez' = FALSE /\ inbox' = Append(inbox, Changed(FALSE))
       ELSE UNCHANGED <<bluez, inbox>>
    /\ UNCHANGED <<job, ops, stuck, hooked, discovering, seen, told>> /\ UNCHANGED barVars

\* The adapter is powered off.
DiscoveryAborted ==
    /\ bluez /\ Len(inbox) < MaxPending
    /\ bluez' = FALSE /\ inbox' = Append(inbox, Changed(FALSE))
    /\ UNCHANGED <<job, ops, stuck, hooked, discovering, seen, told, calls>> /\ UNCHANGED barVars

SetStatusbar(v) == v # show_statusbar /\ SetShowStatusbar(v) /\ UNCHANGED <<job, ops, stuck>> /\ UNCHANGED searchVars

Next ==
    \/ \E d \in Devices, b \in Bars : connect_service(d, b)
    \/ \E d \in Devices : SetOpRaises(d)
    \/ \E b \in Bars : Answer(b) \/ Cancelled(b) \/ MessageOver(b) \/ inquiry(b) \/ Cancel(b)
    \/ TimeUp \/ StartFails \/ ButtonsUpdated \/ DiscoveringChanges \/ set_adapter
    \/ HandleStart \/ HandleStop \/ DiscoveryAborted
    \/ \E v \in BOOLEAN : SetStatusbar(v)

\* D-Bus answers every call of the applet, if only with a timeout, and brings BlueZ's
\* messages; GLib runs timers.
Fairness ==
    /\ \A b \in Bars : WF_vars(Answer(b) \/ Cancelled(b)) /\ WF_vars(MessageOver(b))
    /\ WF_vars(HandleStart) /\ WF_vars(HandleStop)
    /\ WF_vars(StartFails) /\ WF_vars(DiscoveringChanges)
    /\ WF_vars(TimeUp)

Spec == Init /\ [][Next]_vars /\ Fairness

-------------------------------------------------------------------------------
(* The types of the variables. *)
TypeOK ==
    /\ InStack \cup finalized \cup visible \cup hooked \subseteq Bars
    /\ job \in [Bars -> [phase : {"none", "waiting", "message", "cancelled"},
                         dev : Devices \cup {NoDevice}]]
    /\ stuck \subseteq ops /\ ops \subseteq Devices
    /\ Len(calls) <= MaxPending /\ calls \in Seq(Calls) /\ inbox \in Seq(Messages)
    /\ {discovering, seen, told, bluez, show_statusbar, statusbar} \subseteq BOOLEAN
    /\ \A b \in Bars : job[b].phase # "none" <=> b \in Active

(* Each operation has its bar, and of the bars the right one is shown, though connections,
   searches, cancellations and late errors end them in any order. *)
BarPerJob == TypeOK /\ BarsShown

(* A device whose menu says that it is being connected has a call under way which will
   take that back, though calls for one device overlap and the answer to the first takes
   back what the second said; but for one of which a menu without a device has said so
   without a call (ManagerDeviceMenu.set_op, unset_op, connect_service). *)
OpHasCall == \A d \in ops \ stuck : \E b \in Bars : job[b] = Waiting(d)

(* The menu of a device does not say forever that it is being connected, but for that case. *)
OpEnds == \A d \in Devices : d \in ops ~> d \notin ops \ stuck
===============================================================================
